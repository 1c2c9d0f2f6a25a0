------------------------------ MODULE MCLedger ------------------------------
(***************************************************************************)
(* Small libraries of transactions for Polyphony and Ledger.               *)
(***************************************************************************)
EXTENDS Polyphony

To(script, value) == [script |-> script, value |-> value, op_return |-> FALSE]
Data == [script |-> "data", value |-> 0, op_return |-> TRUE]

NoSig == [head |-> 0, chunks |-> <<>>, msg |-> None]
NoPair == <<None, None>>
Stone == [edicts |-> <<>>, etch |-> FALSE, terms |-> FALSE, dune |-> None,
          premine |-> 0, cap |-> None, limit |-> None, height |-> NoPair,
          offset |-> NoPair, pointer |-> None, rest |-> FALSE]
Edict(id, amount, output) == [id |-> id, amount |-> amount, output |-> output]

Plain(ins, outs) == [ins |-> ins, outs |-> outs, stone |-> None, sig |-> NoSig]
WithStone(ins, outs, stone) == [Plain(ins, outs) EXCEPT !.stone = stone]

MCSteps == <<0, 10, 20>>
-----------------------------------------------------------------------------
(* Dunes: two etchings compete for a name, two mints for the last place     *)
(* under a cap, one transaction moves dunes and one burns them.  The second *)
(* etching allots itself more than its premine.  The mints name the dune by  *)
(* the place its etching has in one of the possible chains.                 *)

DuneCoinbases == <<"c1", "c2", "c3">>

DuneTx ==
    [c1 |-> Plain(<<>>, <<To("A", 2), To("B", 2)>>),
     c2 |-> Plain(<<>>, <<To("A", 2)>>),
     c3 |-> Plain(<<>>, <<To("B", 2)>>),
     etch |-> WithStone(<<<<"c1", 0>>>>, <<Data, To("A", 2)>>,
                 [Stone EXCEPT !.etch = TRUE, !.dune = 25, !.premine = 3,
                               !.terms = TRUE, !.cap = 1, !.limit = 2,
                               !.offset = <<None, 1>>]),
     mint |-> WithStone(<<<<"c1", 1>>>>, <<Data, To("B", 2)>>,
                 [Stone EXCEPT !.edicts = <<Edict(<<1, 2, 1>>, 0, 1)>>]),
     again |-> WithStone(<<<<"c2", 0>>>>, <<Data, To("B", 2)>>,
                 [Stone EXCEPT !.edicts = <<Edict(<<1, 2, 1>>, 1, 1), Edict(NewIssue, 2, 1)>>,
                               !.etch = TRUE, !.dune = 25, !.premine = 1]),
     send |-> WithStone(<<<<"etch", 1>>, <<"mint", 1>>>>, <<To("A", 1), To("B", 3), Data>>,
                 [Stone EXCEPT !.edicts = <<Edict(<<0, 2, 1>>, 2, 0), Edict(<<0, 2, 1>>, 2, 1)>>,
                               !.pointer = 1, !.etch = TRUE]),
     burn |-> WithStone(<<<<"send", 1>>>>, <<Data, To("A", 3)>>, [Stone EXCEPT !.rest = TRUE])]

\* The same with an etching whose terms set no amount per mint.
OpenMintTx == [DuneTx EXCEPT !.etch.stone.limit = None]
-----------------------------------------------------------------------------
(* DRC-20: a token is deployed, minted in one piece and in two transactions *)
(* (the last mint is cut at the maximum), and a transfer inscription is     *)
(* moved to another script or spent as a fee, together with a new           *)
(* inscription.  Both outputs of the first half of an inscription may be     *)
(* spent by a second half.  Coinbases pay more than the subsidy the code     *)
(* computes, as Dogecoin's do.                                              *)

Num(n) == [ok |-> TRUE, int |-> n, frac |-> 0, digits |-> 0]
Msg == [op |-> "", tick |-> "t", tick_ok |-> TRUE, max |-> None, lim |-> None,
        dec |-> 0, amt |-> None]
Inscribe(ins, outs, msg) ==
    [Plain(ins, outs) EXCEPT !.sig = [head |-> 1, chunks |-> <<0>>, msg |-> msg]]

Drc20Coinbases == <<"c1", "c2", "c3">>

Drc20Tx ==
    [c1 |-> Plain(<<>>, <<To("A", 1), To("A", 2), To("A", 2), To("A", 1)>>),
     c2 |-> Plain(<<>>, <<To("B", 3)>>),
     c3 |-> Plain(<<>>, <<To("A", 4)>>),
     deploy |-> Inscribe(<<<<"c1", 0>>>>, <<To("A", 1)>>,
                   [Msg EXCEPT !.op = "deploy", !.max = Num(5), !.lim = Num(3)]),
     mint |-> Inscribe(<<<<"c1", 1>>>>, <<To("A", 2)>>,
                   [Msg EXCEPT !.op = "mint", !.amt = Num(3)]),
     part |-> [Plain(<<<<"c2", 0>>>>, <<To("B", 1), To("B", 1)>>) EXCEPT
                   !.sig = [head |-> 2, chunks |-> <<1>>,
                            msg |-> [Msg EXCEPT !.op = "mint", !.amt = Num(3)]]],
     rest |-> [Plain(<<<<"part", 0>>>>, <<To("B", 1)>>) EXCEPT
                   !.sig = [head |-> 0, chunks |-> <<0>>, msg |-> None]],
     other |-> [Plain(<<<<"part", 1>>>>, <<To("A", 1)>>) EXCEPT
                   !.sig = [head |-> 0, chunks |-> <<0>>, msg |-> None]],
     transfer |-> Inscribe(<<<<"c1", 2>>>>, <<To("A", 2)>>,
                   [Msg EXCEPT !.op = "transfer", !.amt = Num(2)]),
     move |-> Plain(<<<<"c1", 3>>, <<"transfer", 0>>>>, <<To("A", 1), To("B", 2)>>),
     fee |-> Inscribe(<<<<"c1", 3>>, <<"transfer", 0>>>>, <<Data>>, Msg)]
=============================================================================
