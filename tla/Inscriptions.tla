----------------------------- MODULE Inscriptions -----------------------------
(***************************************************************************)
(* The inscription and DRC-20 rules of the compressor.                      *)
(*                                                                         *)
(* The script_sig of a transaction's first input is a record: head is the   *)
(* number of pieces announced behind the protocol id (0: no protocol id),   *)
(* chunks the countdown numbers of the pieces it carries, msg the DRC-20    *)
(* message of the whole content, None if it has none.  A number written in  *)
(* a message is a record of its integer part, its decimal part and the      *)
(* number of decimal digits.  lost_sats is left out: only the location of   *)
(* lost inscriptions depends on it, and callers drop that.                  *)
(***************************************************************************)
EXTENDS Tables

CONSTANTS Base,      \* 10
          MaxDec,    \* 18, also the default of "dec"
          MaxInt     \* u64::MAX, the bound of an integer part
-----------------------------------------------------------------------------
(* InscriptionParser::parse over the script sigs of a chain of transactions. *)

Failed == -1

\* How many pieces of a script sig continue a countdown at n.
Pieces(n, chunks) ==
    Max({0} \cup {k \in 1..Min({n, Len(chunks)}) : \A j \in 1..k : chunks[j] = n - j})

Parse(sigs) ==
    LET left[i \in DOMAIN sigs] ==
            LET s == sigs[i]
            IN  IF i = 1
                THEN IF s.head = 0 THEN Failed ELSE s.head - Pieces(s.head, s.chunks)
                ELSE IF left[i-1] \in {Failed, 0} THEN left[i-1]
                ELSE IF s.head # 0 \/ s.chunks = <<>> THEN Failed
                ELSE IF s.chunks[1] # left[i-1] - 1 THEN Failed
                ELSE left[i-1] - Pieces(left[i-1], s.chunks)
        rest == left[Len(sigs)]
    IN  IF rest = Failed THEN "none" ELSE IF rest = 0 THEN "complete" ELSE "partial"
-----------------------------------------------------------------------------
(* DRC-20 messages: brc20.rs.                                               *)

\* parse_decimal
ParseDecimal(d, dec) ==
    IF d = None THEN None
    ELSE IF ~d.ok \/ d.int > MaxInt \/ d.digits > dec THEN None
    ELSE d.int * Base^dec + d.frac * Base^(dec - d.digits)

\* DeployAction::parse
ParseDeploy(m) ==
    LET dec == IF m.dec = None THEN MaxDec ELSE m.dec
        max == ParseDecimal(m.max, dec)
        lim == IF m.lim = None THEN max ELSE ParseDecimal(m.lim, dec)
    IN  IF m.op # "deploy" \/ ~m.tick_ok \/ dec > MaxDec
           \/ max \in {None, 0} \/ lim \in {None, 0}
        THEN None ELSE [max |-> max, limit |-> lim, dec |-> dec]

\* MintAction::parse
ParseMint(m, terms) ==
    LET amt == ParseDecimal(m.amt, terms.dec)
    IN  IF m.op # "mint" \/ amt \in {None, 0} THEN None
        ELSE IF amt > terms.limit THEN None ELSE amt

\* TransferAction::parse
ParseTransfer(m, terms) ==
    LET amt == ParseDecimal(m.amt, terms.dec)
    IN  IF m.op # "transfer" \/ amt \in {None, 0} THEN None ELSE amt

Deployed(id, tick) == [op |-> "deploy", id |-> id, tick |-> tick]
Minted(id, tick, amt, script) ==
    [op |-> "mint", id |-> id, tick |-> tick, amt |-> amt, script |-> script]
Transferred(id, tick, amt, from, script) ==
    [op |-> "transfer", id |-> id, tick |-> tick, amt |-> amt, from |-> from,
     script |-> script]
TransferInit(id, tick, amt, script) ==
    [op |-> "init", id |-> id, tick |-> tick, amt |-> amt, script |-> script]

\* (variant) a mint is not cut at the maximum supply
MintAboveMax(t, id, tick, amt, script) ==
    [t EXCEPT !.db.supply = Bump(@, tick, amt),
              !.db.balance = Bump(@, <<script, tick>>, amt),
              !.brc20 = Append(@, Minted(id, tick, amt, script))]

\* A mint is cut at what is left of the maximum supply.
MintUpToMax(t, id, tick, amt, script) ==
    LET left == t.db.drc20[tick].max - Get(t.db.supply, tick, 0)
        n == Min({amt, left})
    IN  IF left = 0 THEN t
        ELSE [t EXCEPT !.db.supply = Bump(@, tick, n),
                       !.db.balance = Bump(@, <<script, tick>>, n),
                       !.brc20 = Append(@, Minted(id, tick, n, script))]

\* A transfer inscription locks its amount until the inscription moves.
LockTransfer(t, id, tick, amt, script) ==
    IF Get(t.db.balance, <<script, tick>>, 0) < amt THEN t
    ELSE [t EXCEPT !.db.balance = Bump(@, <<script, tick>>, -amt),
                   !.unused = Put(@, id, [tick |-> tick, amt |-> amt]),
                   !.brc20 = Append(@, TransferInit(id, tick, amt, script))]

\* The message of a new inscription that went to script (None: to no output).
Message(t, id, m, script) ==
    LET deploy   == ParseDeploy(m)
        deployed == m.tick \in DOMAIN t.db.drc20
        terms    == t.db.drc20[m.tick]
        mint     == ParseMint(m, terms)
        transfer == ParseTransfer(m, terms)
    IN  IF deploy # None
        THEN IF deployed THEN t
             ELSE [t EXCEPT !.db.drc20 = Put(@, m.tick, deploy),
                            !.brc20 = Append(@, Deployed(id, m.tick))]
        ELSE IF ~deployed \/ script = None THEN t
        ELSE IF mint # None THEN MintUpToMax(t, id, m.tick, mint, script)
        ELSE IF transfer # None THEN LockTransfer(t, id, m.tick, transfer, script)
        ELSE t
-----------------------------------------------------------------------------
(* Where the inscriptions of a transaction go: first in, first out.         *)

ValueBefore(txos, n) == FoldLeft(LAMBDA v, o : v + o.value, 0, SubSeq(txos, 1, n - 1))
TotalValue(txos) == ValueBefore(txos, Len(txos) + 1)

Flotsam(id, offset, new) == [id |-> id, offset |-> offset, new |-> new]

\* The inscriptions in the inputs.
Floating(ins) ==
    FlattenSeq([i \in DOMAIN ins |->
        [k \in DOMAIN ins[i].inscriptions |->
            Flotsam(ins[i].inscriptions[k].id,
                    ValueBefore(ins, i) + ins[i].inscriptions[k].offset, FALSE)]])

\* sort_by_key(offset), which is stable
ByOffset(s) ==
    FlattenSeq([o \in 1..(Max({0} \cup {f.offset : f \in ToSet(s)}) + 1) |->
                   SelectSeq(s, LAMBDA f : f.offset = o - 1)])

\* (variant) the end of an output counts as part of it
LocatedInclusive(flotsam, outs) ==
    [v \in DOMAIN outs |->
        LET start == ValueBefore(outs, v)
            here  == SelectSeq(flotsam, LAMBDA f : /\ f.offset >= start
                                                   /\ f.offset <= start + outs[v].value)
        IN  [k \in DOMAIN here |-> [id |-> here[k].id, offset |-> here[k].offset - start]]]

Located(flotsam, outs) ==
    [v \in DOMAIN outs |->
        LET start == ValueBefore(outs, v)
            here  == SelectSeq(flotsam, LAMBDA f : /\ f.offset >= start
                                                   /\ f.offset < start + outs[v].value)
        IN  [k \in DOMAIN here |-> [id |-> here[k].id, offset |-> here[k].offset - start]]]

Beyond(flotsam, outs) == SelectSeq(flotsam, LAMBDA f : f.offset >= TotalValue(outs))

\* The unused transfers in the inputs, with their owner and output.
Unused(tx, ins) ==
    LET at(id) == Max({i \in DOMAIN ins : id \in DOMAIN ins[i].unused})
    IN  [id \in UNION {DOMAIN ins[i].unused : i \in DOMAIN ins} |->
            [tick |-> ins[at(id)].unused[id].tick, amt |-> ins[at(id)].unused[id].amt,
             sender |-> ins[at(id)].script, from |-> tx.ins[at(id)]]]

OutputOf(located, id) == {v \in DOMAIN located : \E k \in DOMAIN located[v] : located[v][k].id = id}

\* A used transfer credits the new owner of the inscription.
Credit(t, id, u, script) ==
    [t EXCEPT !.db.balance = Bump(@, <<script, u.tick>>, u.amt),
              !.brc20 = Append(@, Transferred(id, u.tick, u.amt, u.from, script))]

\* A transfer inscription that is spent as fee returns to its sender.
ReturnFees(t, unused, fees) ==
    FoldLeft(LAMBDA x, f : IF f.id \in DOMAIN unused
                           THEN Credit(x, f.id, unused[f.id], unused[f.id].sender) ELSE x,
             t, fees)

CreditOutputs(t, unused, located, outs) ==
    FoldLeft(LAMBDA x, v :
                 FoldLeft(LAMBDA y, e : IF e.id \in DOMAIN unused
                                        THEN Credit(y, e.id, unused[e.id], outs[v].script)
                                        ELSE y, x, located[v]),
             t, [v \in DOMAIN outs |-> v])
-----------------------------------------------------------------------------
\* The chain of partial inscriptions that a transaction may continue.
PartialChain(db, tx, txid) ==
    IF tx.ins # <<>> /\ tx.ins[1][1] \in DOMAIN db.partial
    THEN Append(db.partial[tx.ins[1][1]].txids, txid) ELSE <<txid>>

ChainSigs(db, tx, txids) ==
    [k \in DOMAIN txids |-> IF k = Len(txids) THEN tx.sig ELSE db.partial[txids[k]].sig]

\* The message of the inscription revealed by sigs, once its place is known.
HandleMessage(t, id, sigs, located, outs) ==
    IF sigs = <<>> \/ sigs[1].msg = None THEN t
    ELSE LET home == OutputOf(located, id)
         IN  Message(t, id, sigs[1].msg, IF home = {} THEN None ELSE outs[Max(home)].script)

\* The transfers among the inscriptions that moved, then the new inscription.
HandleDrc20(t, tx, ins, id, sigs, located, beyond) ==
    HandleMessage(
        CreditOutputs(IF tx.ins = <<>> THEN t ELSE ReturnFees(t, Unused(tx, ins), beyond),
                      Unused(tx, ins), located, tx.outs),
        id, sigs, located, tx.outs)

\* The state of the block after the transaction: t has the tables, and those
\* beyond the outputs go to the coinbase.
AfterInscriptions(w, t, ins, tx, new, located, beyond) ==
    LET outs == tx.outs
        coinbase == tx.ins = <<>>
    IN  [db |-> t.db, brc20 |-> t.brc20,
         cb |-> IF coinbase THEN <<>>
                ELSE w.cb \o [k \in DOMAIN beyond |->
                        [beyond[k] EXCEPT !.offset = w.reward + @ - TotalValue(outs)]],
         reward |-> IF coinbase THEN w.reward ELSE w.reward + TotalValue(ins) - TotalValue(outs),
         new |-> w.new \o new,
         out |-> located,
         unused |-> [v \in DOMAIN outs |->
                       [i \in {e.id : e \in ToSet(located[v])} \cap DOMAIN t.unused |->
                           t.unused[i]]]]

\* all are the inscriptions in the transaction, in the order of their offsets; txids
\* reveal one whose signature scripts are sigs, unless sigs is empty.
PlaceInscriptions(w, db, ins, tx, txid, txids, sigs, all) ==
    LET located == Located(all, tx.outs)
        beyond  == Beyond(all, tx.outs)
        settled == IF tx.ins = <<>> THEN all
                   ELSE SelectSeq(all, LAMBDA f : f.offset < TotalValue(tx.outs))
        start   == [db |-> [db EXCEPT !.next = @ + Len(SelectSeq(settled, LAMBDA f : f.new))],
                    brc20 |-> w.brc20, unused |-> Empty]
    IN  AfterInscriptions(w, HandleDrc20(start, tx, ins, txids[1], sigs, located, beyond),
                          ins, tx,
                          IF sigs = <<>> THEN <<>>
                          ELSE <<[id |-> txids[1], tx |-> txid, number |-> w.db.next]>>,
                          located, beyond)

\* index_inscriptions on the state w of a block in progress: the tables db, the
\* coinbase's reward so far, the inscriptions cb spent as fees, new inscriptions
\* and DRC-20 actions.  out and unused are per output of tx.
IndexInscriptions(w, ins, tx, txid) ==
    LET old    == Floating(ins)
        txids  == PartialChain(w.db, tx, txid)
        sigs   == ChainSigs(w.db, tx, txids)
        parsed == IF \A f \in ToSet(old) : f.offset # 0 THEN Parse(sigs) ELSE "none"
        reveal == IF parsed = "complete" THEN <<Flotsam(txids[1], 0, TRUE)>> ELSE <<>>
    IN  PlaceInscriptions(
            w, [w.db EXCEPT !.partial =
                   IF parsed = "partial"
                   THEN Put(@, txid, [txids |-> txids, sig |-> tx.sig]) ELSE @],
            ins, tx, txid, txids, IF parsed = "complete" THEN sigs ELSE <<>>,
            ByOffset(old \o reveal \o (IF tx.ins = <<>> THEN w.cb ELSE <<>>)))
=============================================================================
