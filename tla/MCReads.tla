------------------------------- MODULE MCReads -------------------------------
(* A chain g - a1 - a2 - a3 with a branch a2 - b3.  Instance 2 serves every   *)
(* group and lags behind instance 1, which it may replace.                  *)
EXTENDS Reads

MCBlock  == {"a1", "a2", "a3", "b3"}
MCParent == [b \in MCBlock |-> CASE b = "a1" -> "g" [] b = "a2" -> "a1" [] OTHER -> "a2"]
MCHeight == [b \in MCBlock \cup {"g"} |->
    CASE b = "g" -> 0 [] b = "a1" -> 1 [] b = "a2" -> 2 [] OTHER -> 3]

MCServes  == <<{"utxos", "scripts", "inscription_utxos"}, Group>>
MCStartAt == <<"a2", "a1">>

\* a2 makes four outputs; a3 and b3 spend some of them and make others.
MCOutput == [b \in MCBlock \cup {"g"} |->
    CASE b = "a2" -> {11, 12, 13, 14}
      [] b = "a3" -> {11, 13, 15, 16, 17}
      [] b = "b3" -> {12, 13, 14, 18, 19}
      [] OTHER -> {}]
MCSeen == {"a2", "a3", "b3"}
MCIds  == [e \in 1..19 |-> CASE e = 12 -> {5} [] e = 15 -> {2, 5} [] e = 18 -> {3} [] OTHER -> {}]

Of(kind, order, from, cur, count, dust, exclude, address) ==
    [kind |-> kind, order |-> order, from |-> from, to |-> 3, cursor |-> cur, count |-> count,
     dust |-> dust, exclude |-> exclude, address |-> address]

MCListings == {Of("utxos", "Asc", 0, 0, 2, FALSE, FALSE, TRUE),
               Of("utxos", "Asc", 2, 0, 2, TRUE, FALSE, FALSE),
               Of("utxos", "Desc", 0, 0, 1, FALSE, TRUE, FALSE),
               Of("utxos", "Asc", 3, 14, 2, FALSE, FALSE, FALSE),
               Of("inscriptions", "Asc", 0, 0, 1, FALSE, FALSE, FALSE)}

Opt(force, destroy, tsOnly) == [force |-> force, destroy |-> destroy, tsOnly |-> tsOnly]
MCOptions == {Opt(TRUE, FALSE, FALSE), Opt(TRUE, TRUE, FALSE), Opt(TRUE, FALSE, TRUE)}
MCDry     == {Opt(FALSE, FALSE, FALSE), Opt(FALSE, TRUE, FALSE)}
=============================================================================
