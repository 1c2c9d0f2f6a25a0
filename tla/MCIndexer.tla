------------------------------ MODULE MCIndexer ------------------------------
(* A chain g - a1 - ... - a5 with branches a2 - b3 - b4 and a3 - c4.        *)
EXTENDS Indexer

MCBlock  == {"a1", "a2", "a3", "a4", "a5", "b3", "b4", "c4"}
MCParent == [b \in MCBlock |->
    CASE b = "a1" -> "g"  [] b = "a2" -> "a1" [] b = "a3" -> "a2"
      [] b = "a4" -> "a3" [] b = "a5" -> "a4"
      [] b = "b3" -> "a2" [] b = "b4" -> "b3" [] b = "c4" -> "a3"]
MCHeight == [b \in MCBlock \cup {"g"} |->
    CASE b = "g" -> 0 [] b = "a1" -> 1 [] b = "a2" -> 2
      [] b \in {"a3", "b3"} -> 3 [] b \in {"a4", "b4", "c4"} -> 4 [] b = "a5" -> 5]

\* n is a balance (increments), s an entry that blocks set, d one they delete.
MCKey    == {"n", "s", "d"}
MCChunks == <<{"d"}, {"s"}>>
MCTouch == [b \in MCBlock |->
    CASE b \in {"a1", "a4", "b4"} -> {"n", "s"}
      [] b \in {"a2", "a5", "c4"} -> {"n", "d"}
      [] b \in {"a3", "b3"} -> {"s", "d"}]
MCLog == <<"a1", "a2", "a3">>
MCLogTop == <<"a3", "a4">>

Trial(events, crashes, worker, source, returns) ==
    [events |-> events, crashes |-> crashes, workerFaults |-> worker,
     sourceFaults |-> source, returns |-> returns]

\* At the tip: a process crash with a failing storage call, or failing calls of
\* source and storage while the chain may return to an abandoned block.
MCTip      == {Trial(4, 1, 1, 0, FALSE), Trial(3, 0, 1, 1, TRUE)}
MCCrash    == {Trial(4, 1, 0, 0, TRUE)}
MCBackfill == {Trial(1, 1, 1, 0, FALSE)}
=============================================================================
