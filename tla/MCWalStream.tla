----------------------------- MODULE MCWalStream -----------------------------
(***************************************************************************)
(* One stream over a small tree:   G - a1 - a2 - a3 - a4                   *)
(*                                      `- b2 - b3                         *)
(***************************************************************************)
EXTENDS WalStream, TLC

MCBlock  == {"a1", "a2", "a3", "a4", "b2", "b3"}
MCParent == ("a1" :> "g") @@ ("a2" :> "a1") @@ ("a3" :> "a2") @@ ("a4" :> "a3")
            @@ ("b2" :> "a1") @@ ("b3" :> "b2")
MCHeight == ("g" :> 0) @@ ("a1" :> 1) @@ ("a2" :> 2) @@ ("a3" :> 3) @@ ("a4" :> 4)
            @@ ("b2" :> 2) @@ ("b3" :> 3)
MCSpending == {"a3"}
=============================================================================
