------------------------------ MODULE BlockTree ------------------------------
(***************************************************************************)
(* The block tree of the Dogecoin network, as far as the indexer can see   *)
(* it: every block names its predecessor in its header and its height      *)
(* follows from it.  The tree is external to this repository; blocks stand *)
(* for (height, hash) points, because a hash determines its ancestors.     *)
(***************************************************************************)
EXTENDS Integers, Sequences

CONSTANTS Block,    \* the blocks of every fork, the genesis block excluded
          Genesis,  \* the genesis block: known by hash, never stored
          Parent,   \* header.prev_blockhash
          Height

Node == Block \cup {Genesis}

ASSUME TreeAssumption ==
    /\ Genesis \notin Block
    /\ Parent \in [Block -> Node]
    /\ Height \in [Node -> Nat]
    /\ Height[Genesis] = 0
    /\ \A b \in Block : Height[b] = Height[Parent[b]] + 1

\* The blocks from the first one up to b.
Chain[b \in Node] == IF b = Genesis THEN <<>> ELSE Append(Chain[Parent[b]], b)
=============================================================================
