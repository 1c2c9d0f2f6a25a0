---------------------------- MODULE ChainFollower ----------------------------
(***************************************************************************)
(* What every follower of the chain promises its readers: it stands at one *)
(* block of the tree, and moves along a branch, up to a descendant or down *)
(* to an ancestor.  It never jumps from one fork to another without passing *)
(* through a block that both share, whatever fails on the way.             *)
(***************************************************************************)
EXTENDS BlockTree

VARIABLE at

\* a is b or an ancestor of b: some set of blocks between their heights leads
\* from b, parent by parent, to a alone.
Segment(S, a, b) ==
    /\ a \in S /\ b \in S
    /\ \A x \in S : Height[x] = Height[a] => x = a
    /\ \A x \in S \ {a} : Parent[x] \in S

Below(a, b) ==
    \E S \in SUBSET {x \in Node : Height[a] <= Height[x] /\ Height[x] <= Height[b]} :
        Segment(S, a, b)

Start == at = Genesis

Forward(b)  == at' = b /\ Below(at, b)
Backward(b) == at' = b /\ Below(b, at)

Follow == \E b \in Node : Forward(b) \/ Backward(b)

Following == Start /\ [][Follow]_at
=============================================================================
