----------------------------- MODULE MCSafePoint -----------------------------
(* Two instances; two timestamps share a physical millisecond.             *)
EXTENDS SafePoint, TLC
Symmetry == Permutations(Inst)
MCPhys == [t \in Time |-> t \div 2]
=============================================================================
