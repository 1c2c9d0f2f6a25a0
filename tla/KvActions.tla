------------------------------ MODULE KvActions ------------------------------
(***************************************************************************)
(* Polyphony's storage actions on one key: how two actions are merged, how  *)
(* an action is executed in bulk, and how it is executed at the tip, where  *)
(* the action that reverts it is kept for rollbacks.                        *)
(*                                                                         *)
(* The U64 and the U128 variants of a counter action differ in the width    *)
(* of the value only.  No key is used with both.                            *)
(***************************************************************************)
EXTENDS Naturals

CONSTANTS Absent,      \* the key has no value
          MaxAmount    \* u64::MAX or u128::MAX

ASSUME KvAssumption == MaxAmount \in Nat /\ Absent \notin Nat

Set(v) == [op |-> "set", arg |-> v]
Delete == [op |-> "del", arg |-> Absent]
Insert(v) == [op |-> "ins", arg |-> v]
Increment(d) == [op |-> "inc", arg |-> d]
Decrement(d) == [op |-> "dec", arg |-> d]
DecrementNoDelete(d) == [op |-> "decnd", arg |-> d]

Write(op) == op \in {"set", "del", "ins"}
Lowers(op) == op \in {"dec", "decnd"}
Counts(op) == op = "inc" \/ Lowers(op)

Add(m, n) == (m + n) % (MaxAmount + 1)
Amount(v) == IF v = Absent THEN 0 ELSE v
-----------------------------------------------------------------------------
(* Merging two actions on one key, the earlier one first.                   *)

Panic == [op |-> "panic", arg |-> Absent]

\* (variant) an increment behind a larger decrement is dropped
MergeLosing(a, b) ==
    IF a.op = b.op THEN [op |-> a.op, arg |-> Add(a.arg, b.arg)]
    ELSE IF a.op = "inc" /\ a.arg >= b.arg THEN Increment(a.arg - b.arg)
    ELSE IF a.op = "inc" THEN [op |-> b.op, arg |-> b.arg - a.arg]
    ELSE a

MergeCounts(a, b) ==
    IF a.op = b.op THEN [op |-> a.op, arg |-> Add(a.arg, b.arg)]
    ELSE IF a.op = "inc"
         THEN IF a.arg >= b.arg THEN Increment(a.arg - b.arg)
              ELSE [op |-> b.op, arg |-> b.arg - a.arg]
    ELSE IF b.op = "inc"
         THEN IF a.arg >= b.arg THEN [op |-> a.op, arg |-> a.arg - b.arg]
              ELSE Increment(b.arg - a.arg)
    ELSE Panic

MergeWrites(a, b) ==
    IF b.op # "ins" THEN b
    ELSE IF a.op = "del" THEN Set(b.arg)
    ELSE a

Merge(a, b) ==
    IF Counts(a.op) /\ Counts(b.op) THEN MergeCounts(a, b)
    ELSE IF Write(a.op) /\ Write(b.op) THEN MergeWrites(a, b)
    ELSE Panic
-----------------------------------------------------------------------------
(* Executing an action where the key has the value v.                       *)

\* A decrement below the value deletes the key, or leaves it at zero.
Lowered(a, v) ==
    IF v = Absent THEN Absent
    ELSE IF v > a.arg THEN v - a.arg
    ELSE IF a.op = "decnd" THEN 0 ELSE Absent

Raised(a, v) == IF v = Absent THEN a.arg ELSE Add(v, a.arg)

Written(a, v) ==
    IF a.op = "set" THEN a.arg
    ELSE IF a.op = "del" THEN Absent
    ELSE IF v = Absent THEN a.arg ELSE v

\* execute_storage_op_in_txn: changing a counter by zero does nothing.
Execute(a, v) ==
    IF Write(a.op) THEN Written(a, v)
    ELSE IF a.arg = 0 THEN v
    ELSE IF a.op = "inc" THEN Raised(a, v) ELSE Lowered(a, v)

\* execute_storage_op_in_txn_with_inverse: the value it leaves ...
ExecuteLive(a, v) ==
    IF Write(a.op) THEN Written(a, v)
    ELSE IF a.op = "inc" THEN Raised(a, v) ELSE Lowered(a, v)

\* ... whether it changes nothing, so that there is nothing to revert ...
NoInverse(a, v) ==
    \/ a.op = "set" /\ v = a.arg
    \/ a.op = "ins" /\ v # Absent
    \/ (a.op = "del" \/ Lowers(a.op)) /\ v = Absent

\* ... and otherwise the action that reverts it.
InverseOf(a, v) == IF v = Absent THEN Delete ELSE Set(v)
-----------------------------------------------------------------------------
(* apply_actions: an action on each of some keys of an instance t, a table of *)
(* the keys that have a value.                                             *)

Value(t, k) == IF k \in DOMAIN t THEN t[k] ELSE Absent
Present(t) == [k \in {x \in DOMAIN t : t[x] # Absent} |-> t[k]]

ApplyActions(t, actions) ==
    Present([k \in DOMAIN t \cup DOMAIN actions |->
        IF k \in DOMAIN actions THEN Execute(actions[k], Value(t, k)) ELSE t[k]])

ApplyLive(t, actions) ==
    Present([k \in DOMAIN t \cup DOMAIN actions |->
        IF k \in DOMAIN actions THEN ExecuteLive(actions[k], Value(t, k)) ELSE t[k]])

InverseActions(t, actions) ==
    [k \in {x \in DOMAIN actions : ~NoInverse(actions[x], Value(t, x))} |->
        InverseOf(actions[k], Value(t, k))]
=============================================================================
