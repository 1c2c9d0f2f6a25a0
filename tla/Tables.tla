------------------------------- MODULE Tables -------------------------------
(***************************************************************************)
(* Key-value tables as functions with a finite domain: the column families *)
(* of RocksDB (KVTable) and the keys of a TiKV instance.                    *)
(***************************************************************************)
EXTENDS Integers, SequencesExt

CONSTANT None     \* Option::None

Empty == [k \in {} |-> None]

Put(t, k, v) == (k :> v) @@ t
Drop(t, K) == [k \in DOMAIN t \ K |-> t[k]]
Get(t, k, default) == IF k \in DOMAIN t THEN t[k] ELSE default

\* Most counters are read with unwrap_or_default and written back.
Bump(t, k, n) == Put(t, k, Get(t, k, 0) + n)

\* What readers of a counter can tell apart: an absent key reads as 0.
NonZero(t) == Drop(t, {k \in DOMAIN t : t[k] = 0})
=============================================================================
