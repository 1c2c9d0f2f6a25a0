----------------------------- MODULE TikvProofs -----------------------------
(***************************************************************************)
(* TLAPS proofs about what an instance asks of TiKV.  The actions: what      *)
(* undoes a block restores the instance, and merged actions do what their parts *)
(* do, for every action and every value.  The garbage collection: for any    *)
(* number of instances and any clock, safe zone and deadlines that fit in    *)
(* it, a tikv-gc run never takes from an instance its most recent readable   *)
(* entry, nor from a request a snapshot within the safe zone.                *)
(***************************************************************************)
EXTENDS KvActions, SafePoint, TLAPS

Values(V) == V \cup {Absent}
WriteActions(V) ==
    {Delete} \cup {Set(v) : v \in V} \cup {Insert(v) : v \in V}
CountActions == [op : {"inc", "dec", "decnd"}, arg : 0..MaxAmount]

\* An action without an inverse leaves the key as it is.
THEOREM NothingToRevert ==
    ASSUME NEW a, NEW v, a.op \in {"set", "del", "ins", "inc", "dec", "decnd"},
           NoInverse(a, v)
    PROVE  ExecuteLive(a, v) = v
  BY DEF ExecuteLive, NoInverse, Write, Written, Lowered, Lowers

\* An inverse gives its key the value the action found there, whatever is there now.
LEMMA InverseRestores ==
    ASSUME NEW a, NEW v, NEW w
    PROVE  Execute(InverseOf(a, v), w) = v
  BY DEF Execute, InverseOf, Write, Written, Set, Delete

\* A table of present values, as TiKV holds one.
IsTable(t) == t = [k \in DOMAIN t |-> t[k]] /\ \A k \in DOMAIN t : t[k] # Absent

\* Two tables with the same value at every key are the same table.
LEMMA SameTable ==
    ASSUME NEW s, NEW t, IsTable(s), IsTable(t), \A k : Value(s, k) = Value(t, k)
    PROVE  s = t
<1>1. \A k : k \in DOMAIN s <=> k \in DOMAIN t
  BY DEF IsTable, Value
<1>2. DOMAIN s = DOMAIN t
  BY <1>1
<1>3. \A k \in DOMAIN s : s[k] = t[k]
  BY <1>2 DEF Value
<1> QED
  BY <1>2, <1>3 DEF IsTable

\* Dropping the absent values of a function leaves a table with the same values.
LEMMA PresentTable ==
    ASSUME NEW f
    PROVE  IsTable(Present(f)) /\ \A k : Value(Present(f), k) = Value(f, k)
<1> DEFINE D == {x \in DOMAIN f : f[x] # Absent}
<1>1. DOMAIN Present(f) = D /\ \A k \in D : Present(f)[k] = f[k]
  BY DEF Present
<1>2. Present(f) = [k \in DOMAIN Present(f) |-> Present(f)[k]]
  BY DEF Present
<1> QED
  BY <1>1, <1>2 DEF IsTable, Value

\* What actions leave at a key: their own result, and elsewhere what was there.
LEMMA ValueAfter ==
    ASSUME NEW t, NEW acts, NEW k
    PROVE  /\ Value(ApplyActions(t, acts), k) =
                  IF k \in DOMAIN acts THEN Execute(acts[k], Value(t, k)) ELSE Value(t, k)
           /\ Value(ApplyLive(t, acts), k) =
                  IF k \in DOMAIN acts THEN ExecuteLive(acts[k], Value(t, k)) ELSE Value(t, k)
<1>1. \A f : Value(Present(f), k) = Value(f, k)
  BY PresentTable
<1> QED
  BY <1>1 DEF ApplyActions, ApplyLive, Value

\* Rolling a block back restores the instance: executing the inverses that were kept
\* when the block's actions were applied to the table t gives t again.  An action
\* that kept none needs none, and a rollback may be run again on a table r some of
\* whose keys an earlier attempt, or the same one, has already restored.  It holds
\* for any actions, overflowing and underflowing counters included (tikv.rs,
\* execute_storage_op_in_txn_with_inverse, apply_actions and the rollback of execute).
THEOREM UndoRestores ==
    ASSUME NEW t, IsTable(t), NEW acts,
           \A k \in DOMAIN acts :
               acts[k].op \in {"set", "del", "ins", "inc", "dec", "decnd"},
           NEW r, \A k : Value(r, k) \in {Value(t, k), Value(ApplyLive(t, acts), k)}
    PROVE  ApplyActions(r, InverseActions(t, acts)) = t
<1> DEFINE inv == InverseActions(t, acts)
           undone == ApplyActions(r, inv)
<1>1. ASSUME NEW k
      PROVE  Value(undone, k) = Value(t, k)
  <2>1. Value(undone, k) = IF k \in DOMAIN inv THEN Execute(inv[k], Value(r, k))
                           ELSE Value(r, k)
    BY ValueAfter
  <2>2. CASE k \in DOMAIN inv
    <3>1. inv[k] = InverseOf(acts[k], Value(t, k))
      BY <2>2 DEF InverseActions
    <3> QED
      BY <2>1, <2>2, <3>1, InverseRestores
  <2>3. CASE k \in DOMAIN acts /\ k \notin DOMAIN inv
    <3>1. NoInverse(acts[k], Value(t, k))
      BY <2>3 DEF InverseActions
    <3>2. ExecuteLive(acts[k], Value(t, k)) = Value(t, k)
      BY <2>3, <3>1, NothingToRevert
    <3>3. Value(ApplyLive(t, acts), k) = Value(t, k)
      BY <2>3, <3>2, ValueAfter
    <3> QED
      BY <2>1, <2>3, <3>3
  <2>4. CASE k \notin DOMAIN acts
    <3>1. k \notin DOMAIN inv
      BY <2>4 DEF InverseActions
    <3>2. Value(ApplyLive(t, acts), k) = Value(t, k)
      BY <2>4, ValueAfter
    <3> QED
      BY <2>1, <3>1, <3>2
  <2> QED
    BY <2>2, <2>3, <2>4
<1>2. IsTable(undone)
  BY PresentTable DEF ApplyActions
<1> QED
  BY <1>1, <1>2, SameTable

\* Executing the merge of two writes is executing the one and then the other, so
\* that a block, or a batch of blocks, may be applied by one write per key
\* (StorageAction::merge, model.rs).
THEOREM MergedWrites ==
    ASSUME NEW V, Absent \notin V, NEW a \in WriteActions(V), NEW b \in WriteActions(V),
           NEW v \in Values(V)
    PROVE  Execute(Merge(a, b), v) = Execute(b, Execute(a, v))
<1> DEFINE shape(x) == \/ x = Delete
                       \/ \E y \in V : x = Set(y)
                       \/ \E y \in V : x = Insert(y)
<1>1. shape(a) /\ shape(b)
  BY DEF WriteActions
<1>2. Write(a.op) /\ Write(b.op) /\ ~Counts(a.op)
  BY <1>1 DEF Write, Counts, Lowers, Set, Insert, Delete
<1>3. Merge(a, b) = MergeWrites(a, b)
  BY <1>2 DEF Merge
<1>4. CASE b.op # "ins"
  <2>1. Merge(a, b) = b
    BY <1>3, <1>4 DEF MergeWrites
  <2>2. b.op \in {"set", "del"}
    BY <1>2, <1>4 DEF Write
  <2> QED
    BY <1>2, <2>1, <2>2 DEF Execute, Written
<1>5. CASE b.op = "ins"
  <2>1. \E y \in V : b = Insert(y)
    BY <1>1, <1>5 DEF Set, Delete, Insert
  <2>2. CASE a = Delete
    BY <1>3, <1>5, <2>2 DEF MergeWrites, Execute, Written, Write, Set, Delete
  <2>3. CASE \E y \in V : a = Set(y)
    <3>1. PICK y \in V : a = Set(y)
      BY <2>3
    <3>2. Merge(a, b) = a
      BY <1>3, <1>5, <3>1 DEF MergeWrites, Set
    <3>3. Execute(a, v) = y /\ y # Absent
      BY <3>1 DEF Execute, Write, Written, Set
    <3> QED
      BY <1>5, <3>2, <3>3 DEF Execute, Write, Written
  <2>4. CASE \E y \in V : a = Insert(y)
    <3>1. PICK y \in V : a = Insert(y)
      BY <2>4
    <3>2. Merge(a, b) = a
      BY <1>3, <1>5, <3>1 DEF MergeWrites, Insert
    <3>3. Execute(a, v) # Absent
      BY <3>1 DEF Execute, Write, Written, Insert
    <3> QED
      BY <1>5, <3>2, <3>3 DEF Execute, Write, Written
  <2> QED
    BY <1>1, <2>2, <2>3, <2>4
<1> QED
  BY <1>4, <1>5

\* The amount a reader finds, an absent counter read as zero, is the same after the
\* merge of two counter actions as after the one and then the other, as long as no
\* decrement exceeds the amount and no sum the width: the actions of a block on a
\* balance may be netted (StorageAction::merge, model.rs).
THEOREM MergedCounts ==
    ASSUME NEW a \in CountActions, NEW b \in CountActions,
           NEW v \in Values(0..MaxAmount),
           a.op = "inc" \/ b.op = "inc" \/ a.op = b.op,
           Lowers(a.op) => a.arg <= Amount(v),
           Lowers(b.op) => b.arg <= Amount(Execute(a, v)),
           Amount(v) + a.arg + b.arg <= MaxAmount
    PROVE  Amount(Execute(Merge(a, b), v)) = Amount(Execute(b, Execute(a, v)))
<1> USE KvAssumption
<1>1. /\ a.arg \in Nat /\ b.arg \in Nat /\ Amount(v) \in Nat
      /\ a.op \in {"inc", "dec", "decnd"} /\ b.op \in {"inc", "dec", "decnd"}
  BY DEF CountActions, Values, Amount
<1> DEFINE after(op, n, d) == IF op = "inc" THEN n + d ELSE n - d
<1>2. ASSUME NEW x \in [op : {"inc", "dec", "decnd"}, arg : Nat],
             NEW w \in Values(0..MaxAmount),
             Amount(w) + x.arg <= MaxAmount \/ Lowers(x.op),
             Lowers(x.op) => x.arg <= Amount(w)
      PROVE  /\ Execute(x, w) \in Values(0..MaxAmount)
             /\ Amount(Execute(x, w)) = after(x.op, Amount(w), x.arg)
  <2>1. x.arg \in Nat /\ Amount(w) \in Nat /\ ~Write(x.op) /\ x.op \in {"inc", "dec", "decnd"}
    BY <1>2 DEF Write, Values, Amount
  <2>2. CASE x.arg = 0
    BY <2>1, <2>2 DEF Execute
  <2>3. CASE x.arg # 0 /\ x.op = "inc"
    <3>1. Amount(w) + x.arg <= MaxAmount
      BY <1>2, <2>3 DEF Lowers
    <3>2. Add(Amount(w), x.arg) = Amount(w) + x.arg
      BY <2>1, <3>1 DEF Add
    <3>3. Execute(x, w) = Amount(w) + x.arg
      BY <1>2, <2>1, <2>3, <3>2 DEF Execute, Raised, Amount
    <3> QED
      BY <2>1, <2>3, <3>1, <3>3 DEF Values, Amount
  <2>4. CASE x.arg # 0 /\ x.op # "inc"
    <3>1. x.arg <= Amount(w) /\ Lowers(x.op)
      BY <1>2, <2>1, <2>4 DEF Lowers
    <3>2. w # Absent /\ w \in 0..MaxAmount /\ Amount(w) = w
      BY <1>2, <2>1, <2>4, <3>1 DEF Values, Amount
    <3>3. Execute(x, w) = Lowered(x, w)
      BY <2>1, <2>4 DEF Execute
    <3>4. CASE w > x.arg
      BY <2>1, <2>4, <3>2, <3>3, <3>4 DEF Lowered, Values, Amount
    <3>5. CASE w = x.arg
      BY <2>1, <2>4, <3>2, <3>3, <3>5 DEF Lowered, Values, Amount
    <3> QED
      BY <2>1, <3>1, <3>2, <3>4, <3>5
  <2> QED
    BY <2>2, <2>3, <2>4
<1>3. /\ Execute(a, v) \in Values(0..MaxAmount)
      /\ Amount(Execute(a, v)) = after(a.op, Amount(v), a.arg)
  <2>1. a \in [op : {"inc", "dec", "decnd"}, arg : Nat] /\ Amount(v) + a.arg <= MaxAmount
    BY <1>1 DEF CountActions
  <2> QED
    BY <1>2, <2>1
<1>4. Amount(Execute(b, Execute(a, v))) = after(b.op, after(a.op, Amount(v), a.arg), b.arg)
  <2>1. b \in [op : {"inc", "dec", "decnd"}, arg : Nat]
    BY DEF CountActions
  <2>2. Amount(Execute(a, v)) + b.arg <= MaxAmount
    BY <1>1, <1>3
  <2> QED
    BY <1>2, <1>3, <2>1, <2>2
<1> DEFINE m == Merge(a, b)
<1>5. Merge(a, b) = MergeCounts(a, b)
  BY <1>1 DEF Merge, Counts, Lowers
<1>6. /\ m \in [op : {"inc", "dec", "decnd"}, arg : Nat]
      /\ Amount(v) + m.arg <= MaxAmount
      /\ after(m.op, Amount(v), m.arg) = after(b.op, after(a.op, Amount(v), a.arg), b.arg)
  <2>1. CASE a.op = b.op
    <3> DEFINE s == a.arg + b.arg
    <3>0. s \in Nat /\ s <= MaxAmount
      BY <1>1
    <3>1. Add(a.arg, b.arg) = a.arg + b.arg
      <4>1. s % (MaxAmount + 1) = s
        <5> HIDE DEF s
        <5> QED
          BY <3>0
      <4> QED
        BY <4>1 DEF Add
    <3>2. m = [op |-> a.op, arg |-> a.arg + b.arg]
      BY <1>5, <2>1, <3>1 DEF MergeCounts
    <3> QED
      BY <1>1, <2>1, <3>2
  <2>2. CASE a.op = "inc" /\ b.op # "inc"
    <3>1. m = IF a.arg >= b.arg THEN [op |-> "inc", arg |-> a.arg - b.arg]
              ELSE [op |-> b.op, arg |-> b.arg - a.arg]
      BY <1>5, <2>2 DEF MergeCounts, Increment
    <3> QED
      BY <1>1, <2>2, <3>1
  <2>3. CASE a.op # "inc" /\ b.op = "inc"
    <3>1. m = IF a.arg >= b.arg THEN [op |-> a.op, arg |-> a.arg - b.arg]
              ELSE [op |-> "inc", arg |-> b.arg - a.arg]
      BY <1>5, <2>3 DEF MergeCounts, Increment
    <3> QED
      BY <1>1, <2>3, <3>1
  <2> QED
    BY <2>1, <2>2, <2>3
<1>7. Lowers(m.op) => m.arg <= Amount(v)
  <2>1. Amount(Execute(b, Execute(a, v))) \in Nat
    <3>1. Lowers(b.op) => after(b.op, after(a.op, Amount(v), a.arg), b.arg) >= 0
      BY <1>1, <1>3 DEF Lowers
    <3> QED
      BY <1>1, <1>3, <1>4, <3>1 DEF Lowers
  <2>2. after(m.op, Amount(v), m.arg) >= 0
    BY <1>4, <1>6, <2>1
  <2> QED
    BY <1>1, <1>6, <2>2 DEF Lowers
<1> HIDE DEF m
<1>8. Amount(Execute(m, v)) = after(m.op, Amount(v), m.arg)
  BY <1>2, <1>6, <1>7
<1> QED
  BY <1>4, <1>6, <1>8 DEF m

\* A reader finds the same amount whether a counter action was executed in bulk or
\* at the tip; the two differ in whether a zero is stored (tikv.rs, the two execute
\* functions).
THEOREM BulkAndLiveAgree ==
    ASSUME NEW a \in CountActions, NEW v \in Values(0..MaxAmount)
    PROVE  Amount(Execute(a, v)) = Amount(ExecuteLive(a, v))
<1> USE KvAssumption
<1>1. a.arg \in 0..MaxAmount /\ ~Write(a.op)
  BY DEF CountActions, Write
<1>2. CASE a.arg = 0 /\ v # Absent
  <2>1. v \in 0..MaxAmount /\ Add(v, 0) = v
    BY <1>2 DEF Values, Add
  <2> QED
    BY <1>1, <1>2, <2>1 DEF Execute, ExecuteLive, Raised, Lowered, Amount
<1>3. CASE a.arg = 0 /\ v = Absent
  BY <1>1, <1>3 DEF Execute, ExecuteLive, Raised, Lowered, Amount
<1>4. CASE a.arg # 0
  BY <1>1, <1>4 DEF Execute, ExecuteLive
<1> QED
  BY <1>2, <1>3, <1>4
-----------------------------------------------------------------------------
(* The safepoint of tikv-gc.                                               *)

\* What is in progress is within its deadline.
Times ==
    /\ \A i \in Inst : pending[i] # None =>
           pending[i].ts <= now /\ now <= pending[i].ts + Deadline
    /\ \A r \in readers : r <= now
    /\ step = "fetch" => started <= now /\ now <= started + Deadline

\* A safepoint leaves the safe zone alone.
Bounded(c) == c = 0 \/ c + Zone <= now + Skew

HasTip(S) == S = {} \/ \E e \in S : IsTip(e, S)

Recent(e) == started <= e.ts + Deadline

\* While a run reads: what it has read is still there, and what it has not seen
\* was published after it started.
FetchInv ==
    step = "fetch" =>
        /\ \A i \in Inst : fetched[i] \subseteq entries[i] /\ HasTip(fetched[i])
        /\ \A i \in Inst : fetched[i] # {} =>
               \A e \in entries[i] \ fetched[i] : Recent(e)
        /\ \A i \in indexed \ todo :
               fetched[i] # {} \/ \E e \in entries[i] : Recent(e)

\* After the choice: every known instance has an entry at or above it, and the
\* chain tips still to be protected from pruning are.
PruneInv ==
    step = "prune" =>
        /\ cand \in Time /\ Bounded(cand)
        /\ \A i \in indexed : \E e \in entries[i] : cand <= e.ts
        /\ \A i \in todo : \A e \in entries[i] : IsTip(e, entries[i]) => cand <= e.ts

Tips == \A i \in Inst : HasTip(entries[i])

IInv ==
    /\ TypeOK /\ Times /\ Tips
    /\ FetchInv /\ PruneInv
    /\ Bounded(safepoint) /\ LatestReadable
-----------------------------------------------------------------------------
\* The fields of an entry are comparable numbers.
LEMMA EntryFields == \A f \in Entry : f.height \in Int /\ f.ts \in Time /\ f.ts \in Int
<1>1. Heights \subseteq Int /\ MaxTime \in Nat
  BY SafePointAssumption
<1>2. \A f \in Entry : f.height \in Heights /\ f.ts \in Time
  BY DEF Entry
<1>3. \A t \in Time : t \in Int
  BY <1>1 DEF Time
<1> QED BY <1>1, <1>2, <1>3, Zenon

\* Adding an entry to a set with a chain tip leaves a set with a chain tip:
\* get_instance_chaintips never finds a non-empty set without one.
LEMMA TipAfterAdd ==
    ASSUME NEW S \in SUBSET Entry, NEW x \in Entry, HasTip(S)
    PROVE  HasTip(S \cup {x})
<1>1. \A f \in Entry : f.height \in Int /\ f.ts \in Int
  BY EntryFields
<1>2. CASE S = {}
  BY <1>1, <1>2 DEF HasTip, IsTip
<1>3. CASE S # {}
  <2>1. PICK e \in S : IsTip(e, S)
    BY <1>3 DEF HasTip
  <2>2. \A f \in S : f.height \in Int /\ f.ts \in Int
    BY <1>1
  <2>3. x.height \in Int /\ x.ts \in Int
    BY <1>1
  <2>4. CASE x.height < e.height \/ (x.height = e.height /\ x.ts <= e.ts)
    BY <2>1, <2>4 DEF HasTip, IsTip
  <2>5. CASE ~(x.height < e.height \/ (x.height = e.height /\ x.ts <= e.ts))
    <3>1. IsTip(x, S \cup {x})
      BY <2>1, <2>2, <2>3, <2>5 DEF IsTip
    <3> QED BY <3>1 DEF HasTip, IsTip
  <2> QED BY <2>4, <2>5
<1> QED BY <1>2, <1>3

\* A chain tip of a larger set is one of every smaller set that has it.
LEMMA TipOfSubset ==
    ASSUME NEW S, NEW T \in SUBSET S, NEW e \in T, IsTip(e, S)
    PROVE  IsTip(e, T)
BY DEF IsTip

\* zrembyscore compares milliseconds, so what it removes is strictly older than
\* the safepoint.
LEMMA StaleIsOlder ==
    ASSUME NEW e \in Entry, NEW c \in Time, c <= e.ts
    PROVE  ~Stale(e, c)
<1>1. e.ts \in Time
  BY DEF Entry
<1>2. Phys[c] <= Phys[e.ts] /\ Phys[c] \in Nat /\ Phys[e.ts] \in Nat
  BY <1>1, SafePointAssumption
<1> QED BY <1>2 DEF Stale

\* The initial state satisfies the invariant.
THEOREM InitIInv == Init => IInv
<1> SUFFICES ASSUME Init PROVE IInv
  OBVIOUS
<1> USE SafePointAssumption DEF Init, Time
<1>1. TypeOK
  BY DEF TypeOK
<1>2. Times
  BY DEF Times
<1>3. Tips
  BY DEF Tips, HasTip
<1>4. FetchInv /\ PruneInv
  BY DEF FetchInv, PruneInv
<1>5. Bounded(safepoint) /\ LatestReadable
  BY DEF Bounded, LatestReadable
<1> QED BY <1>1, <1>2, <1>3, <1>4, <1>5 DEF IInv
\* What the constants and the type invariant say of the numbers.
LEMMA Numbers ==
    ASSUME TypeOK
    PROVE  /\ MaxTime \in Int /\ Zone \in Int /\ Skew \in Int /\ Deadline \in Int
           /\ 0 <= Skew /\ 0 <= Deadline /\ 0 <= Zone
           /\ Deadline + Deadline + Skew <= Zone
           /\ Time \subseteq Int /\ \A t \in Time : 0 <= t
           /\ now \in Int /\ safepoint \in Int /\ started \in Int
           /\ 0 <= now /\ 0 <= safepoint /\ 0 \in Time /\ Zone <= now
<1>1. MaxTime \in Nat /\ Zone \in Nat /\ Skew \in Nat /\ Deadline \in Nat
      /\ Deadline + Deadline + Skew <= Zone
  BY SafePointAssumption DEF Time
<1>2. Time \subseteq Int /\ (\A t \in Time : 0 <= t) /\ 0 \in Time
  BY <1>1 DEF Time
<1>3. now \in Time /\ safepoint \in Time /\ started \in Time /\ Zone <= now
  BY DEF TypeOK
<1> QED BY <1>1, <1>2, <1>3

\* What the safe zone allows it allows at every later time.
LEMMA ZoneMoves ==
    ASSUME NEW c \in Int, NEW z \in Int, NEW k \in Int, NEW m \in Int, NEW n \in Int,
           c = 0 \/ c + z <= m + k, m <= n
    PROVE  c = 0 \/ c + z <= n + k
OBVIOUS

\* The safe zone covers the skew of the clock.
LEMMA SkewFits ==
    ASSUME NEW z \in Int, NEW k \in Int, NEW d \in Int, 0 <= d, d + d + k <= z
    PROVE  k <= z
OBVIOUS

\* The safe zone covers two deadlines and the skew of the clock.
LEMMA ZoneCovers ==
    ASSUME NEW c \in Int, NEW z \in Int, NEW k \in Int, NEW d \in Int,
           NEW n \in Int, NEW b \in Int, NEW x \in Int,
           d + d + k <= z, c + z <= n + k, n <= b + d, b <= x + d
    PROVE  c <= x
OBVIOUS

\* Steps that leave the Redis entries, the run and the safepoint alone keep what
\* the invariant says of them, if the clock does not go back.
LEMMA ClockStep ==
    ASSUME IInv, TypeOK', now <= now',
           UNCHANGED <<entries, indexed, gcVars, safepoint>>
    PROVE  Tips' /\ FetchInv' /\ PruneInv' /\ Bounded(safepoint)' /\ LatestReadable'
<1> USE DEF gcVars
<1>1. Tips'
  BY DEF IInv, Tips, HasTip, IsTip
<1>2. FetchInv'
  BY DEF IInv, FetchInv, HasTip, IsTip, Recent
<1>3. Bounded(safepoint)'
  <2>1. now \in Int /\ now' \in Int /\ Zone \in Int /\ Skew \in Int /\ safepoint \in Int
    <3>1. now' \in Time
      BY DEF TypeOK
    <3> QED BY <3>1, Numbers DEF IInv
  <2>2. safepoint = 0 \/ safepoint + Zone <= now + Skew
    BY DEF IInv, Bounded
  <2>3. safepoint = 0 \/ safepoint + Zone <= now' + Skew
    BY <2>1, <2>2, ZoneMoves, Zenon
  <2> QED BY <2>3 DEF Bounded
<1>4. PruneInv'
  <2> SUFFICES ASSUME step = "prune" PROVE PruneInv'
    BY DEF PruneInv
  <2>1. now' \in Time /\ cand \in Time
    BY DEF TypeOK, IInv, PruneInv
  <2>2. now \in Int /\ now' \in Int /\ Zone \in Int /\ Skew \in Int /\ cand \in Int
    BY <2>1, Numbers DEF IInv
  <2>3. Bounded(cand)'
    <3>1. cand = 0 \/ cand + Zone <= now + Skew
      BY DEF IInv, PruneInv, Bounded
    <3>2. cand = 0 \/ cand + Zone <= now' + Skew
      BY <2>2, <3>1, ZoneMoves, Zenon
    <3> QED BY <3>2 DEF Bounded
  <2> QED BY <2>3 DEF IInv, PruneInv, IsTip
<1>5. LatestReadable'
  BY DEF IInv, LatestReadable
<1> QED BY <1>1, <1>2, <1>3, <1>4, <1>5

\* The passing of time, a commit, a lost entry and the reads of the API.
LEMMA ClusterIInv ==
    ASSUME IInv,
           \/ Tick \/ BeginRead \/ \E r \in readers : EndRead(r)
           \/ \E i \in Inst : (\E h \in Heights : Commit(i, h)) \/ Lose(i)
    PROVE  IInv'
<1> USE DEF gcVars
<1>0. TypeOK /\ Times
  BY DEF IInv
<1>n. now \in Int /\ started \in Int /\ Deadline \in Int /\ 0 <= Deadline
      /\ MaxTime \in Int /\ readers \subseteq Int /\ 0 <= now
  BY <1>0, Numbers DEF TypeOK
<1>p. \A i \in Inst : pending[i] # None => pending[i] \in Entry /\ pending[i].ts \in Int
  BY <1>0, EntryFields DEF TypeOK
<1>1. CASE Tick
  <2>1. now' \in Time /\ now' = now + 1
    BY <1>1, <1>n, <1>0 DEF Tick, Advance, Time
  <2>2. TypeOK'
    <3>1. Zone <= now' /\ safepoint <= now'
      BY <1>0, <2>1, Numbers DEF TypeOK
    <3> QED BY <1>1, <2>1, <1>0, <3>1 DEF Tick, TypeOK
  <2>3. Times'
    <3>1. \A i \in Inst : pending[i] # None =>
              pending[i].ts <= now + 1 /\ now + 1 <= pending[i].ts + Deadline
      BY <1>1, <1>0, <1>n, <1>p DEF Tick, Advance, Times
    <3>2. \A r \in readers : r <= now + 1
      BY <1>1, <1>0, <1>n DEF Tick, Advance, Times
    <3>3. step = "fetch" => started <= now + 1 /\ now + 1 <= started + Deadline
      BY <1>1, <1>0, <1>n DEF Tick, Advance, Times
    <3> QED BY <1>1, <2>1, <3>1, <3>2, <3>3 DEF Tick, Times
  <2>4. Tips' /\ FetchInv' /\ PruneInv' /\ Bounded(safepoint)' /\ LatestReadable'
    BY <1>1, <1>n, <2>1, <2>2, ClockStep DEF Tick
  <2> QED BY <2>2, <2>3, <2>4 DEF IInv
<1>2. CASE BeginRead
  <2>1. TypeOK'
    BY <1>2, <1>0 DEF BeginRead, TypeOK
  <2>2. Times'
    BY <1>2, <1>0, <1>n DEF BeginRead, Times
  <2>3. Tips' /\ FetchInv' /\ PruneInv' /\ Bounded(safepoint)' /\ LatestReadable'
    BY <1>2, <1>n, <2>1, ClockStep DEF BeginRead
  <2> QED BY <2>1, <2>2, <2>3 DEF IInv
<1>3. CASE \E r \in readers : EndRead(r)
  <2>1. TypeOK'
    BY <1>3, <1>0 DEF EndRead, TypeOK
  <2>2. Times'
    BY <1>3, <1>0, <1>n DEF EndRead, Times
  <2>3. Tips' /\ FetchInv' /\ PruneInv' /\ Bounded(safepoint)' /\ LatestReadable'
    BY <1>3, <1>n, <2>1, ClockStep DEF EndRead
  <2> QED BY <2>1, <2>2, <2>3 DEF IInv
<1>4. ASSUME NEW i \in Inst, NEW h \in Heights, Commit(i, h) PROVE IInv'
  <2>1. now' \in Time /\ now' = now + 1
    BY <1>4, <1>n, <1>0 DEF Commit, Advance, Time
  <2>2. [height |-> h, ts |-> now + 1] \in Entry
    BY <2>1 DEF Entry
  <2>3. TypeOK'
    <3>1. Zone <= now' /\ safepoint <= now'
      BY <1>0, <2>1, Numbers DEF TypeOK
    <3> QED BY <1>4, <2>1, <2>2, <1>0, <3>1 DEF Commit, TypeOK
  <2>4. Times'
    <3>1. pending \in [Inst -> Entry \cup {None}]
      BY <1>0 DEF TypeOK
    <3>2. \A j \in Inst : pending'[j] = IF j = i THEN [height |-> h, ts |-> now + 1]
                                                 ELSE pending[j]
      BY <1>4, <3>1 DEF Commit
    <3>3. \A j \in Inst : pending'[j] # None =>
              pending'[j].ts <= now' /\ now' <= pending'[j].ts + Deadline
      BY <1>4, <1>0, <1>n, <1>p, <2>1, <3>2 DEF Commit, Advance, Times
    <3> QED BY <1>4, <1>0, <1>n, <2>1, <3>3 DEF Commit, Advance, Times
  <2>5. Tips' /\ FetchInv' /\ PruneInv' /\ Bounded(safepoint)' /\ LatestReadable'
    BY <1>4, <1>n, <2>1, <2>3, ClockStep DEF Commit
  <2> QED BY <2>3, <2>4, <2>5 DEF IInv
<1>5. ASSUME NEW i \in Inst, Lose(i) PROVE IInv'
  <2>1. TypeOK'
    BY <1>5, <1>0 DEF Lose, TypeOK
  <2>2. Times'
    BY <1>5, <1>0 DEF Lose, Times, TypeOK
  <2>3. Tips' /\ FetchInv' /\ PruneInv' /\ Bounded(safepoint)' /\ LatestReadable'
    BY <1>5, <1>n, <2>1, ClockStep DEF Lose
  <2> QED BY <2>1, <2>2, <2>3 DEF IInv
<1> QED BY <1>1, <1>2, <1>3, <1>4, <1>5
\* A published entry is recent: a run that has already read the instance's
\* entries started less than Deadline after it, and one that has already chosen
\* its safepoint chose one below it.
LEMMA PublishIInv ==
    ASSUME IInv, NEW i \in Inst, Publish(i)
    PROVE  IInv'
<1> DEFINE e == pending[i]
<1>0. TypeOK /\ Times /\ Tips /\ FetchInv /\ PruneInv /\ Bounded(safepoint) /\ LatestReadable
  BY DEF IInv
<1>1. e \in Entry /\ e.ts \in Int /\ e.ts <= now /\ now <= e.ts + Deadline
  <2>1. pending[i] # None /\ pending[i] \in Entry \cup {None}
    BY <1>0 DEF Publish, TypeOK
  <2> QED BY <2>1, <1>0, EntryFields DEF Times
<1>2. /\ \A j \in Inst : entries'[j] = IF j = i THEN entries[i] \cup {e} ELSE entries[j]
      /\ UNCHANGED <<now, pending, indexed, readers, step, started, todo, fetched, cand, safepoint>>
  BY <1>0 DEF Publish, TypeOK, gcVars
<1>n. /\ Zone \in Int /\ Skew \in Int /\ Deadline \in Int /\ 0 <= Skew /\ 0 <= Deadline
      /\ Deadline + Deadline + Skew <= Zone /\ Time \subseteq Int /\ (\A t \in Time : 0 <= t)
      /\ now \in Int /\ safepoint \in Int /\ started \in Int
  BY <1>0, Numbers
<1>3. TypeOK'
  BY <1>0, <1>1 DEF Publish, TypeOK, gcVars
<1>4. Times'
  BY <1>0, <1>2 DEF Times
<1>5. Tips'
  <2>1. entries[i] \in SUBSET Entry /\ HasTip(entries[i])
    BY <1>0 DEF TypeOK, Tips
  <2>2. HasTip(entries[i] \cup {e})
    BY <1>1, <2>1, TipAfterAdd, Zenon
  <2> QED BY <1>0, <1>2, <2>2 DEF Tips, HasTip, IsTip
<1>6. FetchInv'
  <2> SUFFICES ASSUME step = "fetch" PROVE FetchInv'
    BY <1>2 DEF FetchInv
  <2>1. started <= e.ts + Deadline
    BY <1>0, <1>1, <1>n DEF Times
  <2>2. \A j \in Inst : fetched[j] \subseteq entries'[j] /\ HasTip(fetched[j])
    BY <1>0, <1>2 DEF FetchInv
  <2>3. \A j \in Inst : fetched[j] # {} =>
            \A f \in entries'[j] \ fetched[j] : started <= f.ts + Deadline
    BY <1>0, <1>2, <2>1 DEF FetchInv, Recent
  <2>4. \A j \in indexed \ todo :
            fetched[j] # {} \/ \E f \in entries'[j] : started <= f.ts + Deadline
    BY <1>0, <1>2 DEF FetchInv, Recent, TypeOK
  <2> QED BY <1>2, <2>2, <2>3, <2>4 DEF FetchInv, Recent, HasTip, IsTip
<1>7. PruneInv'
  <2> SUFFICES ASSUME step = "prune" PROVE PruneInv'
    BY <1>2 DEF PruneInv
  <2>1. cand \in Int /\ (cand = 0 \/ cand + Zone <= now + Skew)
    BY <1>0, <1>n, Zenon DEF PruneInv, Bounded
  <2>2. cand <= e.ts
    <3>1. 0 <= e.ts
      BY <1>1, <1>n, EntryFields
    <3> QED BY <1>1, <1>n, <2>1, <3>1
  <2>3. \A j \in indexed : \E f \in entries'[j] : cand <= f.ts
    BY <1>0, <1>2 DEF PruneInv, TypeOK
  <2>4. ASSUME NEW j \in todo, NEW f \in entries'[j], IsTip(f, entries'[j]) PROVE cand <= f.ts
    <3>1. j \in Inst
      BY <1>0 DEF TypeOK
    <3>2. CASE f = e
      BY <2>2, <3>2, Zenon
    <3>3. CASE f # e
      <4>1. f \in entries[j] /\ entries[j] \subseteq entries'[j]
        BY <1>2, <2>4, <3>1, <3>3
      <4>2. IsTip(f, entries[j])
        BY <2>4, <4>1, TipOfSubset
      <4> QED BY <1>0, <4>1, <4>2 DEF PruneInv
    <3> QED BY <3>2, <3>3
  <2>5. cand' \in Time /\ Bounded(cand)'
    BY <1>0, <1>2 DEF PruneInv, Bounded
  <2> QED BY <1>2, <2>3, <2>4, <2>5 DEF PruneInv
<1>8. Bounded(safepoint)'
  BY <1>0, <1>2 DEF Bounded
<1>9. LatestReadable'
  BY <1>0, <1>2 DEF LatestReadable, TypeOK
<1> QED BY <1>3, <1>4, <1>5, <1>6, <1>7, <1>8, <1>9 DEF IInv

\* A newly indexed instance has a recent entry.
LEMMA IndexIInv ==
    ASSUME IInv, NEW i \in Inst, Index(i)
    PROVE  IInv'
<1> DEFINE e == pending[i]
<1>0. TypeOK /\ Times /\ Tips /\ FetchInv /\ PruneInv /\ Bounded(safepoint) /\ LatestReadable
  BY DEF IInv
<1>1. e \in entries[i] /\ e.ts \in Int /\ e.ts \in Time /\ e.ts <= now /\ now <= e.ts + Deadline
  <2>1. pending[i] # None /\ pending[i] \in Entry \cup {None}
    BY <1>0 DEF Index, TypeOK
  <2> QED BY <2>1, <1>0, EntryFields DEF Times, Index
<1>2. /\ indexed' = indexed \cup {i}
      /\ UNCHANGED <<now, entries, readers, step, started, todo, fetched, cand, safepoint>>
  BY DEF Index, gcVars
<1>n. /\ Zone \in Int /\ Skew \in Int /\ Deadline \in Int /\ 0 <= Skew /\ 0 <= Deadline
      /\ Deadline + Deadline + Skew <= Zone /\ Time \subseteq Int /\ (\A t \in Time : 0 <= t)
      /\ now \in Int /\ safepoint \in Int /\ started \in Int
  BY <1>0, Numbers
<1>b. \A c \in Int : c = 0 \/ c + Zone <= now + Skew => c <= e.ts
  BY <1>1, <1>n
<1>3. TypeOK'
  BY <1>0, Zenon DEF Index, TypeOK, gcVars
<1>4. Times'
  BY <1>0, <1>2 DEF Times, Index, TypeOK
<1>5. Tips'
  BY <1>0, <1>2, Zenon DEF Tips, HasTip, IsTip
<1>6. FetchInv'
  <2> SUFFICES ASSUME step = "fetch" PROVE FetchInv'
    BY <1>2, Zenon DEF FetchInv
  <2>1. started <= e.ts + Deadline
    BY <1>0, <1>1, <1>n DEF Times
  <2> QED BY <1>0, <1>1, <1>2, <2>1, Zenon DEF FetchInv, Recent, HasTip, IsTip
<1>7. PruneInv'
  <2> SUFFICES ASSUME step = "prune" PROVE PruneInv'
    BY <1>2, Zenon DEF PruneInv
  <2>1. cand \in Int /\ cand <= e.ts
    BY <1>0, <1>b, <1>n, Zenon DEF PruneInv, Bounded
  <2> QED BY <1>0, <1>1, <1>2, <2>1, Zenon DEF PruneInv, Bounded, IsTip
<1>8. Bounded(safepoint)'
  BY <1>0, <1>2 DEF Bounded
<1>9. LatestReadable'
  <2>1. safepoint <= e.ts
    BY <1>0, <1>b, <1>n DEF Bounded
  <2> QED BY <1>0, <1>1, <1>2, <2>1 DEF LatestReadable
<1> QED BY <1>3, <1>4, <1>5, <1>6, <1>7, <1>8, <1>9 DEF IInv
\* The reading half of a run: the index, then the entries of one instance.
LEMMA ReadIInv ==
    ASSUME IInv, FetchKeys \/ \E i \in Inst : Fetch(i)
    PROVE  IInv'
<1>0. TypeOK /\ Times /\ Tips /\ FetchInv /\ PruneInv /\ Bounded(safepoint) /\ LatestReadable
  BY DEF IInv
<1>n. /\ Zone \in Int /\ Skew \in Int /\ Deadline \in Int /\ 0 <= Skew /\ 0 <= Deadline
      /\ Deadline + Deadline + Skew <= Zone /\ Time \subseteq Int /\ (\A t \in Time : 0 <= t)
      /\ now \in Int /\ safepoint \in Int /\ started \in Int
  BY <1>0, Numbers
<1>1. UNCHANGED <<now, pending, entries, indexed, readers, safepoint>>
  BY DEF FetchKeys, Fetch, clusterVars
<1>2. Tips' /\ Bounded(safepoint)' /\ LatestReadable'
  BY <1>0, <1>1 DEF Tips, HasTip, IsTip, Bounded, LatestReadable
<1>3. step' = "fetch" /\ PruneInv'
  BY DEF FetchKeys, Fetch, PruneInv
<1>4. CASE FetchKeys
  <2>1. TypeOK'
    BY <1>0, <1>1, <1>4, Zenon DEF FetchKeys, TypeOK
  <2>2. Times'
    BY <1>0, <1>1, <1>4, <1>n DEF FetchKeys, Times
  <2>3. FetchInv'
    BY <1>1, <1>4 DEF FetchKeys, FetchInv, HasTip
  <2> QED BY <1>2, <1>3, <2>1, <2>2, <2>3, Zenon DEF IInv
<1>5. ASSUME NEW i \in Inst, Fetch(i) PROVE IInv'
  <2>1. TypeOK'
    BY <1>0, <1>1, <1>5, Zenon DEF Fetch, TypeOK
  <2>2. Times'
    BY <1>0, <1>1, <1>5, Zenon DEF Fetch, Times
  <2>3. FetchInv'
    <3>1. /\ \A j \in Inst : fetched'[j] = IF j = i THEN entries[i] ELSE fetched[j]
          /\ todo' = todo \ {i} /\ started' = started /\ step = "fetch"
      BY <1>0, <1>5, Zenon DEF Fetch, TypeOK
    <3>2. \A j \in Inst : fetched'[j] \subseteq entries[j] /\ HasTip(fetched'[j])
      BY <1>0, <3>1, Zenon DEF FetchInv, Tips
    <3>3. \A j \in Inst : fetched'[j] # {} =>
              \A e \in entries[j] \ fetched'[j] : started <= e.ts + Deadline
      BY <1>0, <3>1, Zenon DEF FetchInv, Recent
    <3>4. \A j \in indexed \ todo' :
              fetched'[j] # {} \/ \E e \in entries[j] : started <= e.ts + Deadline
      <4>1. i \in indexed => entries[i] # {}
        BY <1>0 DEF LatestReadable
      <4> QED BY <1>0, <3>1, <4>1 DEF FetchInv, Recent, TypeOK
    <3> QED BY <1>1, <3>1, <3>2, <3>3, <3>4, Zenon DEF FetchInv, Recent, HasTip, IsTip
  <2> QED BY <1>2, <1>3, <2>1, <2>2, <2>3, Zenon DEF IInv
<1> QED BY <1>4, <1>5

\* The choice: the earliest chain tip protects what the run has read, the safe
\* zone what was published since it started.
LEMMA ChooseIInv ==
    ASSUME IInv, NEW skew \in 0..Skew, Choose(skew)
    PROVE  IInv'
<1> DEFINE z == SafeZone(now + skew)
<1>0. TypeOK /\ Times /\ Tips /\ FetchInv /\ PruneInv /\ Bounded(safepoint) /\ LatestReadable
  BY DEF IInv
<1>n. /\ Zone \in Int /\ Skew \in Int /\ Deadline \in Int /\ 0 <= Skew /\ 0 <= Deadline
      /\ Deadline + Deadline + Skew <= Zone /\ Time \subseteq Int /\ (\A t \in Time : 0 <= t)
      /\ now \in Int /\ safepoint \in Int /\ started \in Int
  BY <1>0, Numbers
<1>1. UNCHANGED <<now, pending, entries, indexed, readers, safepoint, started, fetched>>
      /\ step = "fetch" /\ todo = {} /\ step' = "prune" /\ todo' = {i \in Inst : fetched[i] # {}}
  BY DEF Choose, clusterVars
<1>2. PICK t \in Time : EarliestTip(t) /\ cand' = IF t <= z THEN t ELSE z
  BY DEF Choose
<1>3. z \in Int /\ 0 <= z /\ z + Zone <= now + Skew /\ z <= now
  <2>1. skew \in Int /\ 0 <= skew /\ skew <= Skew
    BY <1>n
  <2>2. Skew <= Zone
    BY <1>n, SkewFits
  <2>3. Zone <= now
    BY <1>0, Numbers
  <2>4. z = now + skew - Zone
    BY <1>n, <2>1 DEF SafeZone
  <2> QED BY <1>n, <2>1, <2>2, <2>3, <2>4
<1>4. cand' \in Int /\ 0 <= cand' /\ cand' <= t /\ cand' <= z /\ t \in Int
      /\ (cand' = 0 \/ cand' + Zone <= now + Skew)
  BY <1>2, <1>3, <1>n
<1>5. cand' \in Time
  <2>1. now \in Time /\ MaxTime \in Int
    BY <1>0, Numbers DEF TypeOK
  <2> QED BY <1>3, <1>4, <1>n, <2>1 DEF Time
<1>6. \A x \in Int : started <= x + Deadline /\ 0 <= x => cand' <= x
  <2>1. now <= started + Deadline
    BY <1>0, <1>1 DEF Times
  <2>2. ASSUME NEW x \in Int, started <= x + Deadline, 0 <= x PROVE cand' <= x
    <3>1. CASE cand' = 0
      BY <2>2, <3>1
    <3>2. CASE cand' + Zone <= now + Skew
      BY <1>4, <1>n, <2>1, <2>2, <3>2, ZoneCovers, Zenon
    <3> QED BY <1>4, <3>1, <3>2
  <2> QED BY <2>2
<1>7. TypeOK'
  BY <1>0, <1>1, <1>5 DEF TypeOK
<1>8. Times' /\ Tips' /\ FetchInv' /\ Bounded(safepoint)' /\ LatestReadable'
  BY <1>0, <1>1, Zenon DEF Times, Tips, HasTip, IsTip, FetchInv, Bounded, LatestReadable
<1>9. PruneInv'
  <2>1. Bounded(cand)'
    BY <1>1, <1>4, Zenon DEF Bounded
  <2>2. \A i \in Inst : \A e \in entries[i] : e.ts \in Int /\ 0 <= e.ts
    BY <1>0, <1>n, EntryFields, Zenon DEF TypeOK
  <2>3. \A i \in Inst : \A e \in fetched[i] : IsTip(e, fetched[i]) => t <= e.ts
    BY <1>2 DEF EarliestTip
  <2>4. ASSUME NEW i \in indexed PROVE \E e \in entries[i] : cand' <= e.ts
    <3>0. i \in Inst
      BY <1>0 DEF TypeOK
    <3>1. CASE fetched[i] # {}
      <4>1. PICK e \in fetched[i] : IsTip(e, fetched[i])
        BY <1>0, <1>1, <3>0, <3>1, Zenon DEF FetchInv, HasTip
      <4>2. e \in entries[i] /\ t <= e.ts
        BY <1>0, <1>1, <2>3, <3>0, <4>1, Zenon DEF FetchInv
      <4> QED BY <1>4, <2>2, <3>0, <4>2
    <3>2. CASE fetched[i] = {}
      <4>1. PICK e \in entries[i] : started <= e.ts + Deadline
        BY <1>0, <1>1, <3>2, Zenon DEF FetchInv, Recent
      <4> QED BY <1>6, <2>2, <3>0, <4>1, Zenon
    <3> QED BY <3>1, <3>2
  <2>5. ASSUME NEW i \in todo', NEW e \in entries[i], IsTip(e, entries[i]) PROVE cand' <= e.ts
    <3>0. i \in Inst /\ fetched[i] # {} /\ fetched[i] \subseteq entries[i]
      BY <1>0, <1>1, Zenon DEF FetchInv
    <3>1. CASE e \in fetched[i]
      <4>1. IsTip(e, fetched[i])
        BY <2>5, <3>0, <3>1, TipOfSubset, Zenon
      <4>2. t <= e.ts
        BY <2>3, <3>0, <3>1, <4>1, Zenon
      <4> QED BY <1>4, <2>2, <3>0, <4>2
    <3>2. CASE e \notin fetched[i]
      <4>1. started <= e.ts + Deadline
        BY <1>0, <1>1, <3>0, <3>2 DEF FetchInv, Recent
      <4> QED BY <1>6, <2>2, <3>0, <4>1, Zenon
    <3> QED BY <3>1, <3>2, Zenon
  <2> QED BY <1>1, <1>5, <2>1, <2>4, <2>5, Zenon DEF PruneInv, IsTip
<1> QED BY <1>7, <1>8, <1>9 DEF IInv
\* Pruning one instance keeps its chain tip and an entry at or above both the
\* chosen safepoint and the one in force.
LEMMA PruneIInv ==
    ASSUME IInv, NEW i \in Inst, Prune(i)
    PROVE  IInv'
<1>0. TypeOK /\ Times /\ Tips /\ FetchInv /\ PruneInv /\ Bounded(safepoint) /\ LatestReadable
  BY DEF IInv
<1>n. /\ Zone \in Int /\ Skew \in Int /\ Deadline \in Int /\ 0 <= Skew /\ 0 <= Deadline
      /\ Deadline + Deadline + Skew <= Zone /\ Time \subseteq Int /\ (\A t \in Time : 0 <= t)
      /\ now \in Int /\ safepoint \in Int /\ started \in Int
  BY <1>0, Numbers
<1>1. /\ step = "prune" /\ i \in todo /\ todo' = todo \ {i}
      /\ UNCHANGED <<step, started, fetched, cand, now, pending, indexed, readers, safepoint>>
      /\ \A j \in Inst : entries'[j] = IF j = i THEN {e \in entries[i] : ~Stale(e, cand)}
                                                ELSE entries[j]
  BY <1>0, Zenon DEF Prune, TypeOK
<1>2. cand \in Time /\ cand \in Int
  BY <1>0, <1>1, <1>n, Zenon DEF PruneInv
<1>3. \A e \in entries[i] : e \in Entry /\ e.ts \in Int
  BY <1>0, EntryFields DEF TypeOK
<1>4. \A e \in entries[i] : cand <= e.ts => e \in entries'[i]
  BY <1>1, <1>2, <1>3, StaleIsOlder, Zenon
<1>5. TypeOK'
  <2>1. entries' \in [Inst -> SUBSET Entry]
    BY <1>0 DEF Prune, TypeOK
  <2> QED BY <1>0, <1>1, <2>1 DEF TypeOK
<1>6. Times' /\ Bounded(safepoint)'
  BY <1>0, <1>1 DEF Times, Bounded
<1>7. Tips'
  <2>1. HasTip(entries'[i])
    <3>1. CASE entries[i] = {}
      BY <1>1, <3>1, Zenon DEF HasTip
    <3>2. CASE entries[i] # {}
      <4>1. PICK e \in entries[i] : IsTip(e, entries[i])
        BY <1>0, <3>2, Zenon DEF Tips, HasTip
      <4>2. cand <= e.ts
        BY <1>0, <1>1, <4>1, Zenon DEF PruneInv
      <4>3. e \in entries'[i] /\ entries'[i] \subseteq entries[i]
        BY <1>1, <1>4, <4>2, Zenon
      <4>4. IsTip(e, entries'[i])
        BY <4>1, <4>3, TipOfSubset, Zenon
      <4> QED BY <4>3, <4>4, Zenon DEF HasTip
    <3> QED BY <3>1, <3>2, Zenon
  <2>2. \A j \in Inst : HasTip(entries'[j])
    BY <1>0, <1>1, <2>1, Zenon DEF Tips
  <2> QED BY <2>2 DEF Tips, HasTip, IsTip
<1>8. FetchInv'
  BY <1>1, Zenon DEF FetchInv
<1>9. PruneInv'
  <2>1. \A j \in indexed : \E e \in entries'[j] : cand <= e.ts
    BY <1>0, <1>1, <1>4, Zenon DEF PruneInv, TypeOK
  <2>2. \A j \in todo' : \A e \in entries'[j] : IsTip(e, entries'[j]) => cand <= e.ts
    BY <1>0, <1>1, Zenon DEF PruneInv, TypeOK
  <2>3. Bounded(cand)'
    BY <1>0, <1>1, Zenon DEF PruneInv, Bounded
  <2> QED BY <1>1, <1>2, <2>1, <2>2, <2>3, Zenon DEF PruneInv, IsTip
<1>10. LatestReadable'
  <2>1. ASSUME i \in indexed PROVE \E e \in entries'[i] : safepoint <= e.ts
    <3>1. CASE safepoint <= cand
      <4>1. PICK e \in entries[i] : cand <= e.ts
        BY <1>0, <1>1, <2>1, Zenon DEF PruneInv
      <4> QED BY <1>2, <1>3, <1>4, <1>n, <3>1, <4>1
    <3>2. CASE cand <= safepoint
      <4>1. PICK e \in entries[i] : safepoint <= e.ts
        BY <1>0, <2>1, Zenon DEF LatestReadable
      <4> QED BY <1>2, <1>3, <1>4, <1>n, <3>2, <4>1
    <3> QED BY <1>2, <1>n, <3>1, <3>2
  <2>2. \A j \in indexed : \E e \in entries'[j] : safepoint <= e.ts
    BY <1>0, <1>1, <2>1, Zenon DEF LatestReadable, TypeOK
  <2> QED BY <1>1, <2>2, Zenon DEF LatestReadable
<1> QED BY <1>5, <1>6, <1>7, <1>8, <1>9, <1>10, Zenon DEF IInv

\* A run ends: having submitted its safepoint, or without one.
LEMMA EndIInv ==
    ASSUME IInv, PanicNoEntries \/ Submit \/ Abort
    PROVE  IInv'
<1>0. TypeOK /\ Times /\ Tips /\ FetchInv /\ PruneInv /\ Bounded(safepoint) /\ LatestReadable
  BY DEF IInv
<1>n. /\ Zone \in Int /\ Skew \in Int /\ Deadline \in Int /\ 0 <= Skew /\ 0 <= Deadline
      /\ Deadline + Deadline + Skew <= Zone /\ Time \subseteq Int /\ (\A t \in Time : 0 <= t)
      /\ now \in Int /\ safepoint \in Int /\ started \in Int
  BY <1>0, Numbers, Zenon
<1>1. UNCHANGED <<now, pending, entries, indexed, readers>>
      /\ step' = "idle" /\ started' = 0 /\ todo' = {} /\ cand' = None
      /\ fetched' = [j \in Inst |-> {}]
  BY DEF PanicNoEntries, Submit, Abort, EndRun, clusterVars
<1>2. Times' /\ Tips' /\ FetchInv' /\ PruneInv'
  BY <1>0, <1>1, Zenon DEF Times, Tips, HasTip, IsTip, FetchInv, PruneInv
<1>3. \/ safepoint' = safepoint
      \/ Submit /\ safepoint' = cand /\ step = "prune"
  BY Zenon DEF PanicNoEntries, Submit, Abort
<1>4. safepoint' \in Time /\ Bounded(safepoint)' /\ LatestReadable'
  BY <1>0, <1>1, <1>3, Zenon DEF TypeOK, Bounded, LatestReadable, PruneInv
<1>5. safepoint' <= now
  <2>1. CASE safepoint' = safepoint
    BY <1>0, <2>1 DEF TypeOK
  <2>2. CASE safepoint' = cand /\ step = "prune"
    <3>1. cand \in Int /\ (cand = 0 \/ cand + Zone <= now + Skew)
      BY <1>0, <1>n, <2>2, Zenon DEF PruneInv, Bounded
    <3>2. Skew <= Zone /\ 0 <= now
      BY <1>0, <1>n, SkewFits, Numbers
    <3> QED BY <1>n, <2>2, <3>1, <3>2
  <2> QED BY <1>3, <2>1, <2>2
<1>6. TypeOK'
  BY <1>0, <1>1, <1>4, <1>5, Numbers, Zenon DEF TypeOK
<1> QED BY <1>2, <1>4, <1>6 DEF IInv
-----------------------------------------------------------------------------
\* Every step of an instance, of a request and of a tikv-gc run keeps the
\* invariant.
THEOREM NextIInv == IInv /\ [Next]_vars => IInv'
<1> SUFFICES ASSUME IInv, [Next]_vars PROVE IInv'
  BY Zenon
<1>1. CASE UNCHANGED vars
  <2>1. UNCHANGED <<now, pending, entries, indexed, readers, step, started, todo, fetched,
                    cand, safepoint>>
    BY <1>1 DEF vars, clusterVars, gcVars
  <2> QED BY <2>1, Zenon DEF IInv, TypeOK, Times, Tips, HasTip, IsTip, FetchInv, Recent, PruneInv,
                      Bounded, LatestReadable
<1>2. CASE Next
  BY <1>2, ClusterIInv, PublishIInv, IndexIInv, ReadIInv, ChooseIInv, PruneIInv, EndIInv DEF Next
<1> QED BY <1>1, <1>2

\* A safepoint above a snapshot is not the initial one, so the safe zone lies above
\* it; and every indexed instance has an entry at or above the safepoint.
LEMMA ZoneCoversReaders == IInv => ReadersSafe
<1> SUFFICES ASSUME IInv, NEW r \in readers, r < safepoint
             PROVE  /\ r + Zone < now + Skew
                    /\ \A i \in indexed : \E e \in entries[i] : r < e.ts
  BY DEF ReadersSafe
<1>0. TypeOK /\ Bounded(safepoint) /\ LatestReadable
  BY Zenon DEF IInv
<1>n. /\ Zone \in Int /\ Skew \in Int /\ now \in Int /\ safepoint \in Int
      /\ Time \subseteq Int /\ (\A t \in Time : 0 <= t)
  BY <1>0, Numbers
<1>1. r \in Int /\ 0 <= r
  BY <1>0, <1>n DEF TypeOK
<1>2. safepoint + Zone <= now + Skew
  BY <1>0, <1>1, <1>n DEF Bounded
<1>3. r + Zone < now + Skew
  BY <1>1, <1>2, <1>n
<1>4. ASSUME NEW i \in indexed PROVE \E e \in entries[i] : r < e.ts
  <2>1. PICK e \in entries[i] : safepoint <= e.ts
    BY <1>0 DEF LatestReadable
  <2>2. e \in Entry
    BY <1>0 DEF TypeOK
  <2>3. e.ts \in Int
    BY <2>2, EntryFields
  <2> QED BY <1>1, <1>n, <2>1, <2>3
<1> QED BY <1>3, <1>4

\* The types, and the safepoint never ahead of the clock, for every constant.
THEOREM Types == Spec => []TypeOK
<1>1. IInv => TypeOK
  BY DEF IInv
<1> QED BY InitIInv, NextIInv, <1>1, PTL DEF Spec

\* tikv-gc never collects the most recent block of an instance it knows of, nor
\* its entry, for any number of instances and any interleaving with their commits.
THEOREM TipsStayReadable == Spec => []LatestReadable
<1>1. IInv => LatestReadable
  BY DEF IInv
<1> QED BY InitIInv, NextIInv, <1>1, PTL DEF Spec

\* A request loses its snapshot to tikv-gc only when the snapshot is older than the
\* safe zone and every indexed instance has published something newer, however long
\* the request takes.
THEOREM SnapshotsStayReadable == Spec => []ReadersSafe
BY InitIInv, NextIInv, ZoneCoversReaders, PTL DEF Spec
=============================================================================
