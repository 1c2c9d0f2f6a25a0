------------------------------ MODULE SafePoint ------------------------------
(***************************************************************************)
(* tikv-gc: one run reads the cursor entries of every instance from Redis,  *)
(* chooses a GC safepoint, prunes the entries below it and submits it to    *)
(* PD, while instances commit and publish and API requests read snapshots.  *)
(*                                                                         *)
(* Times are TiKV timestamps; now is the newest one handed out.  Deadline   *)
(* bounds two delays the safe zone is meant to cover: how long an instance  *)
(* takes from a commit to its entry, and how long a run takes to read the   *)
(* entries.  How long a request reads its snapshot is not bounded.  The     *)
(* origin of time is at least the safe zone ago.                            *)
(***************************************************************************)
EXTENDS Integers

CONSTANTS Inst, Heights,
          MaxTime,   \* bound on the clock
          Phys,      \* the physical part of a timestamp
          Zone,      \* safe_zone_millis
          Skew,      \* how far the local clock may be ahead of the oracle
          Deadline,
          None

Time == 0..MaxTime

ASSUME SafePointAssumption ==
    /\ MaxTime \in Nat /\ Zone \in Time /\ Skew \in Nat /\ Deadline \in Nat
    /\ Deadline + Deadline + Skew <= Zone
    /\ Heights \subseteq Nat
    /\ Phys \in [Time -> Nat]
    /\ \A s, t \in Time : s <= t => Phys[s] <= Phys[t]
    /\ None \notin Time

VARIABLES now, pending, entries, indexed, readers,  \* the cluster and Redis
          step, started, todo, fetched, cand,       \* the tikv-gc run
          safepoint                                 \* PD

clusterVars == <<now, pending, entries, indexed, readers>>
gcVars == <<step, started, todo, fetched, cand>>
vars == <<clusterVars, gcVars, safepoint>>

Entry == [height : Heights, ts : Time]
-----------------------------------------------------------------------------
(* Instances (polyphony) and API requests (mapi).                          *)

\* The clock waits for what has reached its deadline.
Advance ==
    /\ now < MaxTime
    /\ \A i \in Inst : pending[i] # None => now < pending[i].ts + Deadline
    /\ step = "fetch" => now < started + Deadline
    /\ now' = now + 1

Tick == Advance /\ UNCHANGED <<pending, entries, indexed, readers, gcVars, safepoint>>

\* A block or the last transaction of a rollback commits, or bootstrap finds no
\* entry for the cursor and takes the current timestamp.
Commit(i, h) ==
    /\ pending[i] = None
    /\ Advance
    /\ pending' = [pending EXCEPT ![i] = [height |-> h, ts |-> now + 1]]
    /\ UNCHANGED <<entries, indexed, readers, gcVars, safepoint>>

\* The instance stops before its entry is published or indexed.
Lose(i) ==
    /\ pending[i] # None
    /\ pending' = [pending EXCEPT ![i] = None]
    /\ UNCHANGED <<now, entries, indexed, readers, gcVars, safepoint>>

\* zadd of the cursor entry, then of the key in the index.
Publish(i) ==
    /\ pending[i] # None /\ pending[i] \notin entries[i]
    /\ entries' = [entries EXCEPT ![i] = @ \cup {pending[i]}]
    /\ UNCHANGED <<now, pending, indexed, readers, gcVars, safepoint>>

Index(i) ==
    /\ pending[i] # None /\ pending[i] \in entries[i]
    /\ indexed' = indexed \cup {i}
    /\ pending' = [pending EXCEPT ![i] = None]
    /\ UNCHANGED <<now, entries, readers, gcVars, safepoint>>

\* begin_snapshot_latest
BeginRead ==
    /\ readers = {}  \* one request at a time; requests do not interact
    /\ readers' = {now}
    /\ UNCHANGED <<now, pending, entries, indexed, gcVars, safepoint>>

EndRead(r) ==
    /\ readers' = readers \ {r}
    /\ UNCHANGED <<now, pending, entries, indexed, gcVars, safepoint>>
-----------------------------------------------------------------------------
(* A tikv-gc run.                                                          *)

\* get_instance_chaintips: the highest entry, of those the most recent.
IsTip(e, S) ==
    /\ e \in S
    /\ \A f \in S : f.height < e.height \/ (f.height = e.height /\ f.ts <= e.ts)

\* The process exits; the next run starts afresh.
EndRun ==
    /\ step' = "idle" /\ started' = 0 /\ todo' = {} /\ cand' = None
    /\ fetched' = [i \in Inst |-> {}]

\* fetch_entry_map: the index, then one instance at a time; an instance
\* without entries is skipped.
FetchKeys ==
    /\ step = "idle"
    /\ step' = "fetch" /\ started' = now /\ todo' = indexed
    /\ fetched' = [i \in Inst |-> {}] /\ cand' = None
    /\ UNCHANGED <<clusterVars, safepoint>>

Fetch(i) ==
    /\ step = "fetch" /\ i \in todo
    /\ fetched' = [fetched EXCEPT ![i] = entries[i]]
    /\ todo' = todo \ {i}
    /\ UNCHANGED <<step, started, cand, clusterVars, safepoint>>

\* (variant) the latest of the chain tips
LatestTip(t) ==
    /\ \E i \in Inst : \E e \in fetched[i] : IsTip(e, fetched[i]) /\ e.ts = t
    /\ \A i \in Inst : \A e \in fetched[i] : IsTip(e, fetched[i]) => e.ts <= t

\* get_earliest_chaintip_ts
EarliestTip(t) ==
    /\ \E i \in Inst : \E e \in fetched[i] : IsTip(e, fetched[i]) /\ e.ts = t
    /\ \A i \in Inst : \A e \in fetched[i] : IsTip(e, fetched[i]) => t <= e.ts

\* (variant) the safe zone is left out
NoZone(clock) == clock

SafeZone(clock) == clock - Zone

\* get_new_safepoint: the earlier candidate.  Without any entry the run panics.
Choose(skew) ==
    /\ step = "fetch" /\ todo = {}
    /\ \E t \in Time :
          /\ EarliestTip(t)
          /\ cand' = IF t <= SafeZone(now + skew) THEN t ELSE SafeZone(now + skew)
    /\ step' = "prune"
    /\ todo' = {i \in Inst : fetched[i] # {}}
    /\ UNCHANGED <<started, fetched, clusterVars, safepoint>>

PanicNoEntries ==
    /\ step = "fetch" /\ todo = {}
    /\ \A i \in Inst : fetched[i] = {}
    /\ EndRun
    /\ UNCHANGED <<clusterVars, safepoint>>

\* zrembyscore -inf .. physical - 1
Stale(e, c) == Phys[e.ts] < Phys[c]

Prune(i) ==
    /\ step = "prune" /\ i \in todo
    /\ entries' = [entries EXCEPT ![i] = {e \in @ : ~Stale(e, cand)}]
    /\ todo' = todo \ {i}
    /\ UNCHANGED <<step, started, fetched, cand, now, pending, indexed, readers, safepoint>>

\* legacy_gc: PD never moves its safepoint back.
Submit ==
    /\ step = "prune" /\ todo = {}
    /\ safepoint' = IF cand > safepoint THEN cand ELSE safepoint
    /\ EndRun
    /\ UNCHANGED clusterVars

\* The run stops between two of its steps.
Abort ==
    /\ step # "idle"
    /\ EndRun
    /\ UNCHANGED <<clusterVars, safepoint>>
-----------------------------------------------------------------------------
Init ==
    /\ now = Zone /\ safepoint = 0
    /\ pending = [i \in Inst |-> None] /\ entries = [i \in Inst |-> {}]
    /\ indexed = {} /\ readers = {}
    /\ step = "idle" /\ started = 0 /\ todo = {} /\ cand = None
    /\ fetched = [i \in Inst |-> {}]

Next ==
    \/ Tick \/ BeginRead \/ \E r \in readers : EndRead(r)
    \/ \E i \in Inst : (\E h \in Heights : Commit(i, h)) \/ Lose(i)
                      \/ Publish(i) \/ Index(i)
    \/ FetchKeys \/ \E i \in Inst : Fetch(i) \/ Prune(i)
    \/ \E skew \in 0..Skew : Choose(skew)
    \/ PanicNoEntries \/ Submit \/ Abort

Spec == Init /\ [][Next]_vars
-----------------------------------------------------------------------------
\* The types, and that the clock is never behind a timestamp in use: entries,
\* snapshots and the safepoint itself come from timestamps already handed out.
TypeOK ==
    /\ now \in Time /\ safepoint \in Time /\ started \in Time
    /\ pending \in [Inst -> Entry \cup {None}]
    /\ entries \in [Inst -> SUBSET Entry] /\ fetched \in [Inst -> SUBSET Entry]
    /\ indexed \subseteq Inst /\ readers \subseteq Time
    /\ step \in {"idle", "fetch", "prune"} /\ todo \subseteq Inst
    /\ cand \in Time \cup {None}
    /\ Zone <= now /\ safepoint <= now

\* Every instance in tikv-gc's index keeps a published entry at or above the
\* safepoint, so the one with its latest timestamp stays in Redis and readable,
\* however a run's reads, choice, pruning and submission interleave with commits.
LatestReadable ==
    \A i \in indexed : \E e \in entries[i] : safepoint <= e.ts

\* A request loses the snapshot it reads to garbage collection only when that is
\* older than the safe zone by tikv-gc's clock, and when every instance in the index
\* has published something newer: "nothing younger than a safe-zone window is ever
\* collected", however long the request takes (get_new_safepoint, worker.rs).
ReadersSafe ==
    \A r \in readers : r < safepoint =>
        /\ r + Zone < now + Skew
        /\ \A i \in indexed : \E e \in entries[i] : r < e.ts
=============================================================================
