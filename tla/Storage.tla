------------------------------- MODULE Storage -------------------------------
(***************************************************************************)
(* The storage stage of polyphony: the TiKV worker, the instance's data and *)
(* cursor in TiKV, its persisted rollback metadata, and the cursor entries  *)
(* and registry score it publishes in Redis.                               *)
(*                                                                         *)
(* A TiKV transaction is one step.  Between two of them the worker may fail *)
(* (or_restart: the worker bootstraps again, its fields and its queue       *)
(* survive, the unit is lost unless work_unit_2pc holds it) or the process  *)
(* may stop.  A block appends itself to the keys it increments and          *)
(* overwrites the keys it sets, so a value records exactly which blocks     *)
(* were applied to it.  Increments and sets are told apart because          *)
(* apply_staggered_actions commits them in different transactions.          *)
(***************************************************************************)
EXTENDS BlockTree, FiniteSets

CONSTANTS Key,            \* the data keys
          Chunks,         \* the keys that blocks delete, then those they set, as
                          \* apply_staggered_actions splits them; the others are
                          \* incremented
          Touch,          \* the keys a block's reducer outputs write
          NoBlock,
          StartBulk,      \* what an earlier run of the instance committed in bulk,
          StartCursor,    \* and block by block after it
          BufSize,        \* general.buffer_size
          BatchSize,      \* storage.sync_batch_size
          Advertise       \* storage.advertise_immediately

ASSUME StorageAssumption ==
    /\ NoBlock \notin Node
    /\ Chunks \in Seq(SUBSET Key) /\ Chunks # <<>>
    /\ Touch \in [Block -> SUBSET Key]
    /\ BufSize \in Nat \ {0} /\ BatchSize \in Nat \ {0}
    /\ Advertise \in BOOLEAN
    /\ StartCursor \in Block \cup {NoBlock}

VARIABLES
    kv, cursor, meta,                \* TiKV: data, cursor, rollback metadata
    redis, score,                    \* Redis: cursor entries, registry score
    batch, buffer, mutable, unit2pc, \* sync_batcher, rollback_buffer, ...
    last_processed, registered,
    step, unit, todo                 \* where the running work unit stands

tikvVars  == <<kv, cursor, meta>>
redisVars == <<redis, score>>
memVars   == <<batch, buffer, mutable, unit2pc, last_processed, registered>>
runVars   == <<step, unit, todo>>
storeVars == <<tikvVars, redisVars, memVars, runVars>>

SetKeys == UNION {Chunks[i] : i \in 1..Len(Chunks)}

NoUnit == [kind |-> "none", block |-> NoBlock, mutable |-> FALSE]
Fwd(b, m)  == [kind |-> "fwd",  block |-> b, mutable |-> m]
Back(b, m) == [kind |-> "back", block |-> b, mutable |-> m]
-----------------------------------------------------------------------------
(* The effect of blocks on the data, and its inverse.                      *)

Write(k, v, b) == IF k \in SetKeys THEN <<b>> ELSE Append(v, b)

ApplyTo(d, b, keys) ==
    [k \in Key |-> IF k \in Touch[b] \cap keys THEN Write(k, d[k], b) ELSE d[k]]

\* The merged actions of a batch, restricted to some keys.
ApplyBatch(d, s, keys) ==
    LET upTo[n \in 0..Len(s)] ==
            IF n = 0 THEN d ELSE ApplyTo(upTo[n-1], s[n], keys)
    IN  upTo[Len(s)]

\* (variant) the cursor is not among the restored keys
InverseKeepsCursor(b) == [keys |-> Touch[b], old |-> kv, cursor |-> b]

\* apply_actions returns for every written key, the cursor included, the Set or
\* Delete that restores its value.  The init point has nothing to restore.
InverseActions(b) == [keys |-> Touch[b], old |-> kv, cursor |-> cursor]
NoInverse  == [keys |-> {}, old |-> [k \in Key |-> <<>>], cursor |-> NoBlock]

Restored(d, inv) == [k \in Key |-> IF k \in inv.keys THEN inv.old[k] ELSE d[k]]

PutMeta(m, b, inv) == [x \in DOMAIN m \cup {b} |-> IF x = b THEN inv ELSE m[x]]
DropMeta(m, S) == [x \in DOMAIN m \ S |-> m[x]]
-----------------------------------------------------------------------------
Elems(s) == {s[i] : i \in 1..Len(s)}

\* The blocks up to b that touch each key, in their order.
Touching[b \in Node] ==
    [k \in Key |-> IF b = Genesis THEN <<>>
                   ELSE IF k \in Touch[b] THEN Append(Touching[Parent[b]][k], b)
                   ELSE Touching[Parent[b]][k]]

\* What the keys hold when exactly the blocks up to b are applied.
Expected(b) ==
    [k \in Key |->
        LET t == IF b = NoBlock THEN <<>> ELSE Touching[b][k]
        IN  IF k \in SetKeys /\ t # <<>> THEN <<t[Len(t)]>> ELSE t]
-----------------------------------------------------------------------------
(* RollbackBuffer: newest first.                                           *)

\* (variant) the buffer is never truncated
AddBlockUnbounded(buf, b, inv) == <<[point |-> b, inv |-> inv]>> \o buf

AddBlock(buf, b, inv) ==
    SubSeq(<<[point |-> b, inv |-> inv]>> \o buf, 1,
           IF Len(buf) + 1 < BufSize THEN Len(buf) + 1 ELSE BufSize)

Position(buf, b) == {i \in 1..Len(buf) : buf[i].point = b}
Nearest(buf, b) == CHOOSE i \in Position(buf, b) : \A j \in Position(buf, b) : i <= j

\* (variant) oldest first
PointsSinceOldestFirst(buf, b) ==
    LET n == Nearest(buf, b) - 1 IN [i \in 1..n |-> buf[n + 1 - i]]

PointsSince(buf, b) == SubSeq(buf, 1, Nearest(buf, b) - 1)

\* (variant) the rollback point itself is drained too
RollbackPastPoint(buf, b) == SubSeq(buf, Nearest(buf, b) + 1, Len(buf))

RollbackToPoint(buf, b) == SubSeq(buf, Nearest(buf, b), Len(buf))

\* fetch_persistent_buffer: one record per height.  Loaded with add_block, oldest
\* first, they leave those of the newest buffer_size heights, newest first.
Heights(S) == {Height[b] : b \in S}
MetaAt(h) == {b \in DOMAIN meta : Height[b] = h}
LoadedBuffer ==
    LET hs == Heights(DOMAIN meta)
        nth(i) == CHOOSE h \in hs : Cardinality({g \in hs : g > h}) = i - 1
        record(h) == LET b == CHOOSE x \in MetaAt(h) : TRUE
                     IN  [point |-> b, inv |-> meta[b]]
        n == IF Cardinality(hs) < BufSize THEN Cardinality(hs) ELSE BufSize
    IN  [i \in 1..n |-> record(nth(i))]
-----------------------------------------------------------------------------
(* Redis.  An entry names a block and carries a timestamp, represented by   *)
(* the cursor that a read at that timestamp finds.                          *)

Entry(b, at) == [block |-> b, at |-> at]

\* (variant) a backfilling instance advertises itself
AdvertiseAnyway(h) == score' = h /\ registered' = TRUE

\* maybe_advertise
MaybeAdvertise(h) ==
    IF registered \/ mutable \/ Advertise
    THEN score' = h /\ registered' = TRUE
    ELSE UNCHANGED <<score, registered>>

\* Worker::bootstrap: an instance with entries but none for its cursor gets one
\* at the current timestamp.
RepairRedis ==
    redis' = IF /\ cursor # NoBlock /\ redis # {}
                /\ \A e \in redis : e.block # cursor
             THEN redis \cup {Entry(cursor, cursor)} ELSE redis
-----------------------------------------------------------------------------
(* Starting a work unit.                                                   *)

\* should_flush: the batch holds sync_batch_size blocks, or (bytes are not
\* modelled) any batch because of the size of the incoming actions.
ShouldFlush(full) == full \/ Len(batch) >= BatchSize

PushBatch(u, full) ==
    /\ u.kind = "fwd" /\ ~mutable'
    /\ ~ShouldFlush(full)
    /\ batch' = Append(batch, u.block)
    /\ step' = "idle" /\ unit' = NoUnit /\ todo' = <<>>
    /\ UNCHANGED unit2pc

BeginFlush(u, full) ==
    /\ u.kind = "fwd" /\ ~mutable'
    /\ ShouldFlush(full)
    /\ \/ step' = "bulk" /\ todo' = <<>>
       \/ step' = "bulkSets" /\ todo' = Chunks  \* more than 5000 actions
    /\ unit' = u /\ unit2pc' = u
    /\ UNCHANGED batch

BeginBlock(u) ==
    /\ u.kind = "fwd" /\ mutable'
    /\ IF batch = <<>> THEN step' = "block" /\ todo' = <<>>
                       ELSE step' = "restSets" /\ todo' = Chunks
    /\ unit' = u /\ unit2pc' = u
    /\ UNCHANGED batch

BeginRollBack(u) ==
    /\ u.kind = "back"
    /\ IF Position(buffer, u.block) = {}
       THEN step' = "panic" /\ todo' = <<>>
       ELSE step' = "undo" /\ todo' = PointsSince(buffer, u.block)
    /\ unit' = u /\ unit2pc' = u
    /\ UNCHANGED batch

\* execute, up to its first transaction.
Start(u, full) ==
    /\ step = "idle"
    /\ mutable' = (mutable \/ u.mutable)
    /\ \/ PushBatch(u, full) \/ BeginFlush(u, full)
       \/ BeginBlock(u) \/ BeginRollBack(u)
    /\ UNCHANGED <<tikvVars, redisVars, buffer, last_processed, registered>>

\* (variant) the unit in work_unit_2pc is never scheduled again
NeverRescheduled == FALSE

\* schedule: a unit left in work_unit_2pc comes before anything received, and
\* meets the batch it met the first time.
Reschedule == unit2pc # NoUnit /\ Start(unit2pc, TRUE)
-----------------------------------------------------------------------------
(* Bulk mode.                                                              *)

CursorAfter(s) == IF s = <<>> THEN cursor ELSE s[Len(s)]

\* The whole batch in one transaction (up to 5000 actions) ...
BulkCommit ==
    /\ step = "bulk"
    /\ kv' = ApplyBatch(kv, batch, Key)
    /\ cursor' = CursorAfter(batch)
    /\ step' = "bulkDone"
    /\ UNCHANGED <<meta, redisVars, memVars, unit, todo>>

\* ... or staggered: the deletes, the sets in chunks, and the rest with the
\* cursor last, a transaction each.  The batch that remains at the switch to
\* mutable is always staggered.
CommitSets ==
    /\ step \in {"bulkSets", "restSets"}
    /\ kv' = ApplyBatch(kv, batch, Head(todo))
    /\ todo' = Tail(todo)
    /\ step' = IF Len(todo) > 1 THEN step
               ELSE IF step = "bulkSets" THEN "bulkOthers" ELSE "restOthers"
    /\ UNCHANGED <<cursor, meta, redisVars, memVars, unit>>

CommitOthers ==
    /\ step \in {"bulkOthers", "restOthers"}
    /\ kv' = ApplyBatch(kv, batch, Key \ SetKeys)
    /\ cursor' = CursorAfter(batch)
    /\ \/ step = "bulkOthers" /\ step' = "bulkDone" /\ batch' = batch
       \/ step = "restOthers" /\ step' = "block" /\ batch' = <<>>
    /\ UNCHANGED <<meta, redisVars, buffer, mutable, unit2pc, last_processed,
                   registered, unit, todo>>

\* (variant) the flushed batch is not wiped
BatchKept(b) == Append(batch, b)

BatchAfterFlush(b) == <<b>>

\* Bookkeeping after a flush.  last_processed becomes the incoming point, which
\* opens the next batch.
BulkFinish ==
    /\ step = "bulkDone"
    /\ unit2pc' = NoUnit
    /\ last_processed' = unit.block
    /\ MaybeAdvertise(Height[unit.block])
    /\ batch' = BatchAfterFlush(unit.block)
    /\ step' = "idle" /\ unit' = NoUnit
    /\ UNCHANGED <<tikvVars, redis, buffer, mutable, todo>>

-----------------------------------------------------------------------------
(* Mutable mode: one block, its inverse actions and its metadata commit in  *)
(* one transaction.                                                         *)

InitPoint == last_processed

CommitBlock ==
    /\ step = "block"
    /\ LET b == unit.block
           first == buffer = <<>>
           primed == IF first /\ InitPoint # NoBlock
                     THEN PutMeta(meta, InitPoint, NoInverse) ELSE meta
       IN  /\ kv' = ApplyTo(kv, b, Key)
           /\ cursor' = b
           /\ meta' = PutMeta(primed, b, InverseActions(b))
           /\ buffer' = AddBlock(IF first THEN AddBlock(buffer, InitPoint, NoInverse)
                                 ELSE buffer, b, InverseActions(b))
           /\ last_processed' = b
    /\ unit2pc' = NoUnit
    /\ step' = "publish"
    /\ UNCHANGED <<redisVars, batch, mutable, registered, unit, todo>>

\* The cursor entry and the index key, then the registry.
Publish ==
    /\ step \in {"publish", "publishBack"}
    /\ redis' = redis \cup {Entry(unit.block, cursor)}
    /\ step' = IF step = "publish" THEN "advertise" ELSE "advertiseBack"
    /\ UNCHANGED <<tikvVars, score, memVars, unit, todo>>

AdvertiseBlock ==
    /\ step \in {"advertise", "advertiseBack"}
    /\ MaybeAdvertise(Height[unit.block])
    /\ step' = IF step = "advertise" THEN "gc" ELSE "trim"
    /\ UNCHANGED <<tikvVars, redis, batch, buffer, mutable, unit2pc, last_processed,
                   unit, todo>>

\* garbage_collect_rollback_metadata, lowest height first; one transaction per
\* height, and the pass ends with the transaction of the last one.
Gc ==
    /\ step = "gc"
    /\ LET old == {b \in DOMAIN meta : Height[b] + BufSize < Height[unit.block]}
           low == {b \in old : \A h \in Heights(old) : Height[b] <= h}
       IN  /\ meta' = DropMeta(meta, low)
           /\ \/ low = old /\ step' = "idle" /\ unit' = NoUnit
              \/ low # old /\ UNCHANGED <<step, unit>>
    /\ UNCHANGED <<kv, cursor, redisVars, memVars, todo>>
-----------------------------------------------------------------------------
(* Rolling back: one transaction per block, newest first.                  *)

UndoBlock ==
    /\ step = "undo" /\ todo # <<>>
    /\ kv' = Restored(kv, Head(todo).inv)
    /\ cursor' = IF Head(todo).inv = NoInverse THEN cursor ELSE Head(todo).inv.cursor
    /\ todo' = Tail(todo)
    /\ step' = IF Len(todo) = 1 THEN "publishBack" ELSE "undo"
    /\ UNCHANGED <<meta, redisVars, memVars, unit>>

NothingToUndo ==
    /\ step = "undo" /\ todo = <<>>
    /\ step' = "trim"
    /\ UNCHANGED <<tikvVars, redisVars, memVars, unit, todo>>

\* (variant) off by one: the lowest undone block keeps its metadata
ToTrimHigher(h) == {b \in DOMAIN meta : Height[b] > h + 1}

ToTrim(h) == {b \in DOMAIN meta : Height[b] > h}

\* trim_persistent_rollback_metadata, highest height first, then the unit's
\* end: 2pc unlock and the in-memory buffer.
Trim ==
    /\ step = "trim"
    /\ LET above == ToTrim(Height[unit.block])
           high  == {b \in above : \A h \in Heights(above) : h <= Height[b]}
       IN  /\ meta' = DropMeta(meta, high)
           /\ \/ /\ high # above
                 /\ UNCHANGED <<step, unit, unit2pc, last_processed, buffer>>
              \/ /\ high = above
                 /\ unit2pc' = NoUnit
                 /\ last_processed' = unit.block
                 /\ buffer' = RollbackToPoint(buffer, unit.block)
                 /\ step' = "idle" /\ unit' = NoUnit
    /\ UNCHANGED <<kv, cursor, redisVars, batch, mutable, registered, todo>>
-----------------------------------------------------------------------------
(* Failures.                                                               *)

\* A TiKV or Redis call of the running unit fails before it has an effect.
\* After a bulk flush the unit is already unlocked when maybe_advertise can
\* fail, and neither is the batch wiped nor the unit's block pushed.
WorkerRestart ==
    /\ step \notin {"idle", "panic"}
    /\ step = "bulkDone" => registered \/ Advertise
    /\ unit2pc' = IF step = "bulkDone" THEN NoUnit ELSE unit2pc
    /\ last_processed' = IF step = "bulkDone" THEN unit.block ELSE last_processed
    /\ RepairRedis
    /\ step' = "idle" /\ unit' = NoUnit /\ todo' = <<>>
    /\ UNCHANGED <<tikvVars, score, batch, buffer, mutable, registered>>

\* The process stops and starts: the pipeline is built from what TiKV holds.
ProcessRestart ==
    /\ batch' = <<>> /\ buffer' = LoadedBuffer
    /\ mutable' = FALSE /\ unit2pc' = NoUnit
    /\ last_processed' = cursor /\ registered' = FALSE
    /\ step' = "idle" /\ unit' = NoUnit /\ todo' = <<>>
    /\ RepairRedis
    /\ UNCHANGED <<tikvVars, score>>

\* A process has just started on what earlier runs left in TiKV and Redis.
OneByOne == IF StartBulk = StartCursor THEN {}
            ELSE {b \in Block : /\ b \in Elems(Chain[StartCursor])
                                /\ Height[b] > Height[StartBulk]}

StoreInit ==
    /\ kv = Expected(StartCursor) /\ cursor = StartCursor
    /\ meta = [b \in OneByOne \cup (IF OneByOne = {} THEN {} ELSE {StartBulk}) |->
                  IF b = StartBulk THEN NoInverse
                  ELSE [keys |-> Touch[b], old |-> Expected(Parent[b]),
                        cursor |-> Parent[b]]]
    /\ redis = {Entry(b, b) : b \in OneByOne}
    /\ score = IF OneByOne = {} THEN 0 ELSE Height[StartCursor]
    /\ batch = <<>> /\ buffer = LoadedBuffer
    /\ mutable = FALSE /\ unit2pc = NoUnit
    /\ last_processed = StartCursor /\ registered = FALSE
    /\ step = "idle" /\ unit = NoUnit /\ todo = <<>>

StoreStep ==
    \/ BulkCommit \/ CommitSets \/ CommitOthers \/ BulkFinish
    \/ CommitBlock \/ Publish \/ AdvertiseBlock \/ Gc
    \/ UndoBlock \/ NothingToUndo \/ Trim
-----------------------------------------------------------------------------
Inverses == [keys : SUBSET Key, old : [Key -> Seq(Block)], cursor : Node \cup {NoBlock}]
Units == [kind : {"none", "fwd", "back"}, block : Block \cup {NoBlock}, mutable : BOOLEAN]

\* The shape of the worker's state: the in-memory rollback buffer stays within
\* buffer_size (rollback/buffer.rs add_block), and a unit is locked in
\* work_unit_2pc whenever a transaction of it may still be outstanding.
StoreTypeOK ==
    /\ kv \in [Key -> Seq(Block)] /\ cursor \in Block \cup {NoBlock}
    /\ DOMAIN meta \subseteq Block /\ \A b \in DOMAIN meta : meta[b] \in Inverses
    /\ \A e \in redis : e.block \in Block /\ e.at \in Block \cup {NoBlock}
    /\ score \in Nat
    /\ batch \in Seq(Block)
    /\ buffer \in Seq([point : Block \cup {NoBlock}, inv : Inverses])
    /\ Len(buffer) <= BufSize
    /\ mutable \in BOOLEAN /\ registered \in BOOLEAN
    /\ unit2pc \in Units /\ unit \in Units
    /\ last_processed \in Block \cup {NoBlock}
    /\ step \in {"bulk", "bulkSets", "bulkOthers", "restSets", "restOthers", "block",
                 "undo", "publishBack", "advertiseBack", "trim", "panic"}
           => unit2pc = unit /\ unit # NoUnit

\* A reader that opens a snapshot at the timestamp of a published cursor entry
\* finds the cursor the entry names: for a committed block, for the point of a
\* rollback and for the entry that bootstrap adds.
EntriesRead == \A e \in redis : e.at = e.block
=============================================================================
