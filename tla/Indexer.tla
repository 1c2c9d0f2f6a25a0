------------------------------- MODULE Indexer -------------------------------
(***************************************************************************)
(* One polyphony instance: the compressor source stage, the queue through   *)
(* the reducers, and the storage stage of module Storage, fed by a          *)
(* compressor whose chain grows and reorganises.                            *)
(*                                                                         *)
(* The compressor is seen through its API: a tip, the blocks below it       *)
(* (page_blocks_with_context), and the update log that streams replay       *)
(* (modules ChainDB and WalStream).  The reducers keep no state between     *)
(* messages and keep their order, so they are part of the queue.            *)
(***************************************************************************)
EXTENDS Storage

CONSTANTS InitTip,        \* the compressor's tip at the start
          InitLog,        \* the blocks its update log holds at the start
          Window,         \* IMMUTABLE_AFTER_BLOCKS
          PageSize,       \* max_items_per_page
          QueueCap,
          MaxReorg,
          Trials          \* how often what may happen: events (blocks and
                          \* rollbacks), crashes, workerFaults, sourceFaults, and
                          \* whether a reorg may bring back an abandoned block

\* The log ends at the tip and each of its blocks continues the one before, as
\* modules ChainDB and ChainDBProofs show of the compressor's.
ASSUME IndexerAssumption ==
    /\ InitTip \in Block
    /\ InitLog \in Seq(Block)
    /\ InitLog # <<>> => InitLog[Len(InitLog)] = InitTip
    /\ \A i \in 1..(Len(InitLog) - 1) : InitLog[i] = Parent[InitLog[i + 1]]
    /\ PageSize \in Nat

VARIABLES tip, log, abandoned,   \* the compressor
          queue,
          smode, scursor, upHeight, spos,  \* the source worker
          left               \* what may still happen

upVars     == <<tip, log, abandoned>>
sourceVars == <<smode, scursor, upHeight, spos>>
vars == <<storeVars, upVars, queue, sourceVars, left>>

\* One more of the things that may happen, happens.
Uses(what) == left[what] > 0 /\ left' = [left EXCEPT ![what] = @ - 1]

\* b is in the compressor's table when its tip is t.
OnChain(b, t) == b \in Elems(Chain[t])
-----------------------------------------------------------------------------
(* The compressor.                                                         *)

Extend(b) ==
    /\ Uses("events")
    /\ Parent[b] = tip
    /\ left.returns \/ b \notin abandoned
    /\ tip' = b
    /\ log' = Append(log, [kind |-> "Apply", block |-> b])
    /\ UNCHANGED <<storeVars, abandoned, queue, sourceVars>>

RollBackTo(b) ==
    /\ Uses("events")
    /\ b # tip /\ OnChain(b, tip)
    /\ \A x \in abandoned \cup {tip} : Height[x] - Height[b] <= MaxReorg
    /\ tip' = b
    /\ LET n == Height[tip] - Height[b]
           undone == [i \in 1..n |-> [kind  |-> "Undo",
                                       block |-> Chain[tip][Height[tip] + 1 - i]]]
       IN  /\ log' = log \o undone \o <<[kind |-> "Mark", block |-> b]>>
           /\ abandoned' = abandoned \cup {undone[i].block : i \in 1..n}
    /\ UNCHANGED <<storeVars, queue, sourceVars>>

\* find_wal_seq: the first Apply or Mark of b, unless an entry as high as b
\* comes before it.
FindInLog(b) ==
    {i \in 1..Len(log) : /\ log[i].block = b /\ log[i].kind # "Undo"
                         /\ \A j \in 1..(i-1) : Height[log[j].block] < Height[b]}
-----------------------------------------------------------------------------
(* The source worker.                                                      *)

\* bootstrap: intersect with the newest persisted rollback point that is still
\* on the chain, else with the cursor, else start from the origin.
NewestOnChain ==
    {b \in DOMAIN meta : /\ OnChain(b, tip)
                         /\ \A c \in DOMAIN meta :
                                OnChain(c, tip) => Height[c] <= Height[b]}

\* (variant) nothing tells the storage stage where the source resumes
ResumeSilently(b) == queue

ResumeAt(b) == Append(queue, Back(b, TRUE))

Intersected(b) == smode' = "dump" /\ scursor' = b /\ upHeight' = Height[tip]
NotIntersected == smode' = "down" /\ UNCHANGED <<scursor, upHeight>>

SourceBootstrap ==
    /\ smode = "boot"
    /\ Len(queue) < QueueCap
    /\ \/ /\ DOMAIN meta # {}
          /\ \/ \E b \in NewestOnChain :
                    /\ Intersected(b)
                    /\ queue' = ResumeAt(b)
             \/ NewestOnChain = {} /\ NotIntersected /\ queue' = queue
       \/ /\ DOMAIN meta = {}
          /\ IF cursor = NoBlock \/ OnChain(cursor, tip)
             THEN Intersected(cursor) ELSE NotIntersected
          /\ queue' = queue
    /\ spos' = 0
    /\ UNCHANGED <<storeVars, upVars, left>>

\* schedule, dumping near the tip: open a stream at the dump cursor, and keep
\* dumping while the log does not have it.
CanStream ==
    /\ scursor # NoBlock
    /\ Height[scursor] + Window >= upHeight
    /\ FindInLog(scursor) # {}

OpenStream ==
    /\ smode = "dump" /\ CanStream
    /\ spos' \in FindInLog(scursor)
    /\ smode' = "stream"
    /\ UNCHANGED <<storeVars, upVars, queue, scursor, upHeight, left>>

\* schedule and execute, dumping: the next page of blocks, sent as immutable.
NextPage ==
    LET from == IF scursor = NoBlock THEN 0 ELSE Height[scursor]
        to   == IF from + PageSize < Height[tip] THEN from + PageSize ELSE Height[tip]
    IN  SubSeq(Chain[tip], from + 1, to)

Page ==
    /\ smode = "dump" /\ ~CanStream
    /\ scursor = NoBlock \/ OnChain(scursor, tip)
    /\ NextPage # <<>>
    /\ Len(queue) + Len(NextPage) <= QueueCap
    /\ queue' = queue \o [i \in 1..Len(NextPage) |-> Fwd(NextPage[i], FALSE)]
    /\ scursor' = NextPage[Len(NextPage)]
    /\ upHeight' = Height[tip]
    /\ UNCHANGED <<storeVars, upVars, smode, spos, left>>

\* The dump cursor is no longer on the chain: the page request answers NotFound.
PageNotFound ==
    /\ smode = "dump" /\ ~CanStream
    /\ scursor # NoBlock /\ ~OnChain(scursor, tip)
    /\ smode' = "boot"
    /\ UNCHANGED <<storeVars, upVars, queue, scursor, upHeight, spos, left>>

\* schedule and execute, streaming.
Stream ==
    /\ smode = "stream" /\ spos < Len(log) /\ Len(queue) < QueueCap
    /\ LET e == log[spos + 1]
       IN  queue' = IF e.kind = "Undo" THEN queue
                    ELSE Append(queue, IF e.kind = "Apply" THEN Fwd(e.block, TRUE)
                                       ELSE Back(e.block, FALSE))
    /\ spos' = spos + 1
    /\ UNCHANGED <<storeVars, upVars, smode, scursor, upHeight, left>>

\* A request or the stream fails: or_restart.
SourceFault ==
    /\ Uses("sourceFaults")
    /\ smode \in {"dump", "stream"}
    /\ smode' = "boot"
    /\ UNCHANGED <<storeVars, upVars, queue, scursor, upHeight, spos>>

SourceStep == SourceBootstrap \/ OpenStream \/ Page \/ PageNotFound \/ Stream
-----------------------------------------------------------------------------
(* The storage worker and the process.                                     *)

Receive ==
    /\ unit2pc = NoUnit /\ queue # <<>>
    /\ \E full \in BOOLEAN : Start(Head(queue), full)
    /\ queue' = Tail(queue)
    /\ UNCHANGED <<upVars, sourceVars, left>>

StorageStep ==
    \/ Receive
    \/ /\ Reschedule \/ StoreStep
       /\ UNCHANGED <<upVars, queue, sourceVars, left>>

WorkerFault ==
    /\ Uses("workerFaults")
    /\ WorkerRestart
    /\ UNCHANGED <<upVars, queue, sourceVars>>

\* The process exits after a panic of a stage, or stops at any moment, and its
\* container is started again.
Rebuild ==
    /\ ProcessRestart
    /\ queue' = <<>>
    /\ smode' = "boot" /\ scursor' = NoBlock /\ upHeight' = 0 /\ spos' = 0
    /\ UNCHANGED upVars

ExitOnPanic == (step = "panic" \/ smode = "down") /\ Rebuild /\ UNCHANGED left
Crash == Uses("crashes") /\ Rebuild
-----------------------------------------------------------------------------
Init ==
    /\ StoreInit
    /\ tip = InitTip
    /\ log = [i \in 1..Len(InitLog) |-> [kind |-> "Apply", block |-> InitLog[i]]]
    /\ abandoned = {}
    /\ queue = <<>>
    /\ smode = "boot" /\ scursor = NoBlock /\ upHeight = 0 /\ spos = 0
    /\ left \in Trials

Upstream == \E b \in Block : Extend(b) \/ RollBackTo(b)

Next == \/ Upstream \/ SourceStep \/ SourceFault
        \/ StorageStep \/ WorkerFault \/ ExitOnPanic \/ Crash

Spec == Init /\ [][Next]_vars
        /\ WF_vars(SourceStep) /\ WF_vars(StorageStep) /\ WF_vars(ExitOnPanic)
-----------------------------------------------------------------------------
AtRest == step = "idle" /\ unit2pc = NoUnit

\* Whenever the worker is ready for the next message in mutable mode, the data
\* in TiKV is what the blocks up to the committed cursor produce, each applied
\* once and nothing of an abandoned branch left: commits, undo transactions,
\* their re-execution from work_unit_2pc and restarts compose to that.
DataMatchesCursor == AtRest /\ mutable => kv = Expected(cursor)

\* No two blocks of one height have persisted metadata: fetch_persistent_buffer
\* groups the records by height alone, and would read the inverse actions of two
\* branches as those of one block.  New blocks reach an undone height only after
\* the trimming, also when a crash or a failed call interrupts the rollback.
MetadataOfOneBranch == \A b, c \in DOMAIN meta : Height[b] = Height[c] => b = c

\* Reorgs shallower than the rollback buffer are always found in it, by the
\* running worker and by a source that starts from the persisted metadata, as
\* long as the chain does not return to a block it abandoned and the source does
\* not fail again before the rollback it resumed with is consumed.  (Otherwise a
\* restarted source may name a block whose undoing is under way; the stage ends
\* and the process starts again, which CatchesUp covers.)
NeverOutOfRange == ~left.returns => step # "panic" /\ smode # "down"

\* Once the chain rests and failures stop, the instance reaches the tip with
\* the right data and stays there.
CatchesUp == <>[](cursor = tip /\ kv = Expected(tip))

\* Bulk mode: the increments of a flush commit with the cursor, so a counted key
\* never runs ahead of it; a set key may hold the value of a block of the
\* same chain above the cursor when a staggered flush was interrupted.
BulkDataMatches ==
    AtRest => /\ \A k \in Key \ SetKeys : kv[k] = Expected(cursor)[k]
              /\ \A k \in SetKeys :
                     \E b \in Elems(Chain[tip]) \cup {NoBlock} :
                         /\ b = NoBlock => cursor = NoBlock
                         /\ cursor # NoBlock => OnChain(cursor, b)
                         /\ kv[k] = Expected(b)[k]

\* An instance in the registry has a cursor entry, which is what keeps tikv-gc
\* from collecting the versions its readers need (maybe_advertise is called
\* after the entry is written, and not in bulk mode).
AdvertisedHasEntry == score # 0 => redis # {}

\* Backfilling ends with every block committed or waiting in the batch.
BackfillCompletes ==
    <>[]((IF cursor = NoBlock THEN <<>> ELSE Chain[cursor]) \o batch = Chain[tip])
CursorBlock == IF cursor = NoBlock THEN Genesis ELSE cursor

Follower == INSTANCE ChainFollower WITH at <- CursorBlock

\* The cursor that readers find in TiKV moves along one branch, as the abstract
\* follower does: a batch moves it up by several blocks, each undo transaction
\* down by one, and no crash, re-executed unit or reorg met while the instance
\* was away makes it jump to another fork.
CursorFollows == [][Follower!Follow]_CursorBlock
-----------------------------------------------------------------------------
(* A statement of the repository that the code does not keep.              *)

\* "we need to add the last point to the rollback buffer in case we see a
\* rollback to that point": below the first block applied as mutable stands
\* its parent.
InitPointIsParent ==
    \A i \in 1..(Len(buffer) - 1) : buffer[i + 1].point = Parent[buffer[i].point]
=============================================================================
