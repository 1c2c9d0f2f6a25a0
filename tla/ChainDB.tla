------------------------------- MODULE ChainDB -------------------------------
(***************************************************************************)
(* The compressor's rolling database and the roll stage that drives it.    *)
(*                                                                         *)
(* BlockByHeightKV (blocks) holds the best chain; MutableKV (wal) is a log *)
(* of Apply / Undo / Mark entries, keyed by a sequence number, that gRPC   *)
(* streams follow.  Every operation commits one RocksDB transaction, so it *)
(* is one action.  The in-memory fields next_wal_seq and last_block_hash   *)
(* are advanced after the commit, and a failing flush between the two      *)
(* leaves the block committed and the unit to be retried.                  *)
(***************************************************************************)
EXTENDS BlockTree

CONSTANTS Confs,       \* chain_db.immutable_after_confs, or NoConfs when unset
          NoConfs,
          NoBlock,
          Spending,    \* the blocks that spend outputs of earlier blocks
          FlushEvery,  \* a flush follows the commit of every FlushEvery-th height
          MaxSeq,      \* bound on WAL sequence numbers
          MaxTip       \* bound on the node tip height that pull events carry

ASSUME ChainDBAssumption ==
    /\ NoBlock \notin Node
    /\ Confs \in Nat \cup {NoConfs}
    /\ NoConfs \notin Nat
    /\ Spending \subseteq Block
    /\ FlushEvery \in Nat \ {0}
    /\ MaxSeq \in Nat
    /\ MaxTip \in Nat

VARIABLES blocks,           \* BlockByHeightKV: height -> block
          wal,              \* MutableKV: sequence number -> log entry
          next_wal_seq,
          last_block_hash,  \* NoBlock stands for None
          mutable,          \* roll::Stage.mutable
          retrying          \* the block whose commit succeeded and flush failed

dbVars == <<blocks, wal, next_wal_seq, last_block_hash, mutable, retrying>>

Log == [kind : {"Apply", "Undo", "Mark"}, block : Block]

Apply(b) == [kind |-> "Apply", block |-> b]
Undo(b)  == [kind |-> "Undo",  block |-> b]
Mark(b)  == [kind |-> "Mark",  block |-> b]

Empty == [k \in {} |-> NoBlock]

Put(f, k, v) == [x \in DOMAIN f \cup {k} |-> IF x = k THEN v ELSE f[x]]

Retain(f, S) == [x \in S |-> f[x]]

\* The last entry of a table keyed by height; 0 when the table is empty.
LastKey(f) ==
    IF DOMAIN f = {} THEN 0
    ELSE CHOOSE h \in DOMAIN f : \A k \in DOMAIN f : k <= h

TipHeight == LastKey(blocks)

Tip == IF TipHeight = 0 THEN NoBlock ELSE blocks[TipHeight]
-----------------------------------------------------------------------------
\* (variant) every lower entry goes, wherever it stands
PruneDropsAll(w, before_height) ==
    Retain(w, {k \in DOMAIN w : Height[w[k].block] >= before_height})

\* MutableKV::prune deletes from the start of the log and stops at the first
\* entry that reaches before_height.
Prune(w, before_height) ==
    Retain(w, {k \in DOMAIN w : \E j \in DOMAIN w :
                   j <= k /\ Height[w[j].block] >= before_height})

\* roll::execute switches to mutable once the block is inside the window, and
\* never back.  Without immutable_after_confs a roll forward switches at once,
\* a roll back does not.
MutableAfterForward(b, tip) ==
    mutable \/ Confs = NoConfs \/ (Confs # NoConfs /\ Height[b] + Confs > tip)

MutableAfterBack(b, tip) ==
    mutable \/ (Confs # NoConfs /\ Height[b] + Confs > tip)

\* The one transaction of apply_block_with_context: the block, its log entry,
\* and the pruning of the log.
WalAfterApply(b, m) ==
    LET logged == Put(wal, next_wal_seq, Apply(b))
    IN  IF ~m THEN wal
        ELSE IF Confs # NoConfs /\ Height[b] >= Confs
             THEN Prune(logged, Height[b] - Confs)
             ELSE logged

\* (variant) any block is accepted
Unlinked(b) == TRUE

\* (variant) the heights are compared instead of the hashes
LinksByHeight(b) ==
    last_block_hash # NoBlock => Height[b] = Height[last_block_hash] + 1

\* The prev-hash test of apply_block_with_context.
LinksToLast(b) == last_block_hash # NoBlock => Parent[b] = last_block_hash

CommitApply(b, m) ==
    /\ LinksToLast(b)
    /\ blocks' = Put(blocks, Height[b], b)
    /\ wal' = WalAfterApply(b, m)

\* The in-memory updates that follow the commit.
Advance(b) ==
    /\ next_wal_seq' = next_wal_seq + 1
    /\ last_block_hash' = b
    /\ retrying' = NoBlock

RollForward(b, tip) ==
    /\ retrying = NoBlock
    /\ next_wal_seq < MaxSeq
    /\ Height[b] <= tip
    \* pull's locator holds only genesis while the database is empty
    /\ TipHeight = 0 => Parent[b] = Genesis
    /\ mutable' = MutableAfterForward(b, tip)
    /\ CommitApply(b, mutable')
    /\ Advance(b)

\* The commit succeeds and `self.flush()?` returns early.
RollForwardFlushFails(b, tip) ==
    /\ retrying = NoBlock
    /\ next_wal_seq < MaxSeq
    /\ Height[b] <= tip
    /\ TipHeight = 0 => Parent[b] = Genesis
    /\ Height[b] % FlushEvery = 0
    /\ mutable' = MutableAfterForward(b, tip)
    /\ CommitApply(b, mutable')
    /\ retrying' = b
    /\ UNCHANGED <<next_wal_seq, last_block_hash>>

\* or_retry executes the same unit again.  The first attempt has already deleted
\* the outputs the block spends, so resolve_and_process answers MissingTxo, and
\* nothing but a restart helps, unless the block spends only its own outputs.
RetryForward ==
    /\ retrying # NoBlock
    /\ retrying \notin Spending
    /\ CommitApply(retrying, mutable)
    /\ Advance(retrying)
    /\ UNCHANGED mutable

\* (variant) the undone blocks are logged oldest first
UndoneOldestFirst(b, i) == blocks[Height[b] + 1 + i]

\* ChainDB::rollback: the blocks above the point are undone newest first, each
\* with an Undo entry, and a Mark entry closes the rollback.
Undone(b, i) == blocks[TipHeight - i]

WalAfterRollback(b, m) ==
    LET top == next_wal_seq + (TipHeight - Height[b])
    IN  IF ~m THEN wal
        ELSE [k \in DOMAIN wal \cup next_wal_seq..top |->
                IF k = top THEN Mark(b)
                ELSE IF k >= next_wal_seq THEN Undo(Undone(b, k - next_wal_seq))
                ELSE wal[k]]

\* (variant) the last hash survives the rollback
HashKept(b) == last_block_hash

HashAfterRollback(b) == b

RollBack(b, tip) ==
    /\ retrying = NoBlock
    /\ Height[b] \in DOMAIN blocks
    /\ blocks[Height[b]] = b
    /\ next_wal_seq + (TipHeight - Height[b]) < MaxSeq
    /\ mutable' = MutableAfterBack(b, tip)
    /\ blocks' = Retain(blocks, {h \in DOMAIN blocks : h <= Height[b]})
    /\ wal' = WalAfterRollback(b, mutable')
    /\ next_wal_seq' = IF mutable'
                       THEN next_wal_seq + (TipHeight - Height[b]) + 1
                       ELSE next_wal_seq
    /\ last_block_hash' = HashAfterRollback(b)
    /\ UNCHANGED retrying

\* The process stops and ChainDB::open runs: the log is cleared, the sequence
\* restarts at 1 and last_block_hash is read back from the table.
Restart ==
    /\ wal' = Empty
    /\ next_wal_seq' = 1
    /\ last_block_hash' = Tip
    /\ mutable' = FALSE
    /\ retrying' = NoBlock
    /\ UNCHANGED blocks
-----------------------------------------------------------------------------
Init ==
    /\ blocks = Empty
    /\ wal = Empty
    /\ next_wal_seq = 1
    /\ last_block_hash = NoBlock
    /\ mutable = FALSE
    /\ retrying = NoBlock

Next ==
    \/ \E b \in Block, tip \in 0..MaxTip :
          \/ RollForward(b, tip)
          \/ RollForwardFlushFails(b, tip)
          \/ RollBack(b, tip)
    \/ RetryForward
    \/ Restart

Spec == Init /\ [][Next]_dbVars
-----------------------------------------------------------------------------
\* Types of the tables and of the stage's fields; the heights of the table
\* have no hole.
TypeOK ==
    /\ TipHeight \in Nat
    /\ blocks \in [1..TipHeight -> Block]
    /\ DOMAIN wal \subseteq Nat
    /\ wal \in [DOMAIN wal -> Log]
    /\ next_wal_seq \in Nat \ {0}
    /\ last_block_hash \in Block \cup {NoBlock}
    /\ mutable \in BOOLEAN
    /\ retrying \in Block \cup {NoBlock}

\* BlockByHeightKV is one branch of the block tree, from a child of genesis to
\* its tip, with every block under its own height: no sequence of applies,
\* rollbacks, failed flushes and restarts mixes two forks.  The prev-hash test
\* of apply_block_with_context looks only at the in-memory last_block_hash, so
\* this rests on that field never going stale.
ChainLinked ==
    \A h \in DOMAIN blocks :
        /\ Height[blocks[h]] = h
        /\ Parent[blocks[h]] = IF h = 1 THEN Genesis ELSE blocks[h - 1]

\* The last hash that apply compares against is the tip of the table, except
\* while a block whose flush failed waits for its retry: then it is the parent
\* of the tip, so that the retry passes the prev-hash test.
LastHashIsTip ==
    IF retrying = NoBlock
    THEN last_block_hash = Tip
    ELSE /\ Tip = retrying
         /\ last_block_hash = IF Parent[retrying] = Genesis
                              THEN NoBlock ELSE Parent[retrying]

\* The newest entry a mutable stage has logged.
WalTop == IF retrying = NoBlock THEN next_wal_seq - 1 ELSE next_wal_seq

\* The log has no gap and ends right below the next number to be written, so a
\* stream that consumed its last entry waits for exactly the number the next
\* operation writes; before the mutable window the log is empty.
WalContiguous ==
    IF mutable
    THEN /\ WalTop \in DOMAIN wal
         /\ \A k \in DOMAIN wal : k <= WalTop /\ k..WalTop \subseteq DOMAIN wal
    ELSE DOMAIN wal = {}

\* Which entry may follow which: a client that has consumed e is at e.block
\* after an Apply or a Mark, and after an Undo at the parent of e.block.
PointAfter(e) == IF e.kind = "Undo" THEN Parent[e.block] ELSE e.block

Follows(f, e) ==
    IF f.kind = "Apply"
    THEN e.kind # "Undo" /\ Parent[f.block] = PointAfter(e)
    ELSE f.block = PointAfter(e)

\* The log is a walk over the block tree: each entry continues the one before
\* it, a run of Undo entries always ends in a Mark, and the last entry is the
\* tip of the table (an Apply while that block waits for its retry).  A stream
\* that follows the log therefore never delivers a block its client cannot
\* apply.
WalLinked ==
    /\ \A k \in DOMAIN wal : k + 1 \in DOMAIN wal => Follows(wal[k + 1], wal[k])
    /\ mutable => wal[WalTop].kind # "Undo" /\ wal[WalTop].block = Tip
    /\ mutable /\ retrying # NoBlock => wal[WalTop].kind = "Apply"
-----------------------------------------------------------------------------
\* The newest block of the table; the genesis block when it is empty.
Position == IF TipHeight = 0 THEN Genesis ELSE Tip

Follower == INSTANCE ChainFollower WITH at <- Position

\* The database implements the abstract follower: its tip moves only along a
\* branch of the tree, in applies, in rollbacks of any depth, in retries of a
\* failed flush and across restarts.
FollowsOneBranch == Follower!Following
=============================================================================
