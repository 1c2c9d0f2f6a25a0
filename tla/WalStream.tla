------------------------------ MODULE WalStream ------------------------------
(***************************************************************************)
(* A gRPC stream of chain updates over the log of ChainDB: the look-up of  *)
(* the client's intersect, then stream_mutable, which reads the log through *)
(* RocksDB iterators (each a snapshot of the log at its creation) and       *)
(* sleeps on the database's Notify between two of them.  The roll stage     *)
(* runs concurrently: it may commit, prune, roll back or restart between    *)
(* any two steps of the stream.                                             *)
(***************************************************************************)
EXTENDS ChainDB

CONSTANT NoSeq

VARIABLES phase,     \* off, created, reading, waiting, woken or failed
          last_seq,  \* stream_mutable's last_seq
          iter,      \* what the current iterator has still to return
          view       \* the block the client is at

streamVars == <<phase, last_seq, iter, view>>
vars == <<dbVars, streamVars>>

LeastKey(S) == CHOOSE k \in S : \A j \in S : k <= j
-----------------------------------------------------------------------------
\* find_wal_seq scans from the start of the log.  It returns the first entry
\* that applies or marks the point, and gives up at an entry in stops.
Intersects(e, b) == e.kind # "Undo" /\ e.block = b

ScanUntilOr(w, b, stops) ==
    LET hits  == {k \in DOMAIN w : Intersects(w[k], b)}
        first == LeastKey(hits)
    IN  IF hits # {} /\ \A k \in stops : first <= k THEN first ELSE NoSeq

FindWalSeq(w, b) ==
    ScanUntilOr(w, b, {k \in DOMAIN w : Height[w[k].block] >= Height[b]})

Found(b) == FindWalSeq(wal, b) # NoSeq

\* stream_updates_with_context for one intersect; NotFound changes nothing.
\* The iterator is created when the response stream is first polled.
Subscribe(b) ==
    /\ phase \in {"off", "failed"}
    /\ Found(b)
    /\ phase' = "created"
    /\ last_seq' = FindWalSeq(wal, b)
    /\ view' = b
    /\ UNCHANGED <<iter, dbVars>>

\* (variant) one entry per wake-up
IterOne(seq) ==
    LET S == {k \in DOMAIN wal : k > seq}
    IN  IF S = {} THEN Empty ELSE Retain(wal, {LeastKey(S)})

\* A new iterator from last_seq whose first entry is skipped unseen.
IterFrom(seq) ==
    LET S == {k \in DOMAIN wal : k >= seq}
    IN  IF S = {} THEN Empty ELSE Retain(wal, S \ {LeastKey(S)})

Iterate ==
    /\ phase \in {"created", "woken"}
    /\ iter' = IterFrom(last_seq)
    /\ phase' = "reading"
    /\ UNCHANGED <<last_seq, view, dbVars>>

\* (variant) whatever comes next in the log is passed on
AnySeq(seq) == TRUE

\* The contiguity test: an iterator that lost entries to pruning is noticed.
Expected(seq) == seq = last_seq + 1

\* One entry is yielded.  The client ignores an Undo, applies an Apply and
\* goes back to a Mark.
Deliver ==
    /\ phase = "reading" /\ DOMAIN iter # {}
    /\ LET k == LeastKey(DOMAIN iter) IN
          /\ Expected(k)
          /\ last_seq' = k
          /\ iter' = Retain(iter, DOMAIN iter \ {k})
          /\ view' = IF iter[k].kind = "Undo" THEN view ELSE iter[k].block
    /\ UNCHANGED <<phase, dbVars>>

CloseOnGap ==
    /\ phase = "reading" /\ DOMAIN iter # {}
    /\ ~Expected(LeastKey(DOMAIN iter))
    /\ phase' = "failed"
    /\ iter' = Empty
    /\ UNCHANGED <<last_seq, view, dbVars>>

\* The iterator is exhausted: notifier.notified().await registers the waiter.
Await ==
    /\ phase = "reading" /\ DOMAIN iter = {}
    /\ phase' = "waiting"
    /\ UNCHANGED <<last_seq, iter, view, dbVars>>

Disconnect ==
    /\ phase \notin {"off", "failed"}
    /\ phase' = "off" /\ iter' = Empty
    /\ UNCHANGED <<last_seq, view, dbVars>>

\* notify_waiters wakes the waiters that are registered at that moment.
NotifyWaiters == phase' = IF phase = "waiting" THEN "woken" ELSE phase

Roll ==
    \/ /\ \/ \E b \in Block, tip \in 0..MaxTip : RollForward(b, tip) \/ RollBack(b, tip)
          \/ RetryForward
       /\ NotifyWaiters
       /\ UNCHANGED <<last_seq, iter, view>>
    \/ /\ \E b \in Block, tip \in 0..MaxTip : RollForwardFlushFails(b, tip)
       /\ UNCHANGED streamVars

RestartAll ==
    /\ Restart
    /\ phase' = "off" /\ iter' = Empty
    /\ UNCHANGED <<last_seq, view>>
-----------------------------------------------------------------------------
StreamInit ==
    /\ Init
    /\ phase = "off" /\ last_seq = 0 /\ iter = Empty /\ view = Genesis

StreamStep == Iterate \/ Deliver \/ CloseOnGap \/ Await

StreamNext ==
    \/ \E b \in Block : Subscribe(b)
    \/ StreamStep
    \/ Disconnect
    \/ Roll
    \/ RestartAll

\* The server keeps polling an open stream; nothing is promised of the node,
\* of the roll stage or of the client.
StreamSpec == StreamInit /\ [][StreamNext]_vars /\ WF_vars(StreamStep)
-----------------------------------------------------------------------------
Open == phase \in {"created", "reading", "waiting", "woken"}

\* What a client receives it can use: a delivered Apply is a child of the block
\* the client is at, and a delivered Undo or Mark is that block or an ancestor,
\* although the roll stage may prune or roll back between the look-up of the
\* intersect, the creation of an iterator and each delivery.
DeliveriesApply ==
    [][phase = "reading" /\ last_seq' # last_seq =>
         LET e == iter[last_seq'] IN
         IF e.kind = "Apply" THEN Parent[e.block] = view
         ELSE Follower!Below(e.block, view)]_vars

\* A stream that a commit has woken delivers everything the log held at that
\* moment, or ends: nothing a wake-up announced stays undelivered.
WokenCatchesUp ==
    \A k \in 1..MaxSeq :
        phase = "woken" /\ k \in DOMAIN wal ~> last_seq >= k \/ ~Open

\* The intersect is found wherever the rule in find_wal_seq's comment finds it:
\* the scan exits early at an entry that is higher than the point.
DocumentedFind(w, b) ==
    ScanUntilOr(w, b, {k \in DOMAIN w : Height[w[k].block] > Height[b]})

FindAsDocumented ==
    \A b \in Block : FindWalSeq(wal, b) = DocumentedFind(wal, b)

\* An entry that is in the log while a stream is open reaches the client, or
\* the stream ends.
EveryUpdateDelivered ==
    \A k \in 1..MaxSeq :
        Open /\ k \in DOMAIN wal ~> last_seq >= k \/ ~Open
=============================================================================
