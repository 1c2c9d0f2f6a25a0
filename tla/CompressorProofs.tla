-------------------------- MODULE CompressorProofs ---------------------------
(***************************************************************************)
(* TLAPS proofs about the two sides of ChainDB, for every block tree,       *)
(* window, flush period, page size, queue size and number of failures: the  *)
(* streams that read it (WalStream) and the pipeline that feeds it (Sync).  *)
(***************************************************************************)
EXTENDS WalStream, Sync, ChainDBProofs, BlockTreeProofs

-----------------------------------------------------------------------------
(* A stream delivers only what its client can apply.  The invariant speaks  *)
(* of the entry that the client consumed last, which the roll stage may     *)
(* have pruned since: what is left of the log, and what is left of the      *)
(* iterator's snapshot of it, continue that entry, and the two agree        *)
(* wherever they overlap.                                                   *)

StreamTypes ==
    /\ phase \in {"off", "created", "reading", "waiting", "woken", "failed"}
    /\ last_seq \in Nat /\ view \in Node
    /\ DOMAIN iter \subseteq Nat /\ iter \in [DOMAIN iter -> Log]
    /\ phase # "reading" => DOMAIN iter = {}

\* What the iterator still holds is part of the log, as far as the log still
\* has it, and the log goes on from there.
IterAgrees ==
    \A k \in DOMAIN iter :
        /\ last_seq < k /\ k <= WalTop
        /\ k \in DOMAIN wal => wal[k] = iter[k]
        /\ k + 1 \in DOMAIN wal => Follows(wal[k + 1], iter[k])
        /\ k + 1 \in DOMAIN iter => Follows(iter[k + 1], iter[k])

\* The client consumed e last, and what comes next continues e.
Consumed(e) ==
    /\ e.kind # "Undo" => view = e.block
    /\ Follower!Below(PointAfter(e), view)
    /\ last_seq \in DOMAIN wal => wal[last_seq] = e
    /\ last_seq + 1 \in DOMAIN wal => Follows(wal[last_seq + 1], e)
    /\ last_seq + 1 \in DOMAIN iter => Follows(iter[last_seq + 1], e)

SInv ==
    /\ IInv /\ StreamTypes /\ IterAgrees
    /\ Open => mutable /\ last_seq <= WalTop /\ \E e \in Log : Consumed(e)
-----------------------------------------------------------------------------
\* A block is on its own branch.
LEMMA BelowSelf ==
    ASSUME NEW b \in Node
    PROVE  Follower!Below(b, b)
<1>1. Height[b] \in Nat
    BY TreeAssumption
<1>2. {b} \in SUBSET {x \in Node : Height[b] <= Height[x] /\ Height[x] <= Height[b]}
    BY <1>1
<1>3. Follower!Segment({b}, b, b)
    BY DEF Follower!Segment
<1> QED
    BY <1>2, <1>3 DEF Follower!Below, Follower!Node, Node

\* The parent of an ancestor is an ancestor.
LEMMA BelowParent ==
    ASSUME NEW a \in Block, NEW b \in Node, Follower!Below(a, b)
    PROVE  Follower!Below(Parent[a], b)
<1>1. PICK S \in SUBSET {x \in Node : Height[a] <= Height[x] /\ Height[x] <= Height[b]} :
              Follower!Segment(S, a, b)
    BY DEF Follower!Below, Follower!Node, Node
<1> DEFINE p == Parent[a]
           T == S \cup {p}
<1>2. /\ p \in Node /\ Height[p] \in Nat /\ Height[a] = Height[p] + 1
      /\ Height[b] \in Nat
    BY ParentHeight, TreeAssumption
<1>3. a \in S /\ b \in S /\ Height[a] <= Height[b]
    BY <1>1 DEF Follower!Segment
<1>4. \A x \in S : x \in Node /\ Height[x] \in Nat /\ Height[a] <= Height[x]
                     /\ Height[x] <= Height[b]
    BY TreeAssumption
<1>5. T \in SUBSET {x \in Node : Height[p] <= Height[x] /\ Height[x] <= Height[b]}
    <2>1. ASSUME NEW x \in T
          PROVE  x \in Node /\ Height[p] <= Height[x] /\ Height[x] <= Height[b]
        <3>1. CASE x = p
            BY <1>2, <1>3, <3>1
        <3>2. CASE x \in S
            BY <1>2, <1>4, <3>2
        <3> QED
            BY <3>1, <3>2
    <2> QED
        BY <2>1
<1>6. Follower!Segment(T, p, b)
    <2>1. \A x \in T : Height[x] = Height[p] => x = p
        BY <1>2, <1>4
    <2>2. \A x \in T \ {p} : Parent[x] \in T
        BY <1>1 DEF Follower!Segment
    <2> QED
        BY <1>3, <2>1, <2>2 DEF Follower!Segment
<1> HIDE DEF T
<1> QED
    BY <1>5, <1>6 DEF Follower!Below, Follower!Node, Node

\* The least key of a non-empty set of numbers is one of them.
LEMMA LeastKeyOf ==
    ASSUME NEW S \in SUBSET Nat, S # {}
    PROVE  LeastKey(S) \in S /\ \A j \in S : LeastKey(S) <= j
    BY LeastNumber, Zenon DEF LeastKey

\* Where an entry leaves the client is a block of the tree.
LEMMA PointAfterType ==
    ASSUME NEW e \in Log
    PROVE  e.block \in Block /\ PointAfter(e) \in Node
    BY ParentHeight DEF Log, PointAfter, Node
-----------------------------------------------------------------------------
\* Every step of the database with a stream is a step of the database.
LEMMA StreamStepIsDbStep ==
    ASSUME [StreamNext]_vars
    PROVE  [Next]_dbVars /\ (~RestartAll => UNCHANGED dbVars \/ Roll)
<1>1. CASE Roll
    BY <1>1 DEF Roll, Next
<1>2. CASE RestartAll
    BY <1>2 DEF RestartAll, Next
<1>3. CASE \/ \E b \in Block : Subscribe(b)
           \/ StreamStep \/ Disconnect \/ UNCHANGED vars
    <2>1. UNCHANGED dbVars
        BY <1>3 DEF Subscribe, StreamStep, Iterate, Deliver, CloseOnGap, Await, Disconnect, vars
    <2> QED
        BY <2>1
<1> QED
    BY <1>1, <1>2, <1>3 DEF StreamNext

\* The database that streams read is the database of ChainDB: streams never
\* change it, so every theorem about ChainDB holds beside them.
THEOREM StreamsOnlyRead == StreamSpec => Spec
<1>1. StreamInit => Init
    BY DEF StreamInit
<1>2. [StreamNext]_vars => [Next]_dbVars
    BY StreamStepIsDbStep
<1> QED
    BY <1>1, <1>2, PTL DEF StreamSpec, Spec
-----------------------------------------------------------------------------
\* No stream is open at first.
LEMMA StreamInitSInv == StreamInit => SInv
<1> SUFFICES ASSUME StreamInit PROVE SInv
    OBVIOUS
<1>1. IInv
    BY InitIInv DEF StreamInit
<1>2. DOMAIN iter = {} /\ iter \in [{} -> Log]
    BY DEF StreamInit, Empty
<1>3. StreamTypes
    BY <1>2 DEF StreamInit, StreamTypes, Node
<1> QED
    BY <1>1, <1>2, <1>3 DEF StreamInit, SInv, IterAgrees, Open

\* stream_updates_with_context finds the intersect in the log: the client is at
\* the block of that entry.
LEMMA SubscribeSInv ==
    ASSUME SInv, NEW b \in Block, Subscribe(b)
    PROVE  SInv'
<1> DEFINE hits == {k \in DOMAIN wal : Intersects(wal[k], b)}
           k    == LeastKey(hits)
<1>1. /\ IInv /\ DOMAIN wal \subseteq Nat /\ wal \in [DOMAIN wal -> Log]
      /\ DOMAIN iter = {}
    BY DEF SInv, StreamTypes, Subscribe, IInv, TypeOK
<1>2. hits # {} /\ last_seq' = k
    BY DEF Subscribe, Found, FindWalSeq, ScanUntilOr
<1>3. k \in hits
    <2> HIDE DEF hits
    <2>1. hits \in SUBSET Nat
        BY <1>1 DEF hits
    <2> QED
        BY <1>2, <2>1, LeastKeyOf
<1> HIDE DEF k
<1>4. k \in DOMAIN wal /\ k \in Nat /\ wal[k] \in Log
      /\ wal[k].kind # "Undo" /\ wal[k].block = b
    BY <1>1, <1>3 DEF Intersects
<1>5. UNCHANGED <<dbVars, iter>> /\ view' = b /\ phase' = "created"
    BY DEF Subscribe
<1>6. IInv' /\ WalTop' = WalTop /\ wal' = wal /\ mutable' = mutable
    BY <1>1, <1>5, NextIInv DEF dbVars, WalTop
<1>7. mutable
    BY <1>1, <1>4 DEF IInv, WalContiguous
<1>8. k <= WalTop
    BY <1>1, <1>4, <1>7, NewestEntry
<1>9. PICK e \in Log : e = wal[k]
    BY <1>4
<1>10. Consumed(e)'
    <2>1. Follower!Below(PointAfter(e), b)
        BY <1>4, <1>9, BelowSelf, Zenon DEF PointAfter, Node
    <2>2. k + 1 \in DOMAIN wal => Follows(wal[k + 1], e)
        BY <1>1, <1>4, <1>9, Zenon DEF IInv, WalLinked
    <2> QED
        BY <1>1, <1>2, <1>4, <1>5, <1>6, <1>9, <2>1, <2>2 DEF Consumed
<1>11. StreamTypes'
    BY <1>1, <1>2, <1>4, <1>5 DEF StreamTypes, SInv, Node
<1>12. IterAgrees'
    BY <1>1, <1>5 DEF IterAgrees
<1> QED
    BY <1>2, <1>6, <1>7, <1>8, <1>10, <1>11, <1>12 DEF SInv

\* stream_mutable opens an iterator: a snapshot of the log above last_seq.
LEMMA IterateSInv ==
    ASSUME SInv, Iterate
    PROVE  SInv'
<1> DEFINE S == {k \in DOMAIN wal : k >= last_seq}
<1>1. /\ IInv /\ StreamTypes /\ DOMAIN wal \subseteq Nat /\ wal \in [DOMAIN wal -> Log]
      /\ last_seq \in Nat /\ Open
    BY DEF SInv, StreamTypes, IInv, TypeOK, Iterate, Open
<1>2. UNCHANGED <<dbVars, last_seq, view>> /\ phase' = "reading" /\ iter' = IterFrom(last_seq)
    BY DEF Iterate
<1>3. IInv' /\ WalTop' = WalTop /\ wal' = wal /\ mutable' = mutable
    BY <1>1, <1>2, NextIInv DEF dbVars, WalTop
<1>4. mutable /\ last_seq <= WalTop
    BY <1>1 DEF SInv
<1>5. PICK e \in Log : Consumed(e)
    BY <1>1 DEF SInv
<1>6. ASSUME NEW k \in DOMAIN iter'
      PROVE  k \in DOMAIN wal /\ k \in Nat /\ last_seq < k /\ iter'[k] = wal[k]
    <2>1. S \in SUBSET Nat
        BY <1>1
    <2>2. S # {} /\ iter' = Retain(wal, S \ {LeastKey(S)})
        BY <1>2, <1>6 DEF IterFrom, Empty
    <2>3. LeastKey(S) \in S /\ \A j \in S : LeastKey(S) <= j
        <3> HIDE DEF S
        <3> QED
            BY <2>1, <2>2, LeastKeyOf
    <2>4. k \in S /\ k # LeastKey(S) /\ iter'[k] = wal[k]
        BY <1>6, <2>2 DEF Retain
    <2>5. LeastKey(S) \in Nat /\ LeastKey(S) >= last_seq /\ LeastKey(S) <= k /\ k \in Nat
        BY <2>1, <2>3, <2>4
    <2> HIDE DEF S
    <2>6. k \in DOMAIN wal
        BY <2>4 DEF S
    <2> QED
        BY <1>1, <2>4, <2>5, <2>6
<1>7. StreamTypes'
    <2>1. iter' = [x \in DOMAIN iter' |-> iter'[x]]
        BY <1>2, Zenon DEF IterFrom, Retain, Empty
    <2>2. \A k \in DOMAIN iter' : k \in Nat /\ iter'[k] \in Log
        BY <1>1, <1>6
    <2>3. iter' \in [DOMAIN iter' -> Log] /\ DOMAIN iter' \subseteq Nat
        BY <2>1, <2>2
    <2> QED
        BY <1>1, <1>2, <2>3 DEF StreamTypes
<1>8. IterAgrees'
    <2> SUFFICES ASSUME NEW k \in DOMAIN iter'
                 PROVE  /\ last_seq < k /\ k <= WalTop
                        /\ k \in DOMAIN wal => wal[k] = iter'[k]
                        /\ k + 1 \in DOMAIN wal => Follows(wal[k + 1], iter'[k])
                        /\ k + 1 \in DOMAIN iter' => Follows(iter'[k + 1], iter'[k])
        BY <1>2, <1>3 DEF IterAgrees
    <2>1. k \in DOMAIN wal /\ last_seq < k /\ iter'[k] = wal[k] /\ k <= WalTop
        BY <1>1, <1>4, <1>6, NewestEntry
    <2>2. k + 1 \in DOMAIN wal => Follows(wal[k + 1], wal[k])
        BY <1>1, <2>1 DEF IInv, WalLinked
    <2>3. k + 1 \in DOMAIN iter' => k + 1 \in DOMAIN wal /\ iter'[k + 1] = wal[k + 1]
        BY <1>6, Zenon
    <2> QED
        BY <2>1, <2>2, <2>3, Zenon
<1>9. Consumed(e)'
    <2>1. last_seq + 1 \in DOMAIN iter' => /\ last_seq + 1 \in DOMAIN wal
                                            /\ iter'[last_seq + 1] = wal[last_seq + 1]
        BY <1>6
    <2> QED
        BY <1>2, <1>3, <1>5, <2>1 DEF Consumed
<1> QED
    BY <1>2, <1>3, <1>4, <1>7, <1>8, <1>9 DEF SInv

\* What a delivered entry finds: it continues the entry the client consumed last.
LEMMA DeliveredContinues ==
    ASSUME SInv, Deliver
    PROVE  /\ last_seq' = last_seq + 1 /\ last_seq' \in DOMAIN iter
           /\ iter[last_seq'] \in Log
           /\ iter[last_seq'].kind = "Apply" => Parent[iter[last_seq'].block] = view
           /\ iter[last_seq'].kind # "Apply" => Follower!Below(iter[last_seq'].block, view)
<1>1. /\ last_seq \in Nat /\ DOMAIN iter \in SUBSET Nat /\ DOMAIN iter # {} /\ Open
      /\ iter \in [DOMAIN iter -> Log]
    BY DEF SInv, StreamTypes, Deliver, Open
<1>2. LeastKey(DOMAIN iter) \in DOMAIN iter
    BY <1>1, LeastKeyOf
<1>3. last_seq' = last_seq + 1 /\ last_seq' \in DOMAIN iter /\ iter[last_seq'] \in Log
    BY <1>1, <1>2 DEF Deliver, Expected
<1>4. PICK e \in Log : Consumed(e)
    BY <1>1 DEF SInv
<1>5. Follows(iter[last_seq'], e)
    BY <1>3, <1>4, Zenon DEF Consumed
<1>6. CASE iter[last_seq'].kind = "Apply"
    BY <1>3, <1>4, <1>5, <1>6 DEF Consumed, Follows, PointAfter
<1>7. CASE iter[last_seq'].kind # "Apply"
    BY <1>3, <1>4, <1>5, <1>7 DEF Consumed, Follows
<1> QED
    BY <1>3, <1>6, <1>7

\* An entry is yielded: it becomes the one the client consumed last.
LEMMA DeliverSInv ==
    ASSUME SInv, Deliver
    PROVE  SInv'
<1> DEFINE k == last_seq + 1
<1>1. /\ IInv /\ StreamTypes /\ IterAgrees /\ last_seq \in Nat /\ Open /\ view \in Node
      /\ DOMAIN iter \subseteq Nat /\ iter \in [DOMAIN iter -> Log]
    BY DEF SInv, StreamTypes, Deliver, Open
<1>2. /\ k \in DOMAIN iter /\ iter[k] \in Log /\ last_seq' = k
      /\ iter[k].kind # "Apply" => Follower!Below(iter[k].block, view)
    BY DeliveredContinues
<1>3. /\ UNCHANGED <<dbVars, phase>> /\ iter' = Retain(iter, DOMAIN iter \ {k})
      /\ view' = IF iter[k].kind = "Undo" THEN view ELSE iter[k].block
      /\ \A j \in DOMAIN iter : k <= j
    <2>1. LeastKey(DOMAIN iter) = k
        BY <1>2 DEF Deliver
    <2>2. \A j \in DOMAIN iter : LeastKey(DOMAIN iter) <= j
        BY <1>1, <1>2, LeastKeyOf
    <2> QED
        BY <2>1, <2>2 DEF Deliver
<1>4. IInv' /\ WalTop' = WalTop /\ wal' = wal /\ mutable' = mutable
    BY <1>1, <1>3, NextIInv DEF dbVars, WalTop
<1>5. /\ DOMAIN iter' = DOMAIN iter \ {k}
      /\ \A j \in DOMAIN iter' : iter'[j] = iter[j]
      /\ iter' \in [DOMAIN iter' -> Log]
    BY <1>1, <1>3 DEF Retain
<1>6. mutable /\ k <= WalTop
    BY <1>1, <1>2 DEF SInv, IterAgrees
<1>7. view' \in Node
    BY <1>1, <1>2, <1>3, PointAfterType DEF Node
<1>8. StreamTypes'
    BY <1>1, <1>2, <1>3, <1>5, <1>7 DEF StreamTypes, Deliver
<1>9. IterAgrees'
    <2> SUFFICES ASSUME NEW j \in DOMAIN iter'
                 PROVE  /\ k < j /\ j <= WalTop
                        /\ j \in DOMAIN wal => wal[j] = iter'[j]
                        /\ j + 1 \in DOMAIN wal => Follows(wal[j + 1], iter'[j])
                        /\ j + 1 \in DOMAIN iter' => Follows(iter'[j + 1], iter'[j])
        BY <1>2, <1>4 DEF IterAgrees
    <2>1. j \in DOMAIN iter /\ k < j /\ iter'[j] = iter[j]
        BY <1>1, <1>3, <1>5
    <2>2. j + 1 \in DOMAIN iter' => j + 1 \in DOMAIN iter /\ iter'[j + 1] = iter[j + 1]
        BY <1>5
    <2> QED
        BY <1>1, <2>1, <2>2 DEF IterAgrees
<1>10. PICK e \in Log : e = iter[k]
    BY <1>2, Zenon
<1>11. Consumed(e)'
    <2>1. e.kind # "Undo" => view' = e.block
        BY <1>3, <1>10
    <2>2. Follower!Below(PointAfter(e), view')
        <3>1. CASE e.kind = "Undo"
            <4>1. Follower!Below(e.block, view) /\ view' = view
                BY <1>2, <1>3, <1>10, <3>1
            <4> QED
                BY <1>1, <3>1, <4>1, BelowParent, PointAfterType DEF PointAfter
        <3>2. CASE e.kind # "Undo"
            BY <1>7, <2>1, <3>2, BelowSelf, Zenon DEF PointAfter
        <3> QED
            BY <3>1, <3>2
    <2>3. /\ k \in DOMAIN wal => wal[k] = e
          /\ k + 1 \in DOMAIN wal => Follows(wal[k + 1], e)
          /\ k + 1 \in DOMAIN iter' => Follows(iter'[k + 1], e)
        BY <1>1, <1>2, <1>5, <1>10, Zenon DEF IterAgrees
    <2> QED
        BY <1>2, <1>4, <2>1, <2>2, <2>3 DEF Consumed
<1> QED
    BY <1>2, <1>4, <1>6, <1>8, <1>9, <1>11 DEF SInv

\* The stream waits, ends or is left: what it has consumed stays what it was.
LEMMA IdleSInv ==
    ASSUME SInv, CloseOnGap \/ Await \/ Disconnect \/ UNCHANGED vars
    PROVE  SInv'
<1>1. IInv /\ StreamTypes /\ IterAgrees
    BY DEF SInv
<1>2. UNCHANGED <<dbVars, last_seq, view>>
    BY DEF CloseOnGap, Await, Disconnect, vars, streamVars
<1>3. IInv' /\ WalTop' = WalTop /\ wal' = wal /\ mutable' = mutable
    BY <1>1, <1>2, NextIInv DEF dbVars, WalTop
<1>4. /\ iter' = iter \/ iter' = Empty
      /\ iter' = iter \/ phase' \in {"off", "failed"}
      /\ phase' \in {phase, "off", "failed", "waiting"}
      /\ phase' \in {"off", "failed"} => iter' = Empty \/ phase' = phase
      /\ phase' = "waiting" => Open /\ (phase # "waiting" => DOMAIN iter = {})
    BY DEF CloseOnGap, Await, Disconnect, vars, streamVars, Open
<1>5. DOMAIN Empty = {} /\ Empty \in [{} -> Log]
    BY DEF Empty
<1>6. StreamTypes'
    <2>1. DOMAIN iter' \subseteq Nat /\ iter' \in [DOMAIN iter' -> Log]
        BY <1>1, <1>4, <1>5, Zenon DEF StreamTypes
    <2>2. phase' # "reading" => DOMAIN iter' = {}
        BY <1>1, <1>4, <1>5 DEF StreamTypes
    <2>3. phase' \in {"off", "created", "reading", "waiting", "woken", "failed"}
        BY <1>1, <1>4 DEF StreamTypes
    <2> QED
        BY <1>1, <1>2, <2>1, <2>2, <2>3 DEF StreamTypes
<1>7. IterAgrees'
    <2>1. CASE iter' = iter
        BY <1>1, <1>2, <1>3, <2>1 DEF IterAgrees
    <2>2. CASE iter' = Empty
        BY <1>5, <2>2 DEF IterAgrees
    <2> QED
        BY <1>4, <2>1, <2>2
<1>8. ASSUME Open' PROVE mutable' /\ last_seq' <= WalTop' /\ \E e \in Log : Consumed(e)'
    <2>1. Open /\ iter' = iter
        BY <1>4, <1>8 DEF Open
    <2>2. PICK e \in Log : Consumed(e)
        BY <2>1, Zenon DEF SInv
    <2>3. Consumed(e)'
        BY <1>2, <1>3, <2>1, <2>2, Zenon DEF Consumed
    <2> QED
        BY <1>2, <1>3, <2>1, <2>3 DEF SInv
<1> QED
    BY <1>3, <1>6, <1>7, <1>8 DEF SInv

\* The roll stage commits while the stream reads, waits or has been woken.
LEMMA RollSInv ==
    ASSUME SInv, Roll
    PROVE  SInv'
<1>1. IInv /\ StreamTypes /\ IterAgrees /\ last_seq \in Nat
    BY DEF SInv, StreamTypes
<1>2. [Next]_dbVars /\ UNCHANGED <<last_seq, iter, view>>
    BY DEF Roll, Next, streamVars
<1>3. IInv'
    BY <1>1, <1>2, NextIInv
<1>4. phase' = phase \/ (phase = "waiting" /\ phase' = "woken")
    BY DEF Roll, NotifyWaiters, streamVars
<1>5. StreamTypes'
    BY <1>1, <1>2, <1>4 DEF StreamTypes
<1>6. Open' => Open
    BY <1>4, Zenon DEF Open
<1>7. CASE ~Open
    BY <1>1, <1>2, <1>3, <1>5, <1>6, <1>7 DEF SInv, StreamTypes, IterAgrees, Open
<1>8. CASE Open
    <2>1. mutable /\ last_seq <= WalTop /\ WalTop \in DOMAIN wal /\ WalTop \in Nat
        BY <1>1, <1>8, NewestEntry DEF SInv
    <2>2. LogGrows
        BY <1>1, <2>1, StepGrows DEF Roll
    <2>3. WalTop' \in Nat /\ WalTop <= WalTop'
        BY <1>3, <2>2, NewestEntry DEF LogGrows, IInv, TypeOK, WalTop
    <2>4. ASSUME NEW n \in Nat, n <= WalTop, NEW e \in Log,
                 n \in DOMAIN wal => wal[n] = e,
                 n + 1 \in DOMAIN wal => Follows(wal[n + 1], e)
          PROVE  /\ n \in DOMAIN wal' => wal'[n] = e
                 /\ n + 1 \in DOMAIN wal' => Follows(wal'[n + 1], e)
        <3>1. CASE n = WalTop
            BY <2>1, <2>2, <2>4, <3>1 DEF LogGrows
        <3>2. CASE n # WalTop
            <4>1. n + 1 <= WalTop
                BY <2>1, <2>4, <3>2
            <4> QED
                BY <2>2, <2>4, <4>1 DEF LogGrows
        <3> QED
            BY <3>1, <3>2
    <2>5. IterAgrees'
        <3> SUFFICES ASSUME NEW k \in DOMAIN iter
                     PROVE  /\ last_seq < k /\ k <= WalTop'
                            /\ k \in DOMAIN wal' => wal'[k] = iter[k]
                            /\ k + 1 \in DOMAIN wal' => Follows(wal'[k + 1], iter[k])
                            /\ k + 1 \in DOMAIN iter => Follows(iter[k + 1], iter[k])
            BY <1>2 DEF IterAgrees
        <3>1. k \in Nat /\ iter[k] \in Log
            BY <1>1 DEF StreamTypes
        <3>2. /\ last_seq < k /\ k <= WalTop
              /\ k \in DOMAIN wal => wal[k] = iter[k]
              /\ k + 1 \in DOMAIN wal => Follows(wal[k + 1], iter[k])
              /\ k + 1 \in DOMAIN iter => Follows(iter[k + 1], iter[k])
            BY <1>1 DEF IterAgrees
        <3>3. k <= WalTop'
            BY <2>1, <2>3, <3>1, <3>2
        <3> QED
            BY <2>4, <3>1, <3>2, <3>3
    <2>6. PICK e \in Log : Consumed(e)
        BY <1>8, Zenon DEF SInv
    <2>7. Consumed(e)'
        <3>1. /\ last_seq \in DOMAIN wal' => wal'[last_seq] = e
              /\ last_seq + 1 \in DOMAIN wal' => Follows(wal'[last_seq + 1], e)
            BY <1>1, <2>1, <2>4, <2>6 DEF Consumed
        <3> QED
            BY <1>2, <2>6, <3>1 DEF Consumed
    <2>8. mutable' /\ last_seq' <= WalTop'
        BY <1>1, <1>2, <2>1, <2>2, <2>3 DEF LogGrows
    <2> QED
        BY <1>3, <1>5, <2>5, <2>7, <2>8 DEF SInv
<1> QED
    BY <1>7, <1>8

\* A restart of the process closes the stream.
LEMMA RestartSInv ==
    ASSUME SInv, RestartAll
    PROVE  SInv'
<1>1. IInv'
    BY RestartLemma DEF SInv, RestartAll
<1>2. DOMAIN iter' = {} /\ iter' \in [{} -> Log]
    BY DEF RestartAll, Empty
<1>3. phase' = "off" /\ last_seq' = last_seq /\ view' = view
    BY DEF RestartAll
<1>4. StreamTypes'
    BY <1>2, <1>3 DEF SInv, StreamTypes
<1> QED
    BY <1>1, <1>2, <1>3, <1>4, Zenon DEF SInv, IterAgrees, Open

\* Streams, the roll stage and restarts together preserve the invariant.
LEMMA StreamNextSInv == SInv /\ [StreamNext]_vars => SInv'
    BY SubscribeSInv, IterateSInv, DeliverSInv, IdleSInv, RollSInv, RestartSInv
       DEF StreamNext, StreamStep

\* What a client receives it can use: between the look-up of the intersect, the
\* opening of an iterator and each delivery the roll stage may apply, roll back,
\* retry, prune or restart, and still a delivered Apply is a child of the block
\* the client is at, and a delivered Undo or Mark is that block or an ancestor.
THEOREM ClientCanFollow == StreamSpec => DeliveriesApply
<1> DEFINE Step ==
        phase = "reading" /\ last_seq' # last_seq =>
          LET e == iter[last_seq'] IN
          IF e.kind = "Apply" THEN Parent[e.block] = view
          ELSE Follower!Below(e.block, view)
<1>1. SInv /\ [StreamNext]_vars => [Step]_vars
    <2> SUFFICES ASSUME SInv, [StreamNext]_vars, phase = "reading", last_seq' # last_seq
                 PROVE  Step
        BY Zenon
    <2>1. Deliver
        BY DEF StreamNext, StreamStep, Subscribe, Iterate, CloseOnGap, Await, Disconnect,
               Roll, RestartAll, vars, streamVars
    <2> QED
        BY <2>1, DeliveredContinues, Zenon
<1> QED
    BY <1>1, StreamInitSInv, StreamNextSInv, PTL DEF StreamSpec, DeliveriesApply
-----------------------------------------------------------------------------
(* Every event that reaches the roll stage carries a block and a tip that   *)
(* ChainDB accepts, so the pipeline implements ChainDB and inherits what is *)
(* proved of it.  The three invariants then rest on what is under way: the  *)
(* reports that have not reached the health stage, the locator that the     *)
(* headers answer, and the events that have not reached an empty table.     *)

Event == [kind : {"forward"}, block : Block, tip : 0..MaxTip]
         \cup [kind : {"back"}, block : Node, tip : 0..MaxTip]

Asking == {"schedule", "headers", "new headers", "answered", "waiting",
           "request blocks", "blocks"}

PullTypes ==
    /\ node \in Node /\ pull_tip \in 0..MaxTip
    /\ pc \in {"boot", "connecting", "connected", "send"} \cup Asking
    /\ cursor \in Seq(Node) /\ headers \in Seq(Block)
    /\ units \in Seq(Event) /\ queue \in Seq(Event)

HealthTypes ==
    /\ reports \in Seq(Node \cup {NoBlock})
    /\ report \in Node \cup {NoBlock}

\* The last report under way is the tip of the table.
TipUnderWay ==
    IF retrying # NoBlock THEN report = NoBlock
    ELSE IF report # NoBlock THEN report = Tip
    ELSE IF reports # <<>> THEN reports[Len(reports)] = Tip
    ELSE health = Tip

\* The locator of a session ends in the genesis block, and a page continues it.
LocatorEndsAtGenesis ==
    /\ pc \in Asking \cup {"send"} => cursor # <<>> /\ cursor[Len(cursor)] = Genesis
    /\ pc \in {"answered", "request blocks", "blocks"} /\ headers # <<>>
          => Parent[headers[1]] \in Range(cursor)
    /\ pc \in {"request blocks", "blocks"} => headers # <<>>
    /\ pc = "send" => units # <<>>

Starts(e) == e.kind = "forward" /\ Parent[e.block] = Genesis

\* What an empty table gets first, or will get.
FirstEvent ==
    TipHeight = 0 =>
        IF queue # <<>> THEN Starts(queue[1])
        ELSE /\ pc \in Asking => cursor = <<Genesis>>
             /\ pc \in Asking \ {"schedule"} => units = <<>>
             /\ pc = "send" => Starts(units[1])

SyncInv == PullTypes /\ HealthTypes /\ TipUnderWay /\ LocatorEndsAtGenesis /\ FirstEvent
-----------------------------------------------------------------------------
(* The operators of the pull stage.                                        *)

\* The minimum of a set of numbers is one of them (the first index that a scan
\* of the locator or of the options finds).
LEMMA LeastOf ==
    ASSUME NEW T \in SUBSET Nat, T # {}
    PROVE  Min(T) \in T
    BY LeastNumber, Zenon DEF Min

\* The blocks that intersect_options reads from the table are a sequence of
\* stored blocks: the loop takes a prefix of the indexes.
LEMMA StoredOptionsType ==
    ASSUME IInv
    PROVE  StoredOptions \in Seq(Block) /\ (TipHeight = 0 => StoredOptions = <<>>)
<1> DEFINE back(n) == IF n <= Dense THEN n - 1 ELSE Dense - 3 + 2^(n - Dense + 1)
           used == {n \in 1..TipHeight : \A j \in 1..n : back(j) \in 0..TipHeight - 1}
           unused == {n \in Nat \ {0} : n \notin used}
<1>1. TipHeight \in Nat /\ blocks \in [1..TipHeight -> Block]
    BY DEF IInv, TypeOK
<1>2. StoredOptions = [n \in used |-> blocks[TipHeight - back(n)]]
    BY DEF StoredOptions
<1>3. \A n \in used : \A m \in 1..n : m \in used
    BY <1>1
<1>4. \A n \in used : n \in 1..TipHeight /\ back(n) \in 0..TipHeight - 1
    BY <1>1
<1> HIDE DEF back, used
<1>5. TipHeight + 1 \in unused
    BY <1>1, <1>4
<1>6. PICK k \in unused : \A n \in unused : k <= n
    BY <1>5, LeastNumber, Zenon
<1>7. used = 1..(k - 1)
    <2>1. ASSUME NEW n \in used PROVE n \in 1..(k - 1)
        BY <1>3, <1>4, <1>6, <2>1
    <2>2. ASSUME NEW n \in 1..(k - 1) PROVE n \in used
        BY <1>6, <2>2
    <2> QED
        BY <2>1, <2>2, Zenon
<1>8. ASSUME NEW n \in used PROVE blocks[TipHeight - back(n)] \in Block
    BY <1>1, <1>4
<1>9. StoredOptions \in Seq(Block)
    BY <1>2, <1>6, <1>7, <1>8
<1>10. TipHeight = 0 => used = {}
    BY <1>4
<1>11. TipHeight = 0 => StoredOptions = <<>>
    <2> SUFFICES ASSUME TipHeight = 0 PROVE StoredOptions = <<>>
        OBVIOUS
    <2>1. DOMAIN StoredOptions = {}
        BY <1>2, <1>10
    <2> QED
        BY <1>9, <2>1
<1> QED
    BY <1>9, <1>11

\* What intersect_options answers ends in the genesis block, and is nothing else
\* while the table is empty.
LEMMA OptionsType ==
    ASSUME IInv
    PROVE  /\ IntersectOptions \in Seq(Node) /\ IntersectOptions # <<>>
           /\ IntersectOptions[Len(IntersectOptions)] = Genesis
           /\ TipHeight = 0 => IntersectOptions = <<Genesis>>
<1>1. StoredOptions \in Seq(Node) /\ Genesis \in Node
    BY StoredOptionsType DEF Node
<1>2. /\ IntersectOptions \in Seq(Node) /\ IntersectOptions # <<>>
      /\ IntersectOptions[Len(IntersectOptions)] = Genesis
    BY <1>1 DEF IntersectOptions
<1>3. TipHeight = 0 => IntersectOptions = <<Genesis>>
    <2>1. Append(<<>>, Genesis) = <<Genesis>>
        OBVIOUS
    <2> QED
        BY <2>1, StoredOptionsType DEF IntersectOptions
<1> QED
    BY <1>2, <1>3

\* The cursor that a page leaves behind ends in the genesis block.
LEMMA CursorAfterType ==
    ASSUME IInv, NEW page \in Seq(Block), page # <<>>
    PROVE  /\ CursorAfter(page) \in Seq(Node) /\ CursorAfter(page) # <<>>
           /\ CursorAfter(page)[Len(CursorAfter(page))] = Genesis
<1> DEFINE n == IF Len(page) < Recent THEN Len(page) ELSE Recent
           h == Height[Newest(page)[Len(Newest(page))]]
           lower == {i \in DOMAIN IntersectOptions : Height[IntersectOptions[i]] < h}
<1>1. Len(page) \in Nat \ {0} /\ Recent \in Nat \ {0}
    BY SyncAssumption
<1>2. n \in Nat \ {0} /\ n <= Len(page)
    BY <1>1
<1>3. Newest(page) \in Seq(Block) /\ Len(Newest(page)) = n
    <2>1. \A i \in 1..n : page[Len(page) + 1 - i] \in Block
        BY <1>1, <1>2
    <2> QED
        BY <1>2, <2>1 DEF Newest
<1>4. h \in Nat \ {0}
    <2>1. Newest(page)[n] \in Block
        BY <1>2, <1>3
    <2> QED
        BY <1>3, <2>1, HeightOne
<1>5. OptionsBelow(h) \in Seq(Node)
    <2>1. Len(IntersectOptions) \in lower
        BY <1>4, OptionsType, TreeAssumption
    <2>2. Min(lower) \in lower
        <3>1. lower \in SUBSET Nat
            BY OptionsType
        <3> QED
            BY <2>1, <3>1, LeastOf, Zenon
    <2>3. Min(lower) \in 1..Len(IntersectOptions)
        BY <2>2, OptionsType
    <2>4. OptionsBelow(h) = SubSeq(IntersectOptions, Min(lower), Len(IntersectOptions))
        BY DEF OptionsBelow
    <2> HIDE DEF lower, h
    <2> QED
        BY <2>3, <2>4, OptionsType
<1>6. Newest(page) \in Seq(Node) /\ Genesis \in Node
    BY <1>3 DEF Node
<1> HIDE DEF h
<1>7. Newest(page) \o OptionsBelow(h) \in Seq(Node)
    BY <1>5, <1>6
<1>8. CursorAfter(page) = Append(IF Len(Newest(page)) < Recent
                                 THEN Newest(page) \o OptionsBelow(h)
                                 ELSE Newest(page), Genesis)
    BY DEF CursorAfter, h
<1> QED
    BY <1>6, <1>7, <1>8

\* The node's answer to a locator that ends in the genesis block consists of
\* blocks, the first of which continues a point of the locator.
LEMMA HeadersContinue ==
    ASSUME node \in Node, NEW locator \in Seq(Node), locator # <<>>,
           locator[Len(locator)] = Genesis
    PROVE  /\ HeadersAfter(locator) \in Seq(Block)
           /\ HeadersAfter(locator) # <<>>
                 => Parent[HeadersAfter(locator)[1]] \in Range(locator)
<1> DEFINE active == Chain[node]
           known == {i \in DOMAIN locator : locator[i] \in Range(active)}
           fork == IF known = {} THEN 0 ELSE Height[locator[Min(known)]]
           first == active[fork + 1]
<1>1. /\ active \in Seq(Block) /\ Len(active) = Height[node]
      /\ \A i \in 1..Len(active) :
            /\ Height[active[i]] = i
            /\ Parent[active[i]] = IF i = 1 THEN Genesis ELSE active[i - 1]
    BY ChainIsPath DEF Path
<1>2. HeadersAfter(locator) = SubSeq(active, fork + 1, Height[node])
    BY DEF HeadersAfter
<1> HIDE DEF active
<1>3. Genesis \in Range(locator)
    BY DEF Range
<1>4. fork \in Nat /\ (fork + 1 \in 1..Len(active) => Parent[first] \in Range(locator))
    <2>1. CASE known = {}
        BY <1>1, <1>3, <2>1
    <2>2. CASE known # {}
        <3>1. known \in SUBSET Nat
            OBVIOUS
        <3>2. Min(known) \in known
            BY <2>2, <3>1, LeastOf, Zenon
        <3>3. PICK j \in 1..Len(active) : locator[Min(known)] = active[j]
            <4>1. locator[Min(known)] \in Range(active)
                BY <3>2, Zenon
            <4>2. DOMAIN active = 1..Len(active)
                BY <1>1
            <4> QED
                BY <4>1, <4>2, Zenon DEF Range
        <3>4. locator[Min(known)] \in Range(locator)
            BY <3>2 DEF Range
        <3>5. fork = j
            BY <1>1, <2>2, <3>3
        <3> HIDE DEF fork, known
        <3> QED
            BY <1>1, <3>3, <3>4, <3>5
    <2> QED
        BY <2>1, <2>2, Zenon
<1> HIDE DEF fork
<1>5. HeadersAfter(locator) \in Seq(Block)
    BY <1>1, <1>2, <1>4
<1>6. HeadersAfter(locator) # <<>>
          => fork + 1 \in 1..Len(active) /\ HeadersAfter(locator)[1] = first
    BY <1>1, <1>2, <1>4
<1> QED
    BY <1>4, <1>5, <1>6

\* A page is an initial part of the answer.
LEMMA PageType ==
    ASSUME NEW hs \in Seq(Block)
    PROVE  /\ PageOf(hs) \in Seq(Block)
           /\ PageOf(hs) # <<>> => hs # <<>> /\ PageOf(hs)[1] = hs[1]
<1>1. PageSize \in Nat \ {0}
    BY SyncAssumption
<1> QED
    BY <1>1 DEF PageOf

\* The events that a page becomes: a rollback to the point it continues, when
\* that is not the newest point of the cursor, and its blocks.
LEMMA PageUnits ==
    ASSUME PullTypes, pc \in Asking, LocatorEndsAtGenesis, headers # <<>>
    PROVE  /\ Reorganise \in Seq(Event)
           /\ [i \in 1..Len(headers) |-> ForwardTo(headers[i], TipAt(i))] \in Seq(Event)
           /\ TipAt(Len(headers)) \in 0..MaxTip
<1>1. \A b \in Block : Height[b] \in 0..MaxTip /\ Parent[b] \in Node
    <2> SUFFICES ASSUME NEW b \in Block
                 PROVE  Height[b] \in 0..MaxTip /\ Parent[b] \in Node
        BY Zenon
    <2>1. Height[b] <= MaxTip /\ MaxTip \in Nat
        BY SyncAssumption, ChainDBAssumption
    <2> QED
        BY <2>1, ParentHeight
<1>2. headers \in Seq(Block) /\ pull_tip \in 0..MaxTip /\ Len(headers) \in Nat \ {0}
    BY DEF PullTypes
<1>3. \A i \in 1..Len(headers) : headers[i] \in Block /\ TipAt(i) \in 0..MaxTip
    BY <1>1, <1>2 DEF TipAt
<1>4. \A i \in 1..Len(headers) : ForwardTo(headers[i], TipAt(i)) \in Event
    BY <1>3 DEF ForwardTo, Event
<1>5. BackTo(Parent[headers[1]], pull_tip) \in Event
    BY <1>1, <1>2 DEF BackTo, Event
<1>6. Reorganise \in Seq(Event)
    BY <1>5 DEF Reorganise
<1> QED
    BY <1>2, <1>3, <1>4, <1>6
-----------------------------------------------------------------------------
(* The pipeline drives ChainDB.                                            *)

\* Only the roll stage and a restart of the process write the database.
LEMMA WhoWrites ==
    ASSUME [SyncNext]_syncVars
    PROVE  \/ UNCHANGED <<dbVars, healthVars>>
           \/ UNCHANGED dbVars /\ (RollReports \/ HealthUpdates)
           \/ RollUnit \/ RollRetry \/ RollFlushFails
           \/ ProcessRestart
<1>1. CASE UNCHANGED syncVars
    BY <1>1 DEF syncVars
<1>2. CASE (\E b \in Block : NodeAdvances(b)) \/ IngressFails \/ EgressFails \/ RpcFails
    BY <1>2, Zenon DEF NodeAdvances, IngressFails, EgressFails, RpcFails
<1>3. CASE HandlerStep
    BY <1>3, Zenon DEF HandlerStep, Handshake, RelayHeaders, RelayAnnouncement, HandlerStops
<1>4. CASE PullStep
    BY <1>4, Zenon DEF PullStep, Connect, Bootstrap, RequestHeaders, ReceiveHeaders, Wake,
                RequestBlocks, ReceiveBlocks, Send, PullRestart, PullEnds
<1>5. CASE RollStep
    BY <1>5 DEF RollStep, RollReports, RollEnds
<1>6. CASE HealthUpdates \/ RollFlushFails
    BY <1>6 DEF HealthUpdates
<1>7. CASE PipelineExits \/ Crash
    BY <1>7 DEF PipelineExits, Crash
<1> QED
    BY <1>1, <1>2, <1>3, <1>4, <1>5, <1>6, <1>7, Zenon DEF SyncNext

\* Every step of the pipeline is a step of ChainDB or leaves it alone.
LEMMA SyncStepIsDbStep ==
    ASSUME PullTypes, [SyncNext]_syncVars
    PROVE  [Next]_dbVars
<1>1. CASE UNCHANGED dbVars
    BY <1>1
<1> DEFINE e == Head(queue)
<1>2. queue # <<>> => e \in Event
    BY DEF PullTypes
<1>3. e \in Event => /\ e.tip \in 0..MaxTip
                     /\ e.kind = "forward" => e.block \in Block
                     /\ e.block # Genesis => e.block \in Block
    BY DEF Event, Node
<1> HIDE DEF e
<1>4. CASE RollUnit
    <2>1. queue # <<>> /\ RollEvent(e)
        BY <1>4 DEF RollUnit, e
    <2> QED
        BY <1>2, <1>3, <2>1 DEF RollEvent, Next
<1>5. CASE RollRetry
    BY <1>5 DEF RollRetry, Next
<1>6. CASE RollFlushFails
    <2>1. queue # <<>> /\ e.kind = "forward" /\ RollForwardFlushFails(e.block, e.tip)
        BY <1>6 DEF RollFlushFails, e
    <2> QED
        BY <1>2, <1>3, <2>1 DEF Next
<1>7. CASE ProcessRestart
    BY <1>7 DEF ProcessRestart, Next
<1> QED
    BY <1>1, <1>4, <1>5, <1>6, <1>7, WhoWrites

\* What the roll stage has just written is the tip.
LEMMA TipWritten ==
    ASSUME IInv', PullTypes, RollUnit \/ RollRetry \/ RollFlushFails
    PROVE  /\ TipHeight' # 0
           /\ RollUnit \/ RollRetry => retrying' = NoBlock /\ report' = Tip' /\ Tip' \in Node
           /\ RollFlushFails => retrying' # NoBlock
<1> DEFINE e == Head(queue)
<1>1. queue # <<>> => e \in Event
    BY DEF PullTypes
<1>2. e \in Event => e.block \in Node
    BY DEF Event, Node
<1>3. LastHashIsTip' /\ NoBlock \notin Node
    BY ChainDBAssumption DEF IInv
<1>4. Tip' # NoBlock => TipHeight' # 0
    BY DEF Tip
<1> HIDE DEF e
<1>5. CASE RollUnit
    <2>1. queue # <<>> /\ RollEvent(e) /\ retrying = NoBlock
        BY <1>5 DEF RollUnit, e
    <2>2. retrying' = NoBlock /\ last_block_hash' = e.block
        BY <2>1, Zenon DEF RollEvent, RollForward, Advance, RollBack, HashAfterRollback
    <2>3. Tip' = e.block /\ report' = e.block
        BY <1>3, <2>1, <2>2, Zenon DEF LastHashIsTip, RollEvent
    <2>4. ~RollFlushFails
        <3>1. RollFlushFails => retrying' = e.block
            BY Zenon DEF RollFlushFails, RollForwardFlushFails, e
        <3> QED
            BY <1>1, <1>2, <1>3, <2>1, <2>2, <3>1
    <2> QED
        BY <1>1, <1>2, <1>3, <1>4, <2>1, <2>2, <2>3, <2>4
<1>6. CASE RollRetry
    <2>1. /\ retrying # NoBlock /\ retrying' = NoBlock
          /\ last_block_hash' = retrying /\ report' = retrying
        BY <1>6, Zenon DEF RollRetry, RetryForward, Advance
    <2>2. Tip' = retrying
        BY <1>3, <2>1 DEF LastHashIsTip
    <2>3. Tip' \in Node
        BY <2>1, <2>2, <1>3 DEF IInv, TypeOK, LastHashIsTip, Node
    <2>4. ~RollFlushFails
        BY <2>1, Zenon DEF RollFlushFails, RollForwardFlushFails
    <2> QED
        BY <1>4, <2>1, <2>2, <2>3, <2>4
<1>7. CASE RollFlushFails
    <2>1. /\ queue # <<>> /\ retrying' = e.block
          /\ retrying = NoBlock /\ report = NoBlock
        BY <1>7, Zenon DEF RollFlushFails, RollForwardFlushFails, e
    <2>2. retrying' # NoBlock
        BY <1>1, <1>2, <1>3, <2>1
    <2>3. Tip' = retrying'
        BY <1>3, <2>2 DEF LastHashIsTip
    <2>4. ~RollUnit /\ ~RollRetry
        BY <1>5, <1>6, <2>1, <2>2, Zenon DEF RollUnit, RollRetry, RetryForward, Advance,
           RollEvent, RollForward, RollBack
    <2> QED
        BY <1>4, <2>2, <2>3, <2>4
<1> QED
    BY <1>5, <1>6, <1>7
-----------------------------------------------------------------------------
(* The invariant is inductive.                                             *)

\* A process that has just been started, on an empty database.
LEMMA SyncInitInv == SyncInit => SyncInv
<1> SUFFICES ASSUME SyncInit PROVE SyncInv
    OBVIOUS
<1>1. Tip = NoBlock
    BY DEF SyncInit, Init, Empty, Tip, TipHeight, LastKey
<1>2. PullTypes /\ HealthTypes
    BY ChainDBAssumption DEF SyncInit, PullTypes, HealthTypes, Node, Asking
<1>3. TipUnderWay
    BY <1>1 DEF SyncInit, Init, TipUnderWay
<1>4. LocatorEndsAtGenesis /\ FirstEvent
    BY Zenon DEF SyncInit, LocatorEndsAtGenesis, FirstEvent, Asking
<1> QED
    BY <1>2, <1>3, <1>4 DEF SyncInv

\* A queue whose first element is taken keeps its last one.
LEMMA TailKeepsLast ==
    ASSUME NEW S, NEW s \in Seq(S), s # <<>>
    PROVE  /\ Tail(s) \in Seq(S) /\ Head(s) = s[1]
           /\ Tail(s) # <<>> => Tail(s)[Len(Tail(s))] = s[Len(s)]
           /\ Tail(s) = <<>> => Head(s) = s[Len(s)]
<1>1. /\ Tail(s) \in Seq(S) /\ Len(Tail(s)) = Len(s) - 1 /\ Len(s) \in Nat \ {0}
      /\ Head(s) = s[1]
    OBVIOUS
<1>2. \A i \in 1..Len(Tail(s)) : Tail(s)[i] = s[i + 1]
    BY <1>1
<1>3. Tail(s) = <<>> <=> Len(s) = 1
    <2>1. \A t \in Seq(S) : t = <<>> <=> Len(t) = 0
        OBVIOUS
    <2>2. Tail(s) = <<>> <=> Len(Tail(s)) = 0
        BY <1>1, <2>1, Zenon
    <2> QED
        BY <1>1, <2>2
<1> QED
    BY <1>1, <1>2, <1>3

\* The reports that are under way still end in the tip.
LEMMA ReportsInv ==
    ASSUME IInv, IInv', SyncInv, [SyncNext]_syncVars
    PROVE  HealthTypes' /\ TipUnderWay'
<1>1. HealthTypes /\ TipUnderWay /\ PullTypes /\ NoBlock \notin Node
    BY ChainDBAssumption DEF SyncInv
<1>2. UNCHANGED dbVars => Tip' = Tip /\ retrying' = retrying
    BY Zenon DEF dbVars, Tip, TipHeight
<1>3. CASE UNCHANGED <<dbVars, healthVars>>
    BY <1>1, <1>2, <1>3 DEF healthVars, HealthTypes, TipUnderWay
<1>4. CASE UNCHANGED dbVars /\ RollReports
    <2>1. /\ reports \in Seq(Node \cup {NoBlock}) /\ report \in Node \cup {NoBlock}
          /\ report # NoBlock /\ reports' = Append(reports, report) /\ report' = NoBlock
        BY <1>1, <1>4, Zenon DEF HealthTypes, RollReports
    <2>2. /\ reports' \in Seq(Node \cup {NoBlock}) /\ reports' # <<>>
          /\ reports'[Len(reports')] = report
        BY <2>1
    <2>3. retrying' = NoBlock /\ report = Tip /\ Tip' = Tip
        BY <1>1, <1>2, <1>4, <2>1 DEF TipUnderWay
    <2> QED
        BY <2>1, <2>2, <2>3 DEF HealthTypes, TipUnderWay
<1>5. CASE UNCHANGED dbVars /\ HealthUpdates
    <2>1. /\ reports \in Seq(Node \cup {NoBlock}) /\ reports # <<>>
          /\ reports' = Tail(reports) /\ health' = Head(reports) /\ report' = report
        BY <1>1, <1>5 DEF HealthTypes, HealthUpdates
    <2>2. /\ reports' \in Seq(Node \cup {NoBlock})
          /\ reports' # <<>> => reports'[Len(reports')] = reports[Len(reports)]
          /\ reports' = <<>> => health' = reports[Len(reports)]
        BY <2>1, TailKeepsLast
    <2> QED
        BY <1>1, <1>2, <1>5, <2>1, <2>2 DEF HealthTypes, TipUnderWay
<1>6. CASE RollUnit \/ RollRetry
    <2>1. retrying' = NoBlock /\ report' = Tip' /\ Tip' \in Node /\ reports' = reports
        BY <1>1, <1>6, TipWritten, Zenon DEF RollUnit, RollRetry
    <2> QED
        BY <1>1, <2>1 DEF HealthTypes, TipUnderWay
<1>7. CASE RollFlushFails
    <2>1. retrying' # NoBlock /\ report' = NoBlock /\ reports' = reports
        BY <1>1, <1>7, TipWritten, Zenon DEF RollFlushFails, healthVars
    <2> QED
        BY <1>1, <2>1 DEF HealthTypes, TipUnderWay
<1>8. CASE ProcessRestart
    <2>1. /\ retrying' = NoBlock /\ blocks' = blocks
          /\ report' = Tip /\ reports' = <<>> /\ health' = NoBlock
        BY <1>8, Zenon DEF ProcessRestart, Restart
    <2>2. Tip' = Tip
        BY <2>1 DEF Tip, TipHeight
    <2>3. Tip \in Node \cup {NoBlock}
        BY DEF IInv, TypeOK, Tip, Node
    <2> QED
        BY <2>1, <2>2, <2>3 DEF HealthTypes, TipUnderWay
<1> QED
    BY <1>3, <1>4, <1>5, <1>6, <1>7, <1>8, WhoWrites, Zenon

\* The steps that leave the pull stage and the queue alone.
LEMMA WhoPulls ==
    ASSUME PullTypes, [SyncNext]_syncVars
    PROVE  \/ UNCHANGED <<pullVars, queue>> /\ node' \in Node
           \/ UNCHANGED <<node, dbVars, queue>>
              /\ \/ Connect \/ Handshake \/ RelayHeaders \/ ReceiveHeaders \/ Wake
                 \/ Bootstrap \/ RequestHeaders \/ RequestBlocks \/ ReceiveBlocks
                 \/ RpcFails \/ PullRestart
           \/ UNCHANGED <<node, dbVars>> /\ Send
           \/ UNCHANGED <<node, pullVars>> /\ queue # <<>> /\ queue' = Tail(queue)
              /\ (RollUnit \/ RollFlushFails)
           \/ ProcessRestart
<1>1. CASE UNCHANGED syncVars
    BY <1>1 DEF syncVars, peerVars, PullTypes
<1>2. CASE (\E b \in Block : NodeAdvances(b)) \/ IngressFails \/ EgressFails
    BY <1>2, Zenon DEF NodeAdvances, IngressFails, EgressFails, PullTypes, Node
<1>3. CASE HandlerStep \/ RpcFails
    BY <1>3, Zenon DEF HandlerStep, Handshake, RelayHeaders, RelayAnnouncement, HandlerStops,
                RpcFails, peerVars, PullTypes
<1>4. CASE PullStep
    BY <1>4, Zenon DEF PullStep, Connect, Bootstrap, RequestHeaders, ReceiveHeaders, Wake,
                RequestBlocks, ReceiveBlocks, Send, PullRestart, PullEnds, peerVars,
                PullTypes
<1>5. CASE RollStep \/ HealthUpdates \/ RollFlushFails
    BY <1>5, Zenon DEF RollStep, RollUnit, RollRetry, RollReports, RollEnds, HealthUpdates,
                RollFlushFails, peerVars, PullTypes
<1>6. CASE PipelineExits \/ Crash
    BY <1>6, Zenon DEF PipelineExits, Crash
<1> QED
    BY <1>1, <1>2, <1>3, <1>4, <1>5, <1>6, Zenon DEF SyncNext

\* One step of the pull stage, or of the handler for it, that asks the node:
\* the cursor of a new session ends in the genesis block, and the answer
\* continues the cursor.
LEMMA AskInv ==
    ASSUME IInv, PullTypes, LocatorEndsAtGenesis, UNCHANGED <<node, dbVars, queue>>,
           \/ Connect \/ Handshake \/ RelayHeaders \/ ReceiveHeaders \/ Wake
           \/ Bootstrap \/ RequestHeaders \/ RequestBlocks \/ RpcFails \/ PullRestart
    PROVE  PullTypes' /\ LocatorEndsAtGenesis'
<1>1. CASE Connect \/ Handshake \/ RpcFails \/ PullRestart
    BY <1>1, Zenon DEF Connect, Handshake, RpcFails, PullRestart, peerVars, PullTypes,
                LocatorEndsAtGenesis, Asking
<1>2. CASE ReceiveHeaders \/ Wake \/ RequestBlocks
    BY <1>2, Zenon DEF ReceiveHeaders, Wake, RequestBlocks, peerVars, PullTypes,
                LocatorEndsAtGenesis, Asking
<1>3. CASE RelayHeaders
    <2> DEFINE hs == HeadersAfter(cursor)
    <2>1. /\ pc \in Asking /\ headers' = PageOf(hs) /\ pc' = "answered"
          /\ UNCHANGED <<cursor, pull_tip, units>>
        BY <1>3, Zenon DEF RelayHeaders, Asking
    <2>2. hs \in Seq(Block) /\ (hs # <<>> => Parent[hs[1]] \in Range(cursor))
        BY <2>1, HeadersContinue, Zenon DEF PullTypes, LocatorEndsAtGenesis
    <2> HIDE DEF hs
    <2>3. /\ headers' \in Seq(Block)
          /\ headers' # <<>> => Parent[headers'[1]] \in Range(cursor)
        BY <2>1, <2>2, PageType
    <2> QED
        BY <2>1, <2>3, Zenon DEF PullTypes, LocatorEndsAtGenesis, Asking
<1>4. CASE Bootstrap
    <2>1. /\ cursor' = IntersectOptions /\ pull_tip' = Height[node] /\ pc' = "schedule"
          /\ headers' = <<>> /\ units' = <<>>
        BY <1>4, Zenon DEF Bootstrap
    <2>2. Height[node] \in 0..MaxTip
        <3>1. node = Genesis \/ node \in Block
            BY DEF PullTypes, Node
        <3> QED
            BY <3>1, TreeAssumption, SyncAssumption, ChainDBAssumption, ParentHeight
    <2>3. cursor' \in Seq(Node) /\ cursor' # <<>> /\ cursor'[Len(cursor')] = Genesis
        BY <2>1, OptionsType
    <2>4. pull_tip' \in 0..MaxTip /\ headers' \in Seq(Block) /\ units' \in Seq(Event)
        BY <2>1, <2>2
    <2>5. PullTypes'
        BY <2>1, <2>3, <2>4, Zenon DEF PullTypes, Asking
    <2>6. LocatorEndsAtGenesis'
        BY <2>1, <2>3, Zenon DEF LocatorEndsAtGenesis
    <2> QED
        BY <2>5, <2>6
<1>5. CASE RequestHeaders
    <2>1. /\ pc \in Asking /\ units' = FirstRollback /\ pc' = "headers"
          /\ UNCHANGED <<cursor, pull_tip, headers>>
        BY <1>5, Zenon DEF RequestHeaders, Asking
    <2>2. FirstRollback \in Seq(Event)
        <3>1. cursor \in Seq(Node) /\ cursor # <<>> /\ pull_tip \in 0..MaxTip
            BY <2>1, Zenon DEF PullTypes, LocatorEndsAtGenesis
        <3>2. cursor[1] \in Node
            BY <3>1
        <3>3. BackTo(cursor[1], pull_tip) \in Event
            BY <3>1, <3>2, Zenon DEF BackTo, Event
        <3> QED
            BY <3>3 DEF FirstRollback
    <2> QED
        BY <2>1, <2>2, Zenon DEF PullTypes, LocatorEndsAtGenesis, Asking
<1> QED
    BY <1>1, <1>2, <1>3, <1>4, <1>5

\* The pages are turned into events, which go to the queue one by one.
LEMMA SendInv ==
    ASSUME IInv, PullTypes, LocatorEndsAtGenesis, UNCHANGED <<node, dbVars>>,
           ReceiveBlocks \/ Send
    PROVE  PullTypes' /\ LocatorEndsAtGenesis'
<1>1. CASE ReceiveBlocks
    <2> DEFINE fs == [i \in 1..Len(headers) |-> ForwardTo(headers[i], TipAt(i))]
    <2>1. /\ pc = "blocks" /\ pc \in Asking /\ pc' = "send" /\ headers' = <<>>
          /\ units' = units \o Reorganise \o fs
          /\ cursor' = CursorAfter(headers) /\ pull_tip' = TipAt(Len(headers))
          /\ queue' = queue
        BY <1>1, Zenon DEF ReceiveBlocks, Asking
    <2>2. headers \in Seq(Block) /\ headers # <<>> /\ units \in Seq(Event)
        BY <2>1, Zenon DEF PullTypes, LocatorEndsAtGenesis
    <2>3. /\ Reorganise \in Seq(Event) /\ fs \in Seq(Event)
          /\ TipAt(Len(headers)) \in 0..MaxTip
        BY <2>1, <2>2, PageUnits
    <2>4. fs # <<>>
        BY <2>2
    <2> HIDE DEF fs
    <2>5. units' \in Seq(Event) /\ units' # <<>>
        BY <2>1, <2>2, <2>3, <2>4
    <2>6. cursor' \in Seq(Node) /\ cursor' # <<>> /\ cursor'[Len(cursor')] = Genesis
        BY <2>1, <2>2, CursorAfterType
    <2> QED
        BY <2>1, <2>3, <2>5, <2>6 DEF PullTypes, LocatorEndsAtGenesis, Asking
<1>2. CASE Send
    <2>1. /\ queue \in Seq(Event) /\ units \in Seq(Event) /\ units # <<>>
          /\ queue' = Append(queue, Head(units)) /\ units' = Tail(units)
          /\ pc = "send" /\ pc' = IF units' = <<>> THEN "schedule" ELSE "send"
          /\ UNCHANGED <<cursor, pull_tip, headers>>
        BY <1>2 DEF Send, PullTypes, LocatorEndsAtGenesis
    <2>2. queue' \in Seq(Event) /\ units' \in Seq(Event)
        BY <2>1
    <2> QED
        BY <2>1, <2>2 DEF PullTypes, LocatorEndsAtGenesis, Asking
<1> QED
    BY <1>1, <1>2

\* A table that holds a block never becomes empty again: no event takes it back
\* to the genesis block.
LEMMA TableStaysFilled ==
    ASSUME IInv', PullTypes, [SyncNext]_syncVars, TipHeight' = 0
    PROVE  TipHeight = 0 /\ ~(RollUnit \/ RollRetry \/ RollFlushFails)
<1>1. ~(RollUnit \/ RollRetry \/ RollFlushFails)
    BY TipWritten
<1>2. blocks' = blocks
    BY <1>1, WhoWrites, Zenon DEF dbVars, ProcessRestart, Restart
<1> QED
    BY <1>1, <1>2, Zenon DEF TipHeight

\* The first event that an empty table gets is a child of the genesis block.
LEMMA FirstEventInv ==
    ASSUME IInv, IInv', SyncInv, [SyncNext]_syncVars
    PROVE  FirstEvent'
<1> SUFFICES ASSUME TipHeight' = 0
             PROVE  IF queue' # <<>> THEN Starts(queue[1])'
                    ELSE /\ pc' \in Asking => cursor' = <<Genesis>>
                         /\ pc' \in Asking \ {"schedule"} => units' = <<>>
                         /\ pc' = "send" => Starts(units[1])'
    BY DEF FirstEvent
<1>1. PullTypes /\ LocatorEndsAtGenesis /\ FirstEvent
    BY DEF SyncInv
<1>2. TipHeight = 0 /\ ~(RollUnit \/ RollRetry \/ RollFlushFails)
    BY <1>1, TableStaysFilled
<1>3. IF queue # <<>> THEN Starts(queue[1])
      ELSE /\ pc \in Asking => cursor = <<Genesis>>
           /\ pc \in Asking \ {"schedule"} => units = <<>>
           /\ pc = "send" => Starts(units[1])
    BY <1>1, <1>2 DEF FirstEvent
<1>4. CASE UNCHANGED <<pullVars, queue>>
    BY <1>3, <1>4, Zenon DEF pullVars, Starts
<1>5. CASE queue' = queue /\ queue # <<>>
    BY <1>3, <1>5, Zenon DEF Starts
<1>6. CASE queue' = queue /\ queue = <<>>
           /\ \/ Connect \/ Handshake \/ RelayHeaders \/ ReceiveHeaders \/ Wake
              \/ RequestBlocks \/ RpcFails \/ PullRestart
    BY <1>3, <1>6, Zenon DEF Connect, Handshake, RelayHeaders, ReceiveHeaders, Wake,
                      RequestBlocks, RpcFails, PullRestart, Asking
<1>7. CASE queue' = queue /\ queue = <<>> /\ Bootstrap
    <2>1. cursor' = <<Genesis>> /\ units' = <<>> /\ pc' = "schedule"
        BY <1>2, <1>7, OptionsType DEF Bootstrap
    <2> QED
        BY <1>7, <2>1
<1>8. CASE queue' = queue /\ queue = <<>> /\ RequestHeaders
    <2>1. cursor = <<Genesis>> /\ cursor' = cursor /\ units' = FirstRollback /\ pc' = "headers"
        BY <1>3, <1>8 DEF RequestHeaders, Asking
    <2>2. FirstRollback = <<>>
        BY <2>1 DEF FirstRollback
    <2> QED
        BY <1>8, <2>1, <2>2
<1>9. CASE queue' = queue /\ queue = <<>> /\ ReceiveBlocks
    <2> DEFINE fs == [i \in 1..Len(headers) |-> ForwardTo(headers[i], TipAt(i))]
    <2>1. /\ pc = "blocks" /\ pc' = "send" /\ units' = units \o Reorganise \o fs
          /\ cursor = <<Genesis>> /\ units = <<>>
        BY <1>3, <1>9, Zenon DEF ReceiveBlocks, Asking
    <2>2. headers \in Seq(Block) /\ headers # <<>> /\ Parent[headers[1]] \in Range(cursor)
        BY <1>1, <2>1 DEF PullTypes, LocatorEndsAtGenesis
    <2>3. Parent[headers[1]] = Genesis
        BY <2>1, <2>2 DEF Range
    <2>4. Reorganise = <<>>
        BY <2>1, <2>3, Zenon DEF Reorganise
    <2>5. fs \in Seq(Event) /\ fs # <<>> /\ fs[1] = ForwardTo(headers[1], TipAt(1))
        BY <1>1, <2>1, <2>2, PageUnits DEF Asking
    <2> HIDE DEF fs
    <2>6. units' = fs
        BY <2>1, <2>4, <2>5, SMTT(30), Z3T(30)
    <2>7. Starts(units[1])'
        BY <2>3, <2>5, <2>6 DEF Starts, ForwardTo
    <2> QED
        BY <1>9, <2>1, <2>7, Zenon DEF Asking
<1>10. CASE Send
    <2>1. /\ queue \in Seq(Event) /\ units \in Seq(Event) /\ units # <<>>
          /\ queue' = Append(queue, Head(units)) /\ pc = "send"
        BY <1>1, <1>10, Zenon DEF Send, PullTypes, LocatorEndsAtGenesis
    <2>2. queue' # <<>> /\ queue'[1] = IF queue = <<>> THEN units[1] ELSE queue[1]
        BY <2>1
    <2> QED
        BY <1>3, <2>1, <2>2, Zenon DEF Starts
<1>11. CASE ProcessRestart
    BY <1>11 DEF ProcessRestart, Asking
<1> QED
    BY <1>1, <1>2, <1>4, <1>5, <1>6, <1>7, <1>8, <1>9, <1>10, <1>11, WhoPulls, Zenon

\* All stages, the node, failures and restarts together preserve the invariant.
LEMMA SyncNextInv == IInv /\ SyncInv /\ [SyncNext]_syncVars => IInv' /\ SyncInv'
<1> SUFFICES ASSUME IInv, SyncInv, [SyncNext]_syncVars PROVE IInv' /\ SyncInv'
    OBVIOUS
<1>1. PullTypes /\ LocatorEndsAtGenesis
    BY DEF SyncInv
<1>2. IInv'
    BY <1>1, SyncStepIsDbStep, NextIInv
<1>3. HealthTypes' /\ TipUnderWay' /\ FirstEvent'
    BY <1>2, ReportsInv, FirstEventInv
<1>4. PullTypes' /\ LocatorEndsAtGenesis'
    <2>1. CASE UNCHANGED <<pullVars, queue>> /\ node' \in Node
        BY <1>1, <2>1, Zenon DEF pullVars, PullTypes, LocatorEndsAtGenesis
    <2>2. CASE UNCHANGED <<node, pullVars>> /\ queue # <<>> /\ queue' = Tail(queue)
        <3>1. queue' \in Seq(Event)
            BY <1>1, <2>2, TailKeepsLast, Zenon DEF PullTypes
        <3> QED
            BY <1>1, <2>2, <3>1, Zenon DEF pullVars, PullTypes, LocatorEndsAtGenesis
    <2>3. CASE ProcessRestart
        <3>1. /\ node' = node /\ pc' = "boot" /\ cursor' = <<>> /\ pull_tip' = 0
              /\ headers' = <<>> /\ units' = <<>> /\ queue' = <<>>
            BY <2>3 DEF ProcessRestart
        <3>2. 0 \in 0..MaxTip
            BY ChainDBAssumption
        <3>3. /\ cursor' \in Seq(Node) /\ headers' \in Seq(Block)
              /\ units' \in Seq(Event) /\ queue' \in Seq(Event)
            BY <3>1
        <3>4. PullTypes'
            BY <1>1, <3>1, <3>2, <3>3 DEF PullTypes
        <3> QED
            BY <3>1, <3>4, Zenon DEF LocatorEndsAtGenesis, Asking
    <2> QED
        BY <1>1, <2>1, <2>2, <2>3, WhoPulls, AskInv, SendInv, Zenon
<1> QED
    BY <1>2, <1>3, <1>4, Zenon DEF SyncInv

\* The sync pipeline, with its queues, restarts, retries and dead connections,
\* drives the database only in the ways that ChainDB describes: every event that
\* the roll stage executes carries a block and a tip of the node's chain.
THEOREM PipelineImplementsChainDB == SyncSpec => Spec
<1>1. SyncInit => Init /\ IInv /\ SyncInv
    BY SyncInitInv, InitIInv DEF SyncInit
<1>2. SyncInv /\ [SyncNext]_syncVars => [Next]_dbVars
    BY SyncStepIsDbStep DEF SyncInv
<1> QED
    BY <1>1, <1>2, SyncNextInv, PTL DEF SyncSpec, Spec

\* What /health reports is the tip of the database once nothing is under way to
\* the health stage: no order of applies, rollbacks, failed flushes, retries and
\* restarts loses the last report or delivers it early.
THEOREM HealthIsTheTip == SyncSpec => []HealthReportsTip
<1>1. SyncInit => IInv /\ SyncInv
    BY SyncInitInv, InitIInv, Zenon DEF SyncInit
<1>2. SyncInv => HealthReportsTip
    BY DEF SyncInv, TipUnderWay, HealthReportsTip
<1> QED
    BY <1>1, <1>2, SyncNextInv, PTL DEF SyncSpec

\* The restart for an unknown intersect height is never taken: whatever the node's
\* chain has become between the request and the answer, and however few points
\* the database adds to the cursor, a page continues a point of the cursor.
THEOREM IntersectAlwaysKnown == SyncSpec => []IntersectKnown
<1>1. SyncInit => IInv /\ SyncInv
    BY SyncInitInv, InitIInv DEF SyncInit
<1>2. SyncInv => IntersectKnown
    BY Zenon DEF SyncInv, LocatorEndsAtGenesis, IntersectKnown
<1> QED
    BY <1>1, <1>2, SyncNextInv, PTL DEF SyncSpec

\* apply_block_with_context has no predecessor to compare with while the table is
\* empty, and still the first block it gets is a child of the genesis block.
THEOREM FirstBlockIsFirst == SyncSpec => []EmptyTableStartsAtGenesis
<1>1. SyncInit => IInv /\ SyncInv
    BY SyncInitInv, InitIInv DEF SyncInit
<1>2. SyncInv => EmptyTableStartsAtGenesis
    <2> SUFFICES ASSUME SyncInv, TipHeight = 0, queue # <<>>
                 PROVE  Parent[Head(queue).block] = Genesis
        BY DEF EmptyTableStartsAtGenesis
    <2>1. Starts(queue[1]) /\ queue[1] = Head(queue)
        BY DEF SyncInv, FirstEvent, PullTypes
    <2> QED
        BY <2>1, Zenon DEF Starts
<1> QED
    BY <1>1, <1>2, SyncNextInv, PTL DEF SyncSpec
=============================================================================
