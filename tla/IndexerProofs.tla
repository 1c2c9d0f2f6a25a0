---------------------------- MODULE IndexerProofs ----------------------------
(***************************************************************************)
(* TLAPS proofs about Indexer, for every block tree, batch and buffer size,  *)
(* and every number of failures: an advertised instance has an entry, and an *)
(* instance that follows the tip keeps its data, its entries, its metadata   *)
(* and the way of its cursor right.                                         *)
(***************************************************************************)
EXTENDS Indexer, StorageProofs

\* Every step of the instance is a step of the storage stage or leaves it alone.
LEMMA StoreSteps ==
    ASSUME [Next]_vars
    PROVE  \/ UNCHANGED storeVars
           \/ \E u, full : Start(u, full)
           \/ StoreStep \/ WorkerRestart \/ ProcessRestart
<1>1. CASE UNCHANGED vars
    BY <1>1, SMTT(30) DEF vars
<1>2. CASE Upstream \/ SourceStep \/ SourceFault
    BY <1>2, Zenon DEF Upstream, Extend, RollBackTo, SourceStep, SourceBootstrap, OpenStream, Page,
                PageNotFound, Stream, SourceFault
<1>3. CASE StorageStep \/ WorkerFault \/ ExitOnPanic \/ Crash
    BY <1>3, Zenon DEF StorageStep, Receive, Reschedule, WorkerFault, ExitOnPanic, Crash, Rebuild
<1> QED
    BY <1>1, <1>2, <1>3 DEF Next

\* An instance in the registry has a cursor entry, which is what keeps tikv-gc
\* from collecting the versions its readers need, unless its configuration asks
\* for advertise_immediately.
THEOREM ScoreHasEntry == ~Advertise => (Spec => []AdvertisedHasEntry)
<1> SUFFICES ASSUME ~Advertise PROVE Spec => []AdvertisedHasEntry
    OBVIOUS
<1>1. Init => Registered
    <2> SUFFICES ASSUME Init PROVE Registered
        OBVIOUS
    <2>1. /\ redis = {Entry(b, b) : b \in OneByOne}
          /\ score = IF OneByOne = {} THEN 0 ELSE Height[StartCursor]
          /\ registered = FALSE /\ step = "idle"
        BY DEF Init, StoreInit
    <2> QED
        BY <2>1 DEF Registered
<1>2. Registered /\ [Next]_vars => Registered'
    <2>1. Registered /\ UNCHANGED storeVars => Registered'
        BY DEF storeVars, redisVars, memVars, runVars, Registered
    <2> QED
        BY <2>1, RegisteredStep, StoreSteps, Zenon
<1>3. Registered => AdvertisedHasEntry
    BY DEF Registered, AdvertisedHasEntry
<1> QED
    BY <1>1, <1>2, <1>3, PTL DEF Spec
-----------------------------------------------------------------------------
(* An instance that follows the tip.  The process is not stopped while a     *)
(* rollback has undone some of its blocks and not trimmed all of their       *)
(* metadata.                                                               *)

NeverStoppedRollingBack == [][Rebuild => ~RollingBack]_vars

\* Every block in a queue continues what comes before it, and where it ends.
Linked(q, at) ==
    \A i \in 1..Len(q) : q[i].kind = "fwd" =>
        Parent[q[i].block] = IF i = 1 THEN at ELSE q[i - 1].block
EndOf(q, at) == IF q = <<>> THEN at ELSE q[Len(q)].block

\* The queue continues where the storage stage stands once it has finished what
\* it holds.
SentPoint == EndOf(queue, HeldPoint)
Queued    == queue \in Seq(Messages) /\ Linked(queue, HeldPoint)

\* The source stands where the queue ends.  After a start a rollback comes first.
Sourced ==
    /\ smode \in {"boot", "down", "dump", "stream"}
    /\ smode = "dump" => scursor = SentPoint
    /\ smode = "stream" => /\ spos \in 1..Len(log)
                           /\ log[spos].kind # "Undo" => log[spos].block = SentPoint
    /\ ~mutable => /\ queue = <<>> => smode \in {"boot", "down"}
                   /\ queue # <<>> => queue[1].mutable

\* The compressor's log: what it applies continues the entry before, and it ends
\* at the tip.
Entries == [kind : {"Apply", "Undo", "Mark"}, block : Block]
Logged ==
    /\ tip \in Block
    /\ log \in Seq(Entries)
    /\ log # <<>> => log[Len(log)].kind # "Undo" /\ log[Len(log)].block = tip
    /\ \A i \in 1..(Len(log) - 1) : log[i + 1].kind = "Apply" =>
           log[i].kind # "Undo" /\ log[i].block = Parent[log[i + 1].block]

FollowInv == StoreInv /\ Queued /\ Sourced /\ Logged
-----------------------------------------------------------------------------
(* Messages and the log.                                                   *)

\* Messages that continue a queue make a longer one.
LEMMA LinkedConcat ==
    ASSUME NEW q \in Seq(Messages), NEW s \in Seq(Messages), NEW at,
           Linked(q, at), Linked(s, EndOf(q, at))
    PROVE  /\ q \o s \in Seq(Messages) /\ Linked(q \o s, at)
           /\ EndOf(q \o s, at) = EndOf(s, EndOf(q, at))
           /\ q # <<>> => (q \o s)[1] = q[1] /\ q \o s # <<>>
<1> DEFINE c == q \o s
<1>1. /\ c \in Seq(Messages) /\ Len(c) = Len(q) + Len(s) /\ Len(q) \in Nat /\ Len(s) \in Nat
      /\ \A i \in 1..Len(q) : c[i] = q[i]
      /\ \A i \in 1..Len(s) : c[Len(q) + i] = s[i]
    OBVIOUS
<1>2. (q = <<>> <=> Len(q) = 0) /\ (s = <<>> <=> Len(s) = 0) /\ (c = <<>> <=> Len(c) = 0)
    <2>1. q = <<>> <=> Len(q) = 0
        OBVIOUS
    <2>2. s = <<>> <=> Len(s) = 0
        OBVIOUS
    <2>3. c = <<>> <=> Len(c) = 0
        <3> HIDE DEF c
        <3> QED
            BY <1>1
    <2> QED
        BY <2>1, <2>2, <2>3, Zenon
<1> HIDE DEF c
<1>3. EndOf(q, at) = IF Len(q) = 0 THEN at ELSE c[Len(q)].block
    <2>1. Len(q) # 0 => c[Len(q)] = q[Len(q)]
        BY <1>1
    <2> QED
        BY <1>2, <2>1 DEF EndOf
<1>4. ASSUME NEW i \in 1..Len(c), c[i].kind = "fwd"
      PROVE  Parent[c[i].block] = IF i = 1 THEN at ELSE c[i - 1].block
    <2>1. CASE i \in 1..Len(q)
        <3>1. c[i] = q[i] /\ (i # 1 => c[i - 1] = q[i - 1])
            BY <1>1, <2>1
        <3> QED
            BY <1>4, <2>1, <3>1, Zenon DEF Linked
    <2>2. CASE i \notin 1..Len(q)
        <3> DEFINE j == i - Len(q)
        <3>1. j \in 1..Len(s) /\ i = Len(q) + j /\ i - 1 = Len(q) + (j - 1)
            BY <1>1, <2>2
        <3>2. c[i] = s[j]
            BY <1>1, <3>1, Zenon
        <3>3. Parent[s[j].block] = IF j = 1 THEN EndOf(q, at) ELSE s[j - 1].block
            BY <1>4, <3>1, <3>2, Zenon DEF Linked
        <3>4. CASE j = 1
            <4>1. i = Len(q) + 1 /\ i - 1 = Len(q)
                BY <1>1, <3>1, <3>4
            <4> QED
                BY <1>1, <1>3, <3>2, <3>3, <3>4, <4>1
        <3>5. CASE j # 1
            <4>1. j - 1 \in 1..Len(s) /\ i # 1
                BY <1>1, <3>1, <3>5
            <4>2. c[i - 1] = s[j - 1]
                BY <1>1, <3>1, <4>1, Zenon
            <4> QED
                BY <3>2, <3>3, <3>5, <4>1, <4>2, Zenon
        <3> QED
            BY <3>4, <3>5, Zenon
    <2> QED
        BY <2>1, <2>2
<1>5. EndOf(c, at) = EndOf(s, EndOf(q, at))
    <2>1. CASE Len(s) = 0
        <3>1. Len(c) = Len(q)
            BY <1>1, <2>1
        <3> QED
            BY <1>2, <1>3, <2>1, <3>1, Zenon DEF EndOf
    <2>2. CASE Len(s) # 0
        <3>1. Len(c) # 0 /\ Len(s) \in 1..Len(s) /\ c[Len(c)] = s[Len(s)]
            BY <1>1, <2>2
        <3> QED
            BY <1>2, <2>2, <3>1, Zenon DEF EndOf
    <2> QED
        BY <2>1, <2>2
<1>6. q # <<>> => c[1] = q[1] /\ c # <<>>
    BY <1>1, <1>2
<1> QED
    BY <1>1, <1>4, <1>5, <1>6, Zenon DEF Linked, c

\* One more message.
LEMMA LinkedAppend ==
    ASSUME NEW q \in Seq(Messages), NEW e \in Messages, NEW at, Linked(q, at),
           e.kind = "fwd" => Parent[e.block] = EndOf(q, at)
    PROVE  /\ Append(q, e) \in Seq(Messages) /\ Linked(Append(q, e), at)
           /\ EndOf(Append(q, e), at) = e.block
           /\ Append(q, e) # <<>>
           /\ Append(q, e)[1] = IF q = <<>> THEN e ELSE q[1]
<1> DEFINE s == <<e>>
<1>1. s \in Seq(Messages) /\ Len(s) = 1 /\ s[1] = e /\ s # <<>>
    OBVIOUS
<1>2. Linked(s, EndOf(q, at))
    BY <1>1 DEF Linked
<1>3. EndOf(s, EndOf(q, at)) = e.block
    BY <1>1 DEF EndOf
<1>4. Append(q, e) = q \o s /\ Append(q, e) # <<>>
    OBVIOUS
<1>5. q = <<>> => Append(q, e)[1] = e
    OBVIOUS
<1> HIDE DEF s
<1> QED
    BY <1>1, <1>2, <1>3, <1>4, <1>5, LinkedConcat

\* The first message taken.
LEMMA LinkedTail ==
    ASSUME NEW q \in Seq(Messages), NEW at, Linked(q, at), q # <<>>
    PROVE  /\ Head(q) = q[1] /\ q[1] \in Messages
           /\ q[1].kind = "fwd" => Parent[q[1].block] = at
           /\ Tail(q) \in Seq(Messages) /\ Linked(Tail(q), q[1].block)
           /\ EndOf(Tail(q), q[1].block) = EndOf(q, at)
<1> DEFINE s == Tail(q)
<1>1. /\ Head(q) = q[1] /\ q[1] \in Messages /\ Len(q) \in Nat /\ Len(q) >= 1
      /\ s \in Seq(Messages) /\ Len(s) = Len(q) - 1
      /\ \A i \in 1..Len(s) : s[i] = q[i + 1]
    OBVIOUS
<1>2. s = <<>> <=> Len(s) = 0
    <2> HIDE DEF s
    <2> QED
        BY <1>1
<1> HIDE DEF s
<1>3. ASSUME NEW i \in 1..Len(s), s[i].kind = "fwd"
      PROVE  Parent[s[i].block] = IF i = 1 THEN q[1].block ELSE s[i - 1].block
    <2>1. i + 1 \in 1..Len(q) /\ i + 1 # 1 /\ (i + 1) - 1 = i /\ s[i] = q[i + 1]
        BY <1>1
    <2>2. Parent[q[i + 1].block] = q[i].block
        BY <1>3, <2>1 DEF Linked
    <2>3. i # 1 => s[i - 1] = q[i]
        BY <1>1
    <2> QED
        BY <2>1, <2>2, <2>3
<1>4. EndOf(s, q[1].block) = EndOf(q, at)
    <2>1. CASE Len(s) = 0
        <3>1. Len(q) = 1
            BY <1>1, <2>1
        <3>2. EndOf(q, at) = q[1].block
            BY <3>1 DEF EndOf
        <3> QED
            BY <1>2, <2>1, <3>2, Zenon DEF EndOf
    <2>2. CASE Len(s) # 0
        <3>1. Len(s) \in 1..Len(s) /\ Len(s) + 1 = Len(q)
            BY <1>1, <2>2
        <3>2. s[Len(s)] = q[Len(q)]
            BY <1>1, <3>1, Zenon
        <3> QED
            BY <1>2, <2>2, <3>2, Zenon DEF EndOf
    <2> QED
        BY <2>1, <2>2
<1>5. q[1].kind = "fwd" => Parent[q[1].block] = at
    BY <1>1 DEF Linked
<1> QED
    BY <1>1, <1>3, <1>4, <1>5, Zenon DEF Linked, s
-----------------------------------------------------------------------------
(* The first state.                                                        *)

\* The source and the queue of a new process, and the compressor it meets.
LEMMA FollowInit ==
    ASSUME Resumed, Init
    PROVE  FollowInv
<1>1. /\ StoreInit /\ mutable = FALSE
      /\ queue = <<>> /\ smode = "boot" /\ tip = InitTip
      /\ log = [i \in 1..Len(InitLog) |-> [kind |-> "Apply", block |-> InitLog[i]]]
    BY Zenon DEF Init, StoreInit
<1>2. Queued
    BY <1>1 DEF Queued, Linked
<1>3. Sourced
    BY <1>1, Zenon DEF Sourced
<1>4. Logged
    <2> DEFINE e(i) == [kind |-> "Apply", block |-> InitLog[i]]
    <2>1. InitLog \in Seq(Block) /\ Len(InitLog) \in Nat
        BY IndexerAssumption
    <2>2. \A i \in 1..Len(InitLog) : e(i) \in Entries
        BY <2>1 DEF Entries
    <2>3. /\ log \in Seq(Entries) /\ Len(log) = Len(InitLog)
          /\ \A i \in 1..Len(InitLog) : log[i] = e(i)
        <3> HIDE DEF e
        <3>1. log = [i \in 1..Len(InitLog) |-> e(i)]
            BY <1>1 DEF e
        <3> QED
            BY <2>1, <2>2, <3>1
    <2>4. ASSUME NEW i \in 1..Len(InitLog)
          PROVE  log[i].kind = "Apply" /\ log[i].block = InitLog[i]
        <3>1. log[i] = [kind |-> "Apply", block |-> InitLog[i]]
            BY <2>3
        <3> QED
            BY <3>1
    <2>5. log # <<>> => log[Len(log)].kind # "Undo" /\ log[Len(log)].block = InitTip
        <3>1. CASE Len(InitLog) = 0
            BY <2>3, <3>1
        <3>2. CASE Len(InitLog) # 0
            <4>1. InitLog # <<>> /\ Len(InitLog) \in 1..Len(InitLog)
                BY <2>1, <3>2
            <4> QED
                BY <2>3, <2>4, <4>1, IndexerAssumption
        <3> QED
            BY <3>1, <3>2, Zenon
    <2>6. ASSUME NEW i \in 1..(Len(log) - 1)
          PROVE  log[i].kind # "Undo" /\ log[i].block = Parent[log[i + 1].block]
        <3>1. i \in 1..Len(InitLog) /\ i + 1 \in 1..Len(InitLog) /\ i \in 1..(Len(InitLog) - 1)
            BY <2>1, <2>3
        <3> QED
            BY <2>4, <3>1, IndexerAssumption
    <2> QED
        BY <1>1, <2>3, <2>5, <2>6, IndexerAssumption, Zenon DEF Logged
<1> QED
    BY <1>1, <1>2, <1>3, <1>4, StoreStarts, Zenon DEF FollowInv
-----------------------------------------------------------------------------
(* The compressor and the source.                                          *)

\* The points are blocks.
LEMMA PointsAreBlocks ==
    ASSUME FollowInv
    PROVE  Top \in Block /\ HeldPoint \in Block /\ SentPoint \in Block
<1>1. Top \in Block /\ HeldPoint \in Block
    BY StorePoints DEF FollowInv
<1>2. ASSUME queue # <<>> PROVE queue[Len(queue)].block \in Block
    <2>1. queue[Len(queue)] \in Messages
        BY <1>2 DEF FollowInv, Queued
    <2> QED
        BY <2>1 DEF Messages
<1> QED
    BY <1>1, <1>2 DEF SentPoint, EndOf

\* A log that has grown still holds what a stream has read.
LEMMA SourcedLater ==
    ASSUME Sourced, UNCHANGED <<storeVars, queue, sourceVars>>,
           Len(log) \in Nat, Len(log') \in Nat, Len(log) <= Len(log'),
           \A i \in 1..Len(log) : log'[i] = log[i]
    PROVE  Sourced'
<1>1. UNCHANGED <<queue, smode, scursor, spos, mutable, step>> /\ SentPoint' = SentPoint
    BY DEF storeVars, memVars, runVars, sourceVars, SentPoint, HeldPoint, Top
<1>2. smode = "stream" => spos \in 1..Len(log') /\ log'[spos] = log[spos]
    BY DEF Sourced
<1> QED
    BY <1>1, <1>2, Zenon DEF Sourced

\* The compressor's chain grows or reorganises.
LEMMA UpstreamStep ==
    ASSUME FollowInv, Upstream
    PROVE  FollowInv'
<1>1. /\ tip \in Block /\ log \in Seq(Entries) /\ Len(log) \in Nat
      /\ log # <<>> => log[Len(log)].kind # "Undo" /\ log[Len(log)].block = tip
      /\ \A i \in 1..(Len(log) - 1) : log[i + 1].kind = "Apply" =>
             log[i].kind # "Undo" /\ log[i].block = Parent[log[i + 1].block]
    BY DEF FollowInv, Logged
<1>2. UNCHANGED <<storeVars, queue, sourceVars>>
    BY DEF Upstream, Extend, RollBackTo
<1> DEFINE Grown == /\ Logged' /\ Len(log') \in Nat /\ Len(log) <= Len(log')
                    /\ \A i \in 1..Len(log) : log'[i] = log[i]
<1>3. Grown
    <2>1. ASSUME NEW b \in Block, Extend(b)
          PROVE  Grown
        <3> DEFINE e == [kind |-> "Apply", block |-> b]
        <3>1. tip' = b /\ log' = Append(log, e) /\ Parent[b] = tip
            BY <2>1 DEF Extend
        <3>2. e \in Entries /\ e.kind = "Apply" /\ e.block = b
            BY DEF Entries
        <3> HIDE DEF e
        <3>3. /\ log' \in Seq(Entries) /\ Len(log') = Len(log) + 1
              /\ \A i \in 1..Len(log) : log'[i] = log[i]
              /\ log'[Len(log) + 1] = e
            BY <1>1, <3>1, <3>2
        <3>4. ASSUME NEW i \in 1..(Len(log') - 1), log'[i + 1].kind = "Apply"
              PROVE  log'[i].kind # "Undo" /\ log'[i].block = Parent[log'[i + 1].block]
            <4>1. CASE i = Len(log)
                <5>1. log # <<>> /\ log'[i] = log[Len(log)] /\ log'[i + 1] = e
                    BY <1>1, <3>3, <4>1
                <5> QED
                    BY <1>1, <3>1, <3>2, <5>1, Zenon
            <4>2. CASE i # Len(log)
                <5>1. i \in 1..(Len(log) - 1) /\ i \in 1..Len(log) /\ i + 1 \in 1..Len(log)
                    BY <1>1, <3>3, <4>2
                <5> QED
                    BY <1>1, <3>3, <3>4, <5>1, Zenon
            <4> QED
                BY <4>1, <4>2, Zenon
        <3>5. Logged'
            <4>1. log'[Len(log')] = e
                BY <1>1, <3>3, Zenon
            <4> QED
                BY <3>1, <3>2, <3>3, <3>4, <4>1, Zenon DEF Logged
        <3> QED
            BY <1>1, <3>3, <3>5
    <2>2. ASSUME NEW b \in Block, RollBackTo(b)
          PROVE  Grown
        <3> DEFINE n == Height[tip] - Height[b]
                   x(i) == Chain[tip][Height[tip] + 1 - i]
                   undone == [i \in 1..n |-> [kind |-> "Undo", block |-> x(i)]]
                   mark == [kind |-> "Mark", block |-> b]
                   more == undone \o <<mark>>
        <3>1. tip' = b /\ log' = log \o undone \o <<mark>>
            BY <2>2, Zenon DEF RollBackTo
        <3>2. /\ tip \in Node /\ Height[tip] \in Nat /\ n \in Nat
              /\ Height[b] \in 1..Height[tip]
            <4>1. tip \in Node /\ Height[tip] \in Nat
                BY <1>1, ParentHeight, Zenon
            <4>2. Len(Chain[tip]) = Height[tip]
                BY <4>1, ChainIsPath, Zenon DEF Path
            <4>3. PICK i \in 1..Height[tip] : b = Chain[tip][i]
                BY <2>2, <4>2, Zenon DEF RollBackTo, OnChain, Elems
            <4>4. Height[b] = i
                BY <4>1, <4>3, OnPath, Zenon
            <4> QED
                BY <4>1, <4>3, <4>4
        <3>3. ASSUME NEW i \in 1..n PROVE x(i) \in Block
            <4>1. Height[tip] + 1 - i \in 1..Height[tip]
                BY <3>2
            <4> QED
                BY <3>2, <4>1, OnPath, Zenon
        <3>4. undone \in Seq(Entries) /\ Len(undone) = n /\ \A i \in 1..n : undone[i].kind = "Undo"
            <4>1. ASSUME NEW i \in 1..n PROVE [kind |-> "Undo", block |-> x(i)] \in Entries
                <5>1. x(i) \in Block
                    BY <3>3, Zenon
                <5> HIDE DEF x
                <5> QED
                    BY <5>1, Zenon DEF Entries
            <4> HIDE DEF n, x
            <4> QED
                BY <3>2, <4>1
        <3>5. mark \in Entries /\ mark.kind = "Mark" /\ mark.block = b
            BY DEF Entries
        <3> HIDE DEF undone, mark, n
        <3>6. /\ more \in Seq(Entries) /\ Len(more) = n + 1 /\ more[n + 1] = mark
              /\ \A i \in 1..n : more[i] = undone[i]
            BY <3>2, <3>4, <3>5
        <3>7. log' = log \o more
            BY <1>1, <3>1, <3>4, <3>5
        <3>8. \A i \in 1..(n + 1) : more[i].kind # "Apply"
            <4>1. \A i \in 1..(n + 1) : i = n + 1 \/ i \in 1..n
                BY <3>2
            <4> HIDE DEF more
            <4> QED
                BY <3>4, <3>5, <3>6, <4>1, Zenon
        <3> HIDE DEF more
        <3>9. /\ log' \in Seq(Entries) /\ Len(log') = Len(log) + (n + 1)
              /\ \A i \in 1..Len(log) : log'[i] = log[i]
              /\ \A i \in 1..(n + 1) : log'[Len(log) + i] = more[i]
            <4> DEFINE c == log \o more
            <4>1. log \in Seq(Entries) /\ more \in Seq(Entries) /\ Len(more) = n + 1
                BY <1>1, <3>6, Zenon
            <4>2. /\ c \in Seq(Entries) /\ Len(c) = Len(log) + Len(more)
                  /\ \A i \in 1..Len(log) : c[i] = log[i]
                  /\ \A i \in 1..Len(more) : c[Len(log) + i] = more[i]
                BY <4>1
            <4> HIDE DEF c
            <4> QED
                BY <3>7, <4>1, <4>2, Zenon DEF c
        <3>10. ASSUME NEW i \in 1..(Len(log') - 1), log'[i + 1].kind = "Apply"
               PROVE  log'[i].kind # "Undo" /\ log'[i].block = Parent[log'[i + 1].block]
            <4>1. i + 1 <= Len(log)
                <5> SUFFICES ASSUME ~(i + 1 <= Len(log)) PROVE FALSE
                    BY Zenon
                <5>1. i + 1 - Len(log) \in 1..(n + 1) /\ i + 1 = Len(log) + (i + 1 - Len(log))
                    BY <1>1, <3>2, <3>9
                <5> QED
                    BY <3>8, <3>9, <3>10, <5>1
            <4>2. i \in 1..(Len(log) - 1) /\ i \in 1..Len(log) /\ i + 1 \in 1..Len(log)
                BY <1>1, <3>2, <3>9, <4>1, SMTT(30)
            <4> QED
                BY <1>1, <3>9, <3>10, <4>2, Zenon
        <3>11. Logged'
            <4>1. log'[Len(log')] = mark
                BY <1>1, <3>2, <3>6, <3>9
            <4> QED
                BY <3>1, <3>5, <3>9, <3>10, <4>1, Zenon DEF Logged
        <3>12. Len(log') \in Nat /\ Len(log) <= Len(log')
            BY <1>1, <3>2, <3>9
        <3> QED
            BY <3>9, <3>11, <3>12, Zenon
    <2> HIDE DEF Grown
    <2> QED
        BY <2>1, <2>2, Zenon DEF Upstream
<1>4. StoreInv' /\ Sourced'
    BY <1>1, <1>2, <1>3, StoreUntouched, SourcedLater, Zenon DEF FollowInv, StoreInv
<1>5. Queued'
    BY <1>2, Zenon DEF FollowInv, Queued, HeldPoint, Top, storeVars, memVars
<1> QED
    BY <1>3, <1>4, <1>5, Zenon DEF FollowInv, StoreInv

\* The source sends one message, or none, and stands where the queue ends.
LEMMA SourceSends ==
    ASSUME FollowInv, UNCHANGED <<storeVars, upVars>>,
           \/ queue' = queue
           \/ \E e \in Messages : /\ queue' = Append(queue, e)
                                  /\ e.kind = "fwd" => Parent[e.block] = SentPoint,
           Sourced'
    PROVE  FollowInv'
<1>1. HeldPoint' = HeldPoint
    BY DEF HeldPoint, Top, storeVars, memVars
<1>2. Queued'
    <2>1. CASE queue' = queue
        BY <1>1, <2>1, Zenon DEF FollowInv, Queued
    <2>2. ASSUME NEW e \in Messages, queue' = Append(queue, e),
                 e.kind = "fwd" => Parent[e.block] = SentPoint
          PROVE  Queued'
        <3>1. queue \in Seq(Messages) /\ Linked(queue, HeldPoint)
            BY Zenon DEF FollowInv, Queued
        <3>2. Append(queue, e) \in Seq(Messages) /\ Linked(Append(queue, e), HeldPoint)
            BY <2>2, <3>1, LinkedAppend, Zenon DEF SentPoint
        <3> QED
            BY <1>1, <2>2, <3>2, Zenon DEF Queued
    <2> QED
        BY <2>1, <2>2, Zenon
<1>3. Logged'
    BY DEF FollowInv, Logged, upVars
<1> QED
    BY <1>2, <1>3, StoreUntouched, Zenon DEF FollowInv, StoreInv

\* Bootstrap: a rollback to the newest persisted point on the chain, or nothing.
LEMMA SourceBootstrapStep ==
    ASSUME FollowInv, SourceBootstrap
    PROVE  FollowInv'
<1>1. UNCHANGED <<storeVars, upVars>> /\ smode = "boot"
    BY DEF SourceBootstrap
<1>2. /\ HeldPoint' = HeldPoint /\ step' = step /\ mutable' = mutable
    BY <1>1 DEF HeldPoint, Top, storeVars, memVars, runVars
<1>3. DOMAIN meta # {} /\ DOMAIN meta \subseteq Block
    <2>1. Top \in Block
        BY PointsAreBlocks, Zenon
    <2>2. PICK lo, hi \in Nat : Covers(meta, Top, lo, hi)
        BY DEF FollowInv, StoreInv, Persisted
    <2>3. lo <= hi /\ \A h \in lo..hi : Chain[Top][h] \in DOMAIN meta
        BY <2>1, <2>2, CoversBlocks, Zenon
    <2>4. \A b \in DOMAIN meta : b \in Block
        BY <2>1, <2>2, CoversBlocks, Zenon
    <2>5. lo \in lo..hi
        BY <2>3
    <2> QED
        BY <2>3, <2>4, <2>5, Zenon
<1>4. queue \in Seq(Messages) /\ Linked(queue, HeldPoint)
    BY Zenon DEF FollowInv, Queued
<1>5. ASSUME NEW b \in NewestOnChain, Intersected(b), queue' = ResumeAt(b)
      PROVE  FollowInv'
    <2> DEFINE e == Back(b, TRUE)
    <2>1. b \in Block
        BY <1>3, Zenon DEF NewestOnChain
    <2>2. e \in Messages /\ e.kind = "back" /\ e.mutable = TRUE /\ e.block = b
        BY <2>1 DEF Back, Messages
    <2> HIDE DEF e
    <2>3. queue' = Append(queue, e)
        BY <1>5, Zenon DEF ResumeAt, e
    <2>4. EndOf(queue', HeldPoint) = b /\ queue' # <<>>
          /\ queue'[1] = IF queue = <<>> THEN e ELSE queue[1]
        <3>1. e.kind = "fwd" => Parent[e.block] = EndOf(queue, HeldPoint)
            BY <2>2
        <3> QED
            BY <1>4, <2>2, <2>3, <3>1, LinkedAppend, SMTT(30)
    <2>5. smode' = "dump" /\ scursor' = b
        BY <1>5, Zenon DEF Intersected
    <2>6. Sourced'
        BY <1>2, <2>2, <2>4, <2>5, Zenon DEF Sourced, SentPoint, FollowInv
    <2> QED
        BY <1>1, <2>2, <2>3, <2>6, SourceSends, Zenon
<1>6. ASSUME NotIntersected, queue' = queue
      PROVE  FollowInv'
    <2>1. Sourced'
        BY <1>2, <1>6, Zenon DEF NotIntersected, Sourced, FollowInv
    <2> QED
        BY <1>1, <1>6, <2>1, SourceSends, Zenon
<1> QED
    BY <1>3, <1>5, <1>6, Zenon DEF SourceBootstrap

\* A stream passes on the next entry of the log, and skips those of undone blocks.
LEMMA StreamStep ==
    ASSUME FollowInv, Stream
    PROVE  FollowInv'
<1>1. /\ UNCHANGED <<storeVars, upVars>> /\ smode = "stream" /\ smode' = smode
      /\ spos' = spos + 1 /\ spos < Len(log)
    BY Zenon DEF Stream
<1>2. /\ HeldPoint' = HeldPoint /\ step' = step /\ mutable' = mutable /\ log' = log
    BY <1>1, Zenon DEF HeldPoint, Top, storeVars, memVars, runVars, upVars
<1>3. /\ log \in Seq(Entries) /\ spos \in 1..Len(log) /\ spos' \in 1..Len(log)
      /\ spos \in 1..(Len(log) - 1)
      /\ log[spos].kind # "Undo" => log[spos].block = SentPoint
    BY <1>1 DEF FollowInv, Sourced, Logged
<1> DEFINE e == log[spos + 1]
<1>4. e \in Entries /\ log'[spos'] = e
    BY <1>1, <1>2, <1>3
<1>5. ~mutable => queue # <<>> /\ queue[1].mutable
    BY <1>1, Zenon DEF FollowInv, Sourced
<1>6. CASE e.kind = "Undo"
    <2>1. queue' = queue
        BY <1>6, Zenon DEF Stream
    <2>2. Sourced'
        BY <1>1, <1>2, <1>3, <1>4, <1>5, <1>6, <2>1, Zenon DEF Sourced, FollowInv
    <2> QED
        BY <1>1, <2>1, <2>2, SourceSends, Zenon
<1>7. CASE e.kind # "Undo"
    <2> DEFINE u == IF e.kind = "Apply" THEN Fwd(e.block, TRUE) ELSE Back(e.block, FALSE)
    <2>1. queue' = Append(queue, u)
        BY <1>7, Zenon DEF Stream
    <2>2. u \in Messages /\ u.block = e.block /\ (u.kind = "fwd" <=> e.kind = "Apply")
        <3>1. e.block \in Block /\ e.kind \in {"Apply", "Undo", "Mark"}
            BY <1>4, Zenon DEF Entries
        <3> HIDE DEF e
        <3> QED
            BY <3>1, Zenon DEF Fwd, Back, Messages
    <2> HIDE DEF u
    <2>3. u.kind = "fwd" => Parent[u.block] = SentPoint
        <3>1. e.kind = "Apply" => log[spos].kind # "Undo" /\ log[spos].block = Parent[e.block]
            BY <1>3, Zenon DEF FollowInv, Logged
        <3> QED
            BY <1>3, <2>2, <3>1, Zenon
    <2>4. EndOf(queue', HeldPoint) = e.block /\ queue' # <<>>
          /\ queue'[1] = IF queue = <<>> THEN u ELSE queue[1]
        <3>1. queue \in Seq(Messages) /\ Linked(queue, HeldPoint)
            BY DEF FollowInv, Queued
        <3> QED
            BY <2>1, <2>2, <2>3, <3>1, LinkedAppend, Zenon DEF SentPoint
    <2>5. Sourced'
        <3> HIDE DEF e
        <3> QED
            BY <1>1, <1>2, <1>3, <1>4, <1>5, <2>4, Zenon DEF Sourced, SentPoint, FollowInv
    <2> QED
        BY <1>1, <2>1, <2>2, <2>3, <2>5, SourceSends, Zenon
<1> QED
    BY <1>6, <1>7, Zenon

\* A page continues the chain above the dump cursor.
LEMMA PageStep ==
    ASSUME FollowInv, Page
    PROVE  FollowInv'
<1>1. /\ UNCHANGED <<storeVars, upVars, smode>> /\ smode = "dump" /\ NextPage # <<>>
      /\ scursor = NoBlock \/ OnChain(scursor, tip)
      /\ queue' = queue \o [i \in 1..Len(NextPage) |-> Fwd(NextPage[i], FALSE)]
      /\ scursor' = NextPage[Len(NextPage)]
    BY Zenon DEF Page
<1>2. /\ HeldPoint' = HeldPoint /\ step' = step /\ mutable' = mutable /\ UNCHANGED <<log, tip>>
    BY <1>1, Zenon DEF HeldPoint, Top, storeVars, memVars, runVars, upVars
<1>3. scursor = SentPoint /\ scursor \in Block /\ scursor # NoBlock
    BY <1>1, PointsAreBlocks, StorageAssumption, Zenon DEF FollowInv, Sourced, Node
<1> DEFINE f == Height[scursor]
           n == Height[tip]
           to == IF f + PageSize < n THEN f + PageSize ELSE n
           c == Chain[tip]
           page == NextPage
<1>4. tip \in Node /\ n \in Nat /\ c \in Seq(Block) /\ Len(c) = n
    BY ParentHeight, ChainIsPath, Zenon DEF FollowInv, Logged, Path
<1>5. f \in 1..n /\ c[f] = scursor
    <2>1. PICK i \in 1..n : scursor = c[i]
        BY <1>1, <1>3, <1>4, Zenon DEF OnChain, Elems
    <2>2. Height[c[i]] = i
        BY <1>4, <2>1, OnPath, Zenon
    <2> QED
        BY <2>1, <2>2, Zenon
<1>6. page = SubSeq(c, f + 1, to) /\ to \in 1..n
    <2>1. page = SubSeq(c, f + 1, to)
        BY <1>3, Zenon DEF NextPage
    <2>2. to \in 1..n
        <3> HIDE DEF f, n
        <3> QED
            BY <1>4, <1>5, IndexerAssumption
    <2> QED
        BY <2>1, <2>2
<1> HIDE DEF to, f, n, c
<1>7. /\ page \in Seq(Block) /\ Len(page) = to - f /\ Len(page) >= 1 /\ Len(page) \in Nat
      /\ \A i \in 1..Len(page) : page[i] = c[f + i] /\ f + i \in 1..n
    <2> HIDE DEF page
    <2>1. page \in Seq(Block) /\ Len(page) \in Nat
        BY <1>4, <1>5, <1>6
    <2>2. Len(page) >= 1
        BY <1>1, <2>1 DEF page
    <2>3. Len(page) = IF f + 1 <= to THEN to - f ELSE 0
        BY <1>4, <1>5, <1>6
    <2>4. f + 1 <= to
        BY <2>2, <2>3, <1>4, <1>5, <1>6, SMTT(30)
    <2> QED
        BY <1>4, <1>5, <1>6, <2>1, <2>2, <2>3, <2>4, SMTT(30)
<1> DEFINE s == [i \in 1..Len(page) |-> Fwd(page[i], FALSE)]
<1>8. /\ s \in Seq(Messages) /\ Len(s) = Len(page)
      /\ \A i \in 1..Len(page) : s[i].block = page[i]
    <2>1. ASSUME NEW i \in 1..Len(page)
          PROVE  Fwd(page[i], FALSE) \in Messages /\ Fwd(page[i], FALSE).block = page[i]
        <3>1. page[i] \in Block
            BY <1>7
        <3> HIDE DEF page
        <3> QED
            BY <3>1, Zenon DEF Fwd, Messages
    <2>2. Len(page) \in Nat
        BY <1>7
    <2> HIDE DEF page
    <2>3. s \in [1..Len(page) -> Messages]
        BY <2>1, Zenon
    <2>4. s \in Seq(Messages) /\ Len(s) = Len(page)
        <3> HIDE DEF s
        <3> QED
            BY <2>2, <2>3
    <2> QED
        BY <2>1, <2>4, Zenon
<1> HIDE DEF s, page
<1>9. ASSUME NEW i \in 1..Len(s)
      PROVE  Parent[s[i].block] = IF i = 1 THEN scursor ELSE s[i - 1].block
    <2>1. f + i # 1 /\ f + i \in 1..n /\ (f + i) - 1 = f + (i - 1)
        BY <1>4, <1>5, <1>7, <1>8
    <2>2. Parent[c[f + i]] = c[f + (i - 1)]
        BY <1>4, <2>1, OnPath, SMTT(30) DEF c, n
    <2>3. s[i].block = c[f + i]
        BY <1>7, <1>8, Zenon
    <2>4. CASE i = 1
        BY <1>4, <1>5, <2>2, <2>3, <2>4, SMTT(30)
    <2>5. CASE i # 1
        <3>1. i - 1 \in 1..Len(page) /\ i - 1 \in 1..Len(s)
            BY <1>7, <1>8, <2>5, SMTT(30)
        <3> QED
            BY <1>7, <1>8, <2>2, <2>3, <2>5, <3>1, Zenon
    <2> QED
        BY <2>4, <2>5, Zenon
<1>10. Linked(s, SentPoint)
    BY <1>3, <1>9, Zenon DEF Linked
<1>11. queue \in Seq(Messages) /\ Linked(queue, HeldPoint) /\ queue' = queue \o s
    BY <1>1, Zenon DEF FollowInv, Queued, s, page
<1>12. /\ queue \o s \in Seq(Messages) /\ Linked(queue \o s, HeldPoint)
       /\ EndOf(queue \o s, HeldPoint) = EndOf(s, SentPoint)
       /\ queue # <<>> => (queue \o s)[1] = queue[1] /\ queue \o s # <<>>
    BY <1>8, <1>10, <1>11, LinkedConcat, Zenon DEF SentPoint
<1>13. EndOf(s, SentPoint) = scursor'
    <2>1. s # <<>> /\ Len(page) \in 1..Len(page)
        BY <1>7, <1>8
    <2> QED
        BY <1>1, <1>8, <2>1, Zenon DEF EndOf, page
<1>14. Queued'
    BY <1>2, <1>11, <1>12, Zenon DEF Queued
<1>15. Sourced'
    <2>1. SentPoint' = scursor'
        BY <1>2, <1>11, <1>12, <1>13, Zenon DEF SentPoint
    <2>2. ~mutable => queue # <<>> /\ queue[1].mutable
        BY <1>1, Zenon DEF FollowInv, Sourced
    <2> QED
        BY <1>1, <1>2, <1>11, <1>12, <2>1, <2>2, Zenon DEF Sourced
<1>16. Logged'
    BY <1>2, Zenon DEF FollowInv, Logged
<1> QED
    BY <1>1, <1>14, <1>15, <1>16, StoreUntouched, Zenon DEF FollowInv, StoreInv

\* Every step of the source.
LEMMA SourceSteps ==
    ASSUME FollowInv, SourceStep \/ SourceFault
    PROVE  FollowInv'
<1>1. CASE OpenStream
    <2>1. /\ UNCHANGED <<storeVars, upVars, queue, scursor>> /\ smode = "dump"
          /\ smode' = "stream" /\ spos' \in FindInLog(scursor)
        BY <1>1, Zenon DEF OpenStream
    <2>2. SentPoint' = SentPoint /\ step' = step /\ mutable' = mutable /\ log' = log
        BY <2>1, Zenon DEF SentPoint, HeldPoint, Top, storeVars, memVars, runVars, upVars
    <2>3. spos' \in 1..Len(log) /\ log[spos'].block = scursor
        BY <2>1, Zenon DEF FindInLog
    <2>4. Sourced'
        BY <2>1, <2>2, <2>3, Zenon DEF FollowInv, Sourced
    <2> QED
        BY <2>1, <2>4, SourceSends, Zenon
<1>2. CASE PageNotFound \/ SourceFault
    <2>1. /\ UNCHANGED <<storeVars, upVars, queue>> /\ smode' = "boot"
        BY <1>2, Zenon DEF PageNotFound, SourceFault
    <2>2. step' = step /\ mutable' = mutable
        BY <2>1, Zenon DEF storeVars, memVars, runVars
    <2>3. Sourced'
        BY <2>1, <2>2, Zenon DEF FollowInv, Sourced
    <2> QED
        BY <2>1, <2>3, SourceSends, Zenon
<1> QED
    BY <1>1, <1>2, SourceBootstrapStep, StreamStep, PageStep, Zenon DEF SourceStep
-----------------------------------------------------------------------------
(* The storage worker.                                                     *)

\* A step of the worker that leaves the point where it will stand as it is.
LEMMA WorkerMoves ==
    ASSUME FollowInv, UNCHANGED <<upVars, queue, sourceVars>>, mutable,
           UNCHANGED mutable, HeldPoint' = HeldPoint, StoreInv'
    PROVE  FollowInv'
<1>1. UNCHANGED <<tip, log, queue, smode, scursor, spos>>
    BY DEF upVars, sourceVars
<1>2. SentPoint' = SentPoint
    BY <1>1, Zenon DEF SentPoint
<1>3. Queued'
    BY <1>1, Zenon DEF FollowInv, Queued
<1>4. Sourced'
    BY <1>1, <1>2, Zenon DEF FollowInv, Sourced
<1>5. Logged'
    BY <1>1, Zenon DEF FollowInv, Logged
<1> QED
    BY <1>3, <1>4, <1>5, Zenon DEF FollowInv, StoreInv

\* The worker takes the first message of the queue.
LEMMA ReceiveStep ==
    ASSUME FollowInv, Receive
    PROVE  FollowInv'
<1>1. /\ unit2pc = NoUnit /\ queue # <<>> /\ queue' = Tail(queue)
      /\ UNCHANGED <<upVars, sourceVars>>
    BY DEF Receive
<1>2. PICK full \in BOOLEAN : Start(Head(queue), full)
    BY Zenon DEF Receive
<1>3. queue \in Seq(Messages) /\ Linked(queue, Top) /\ HeldPoint = Top
    BY <1>1, Zenon DEF FollowInv, Queued, HeldPoint
<1> DEFINE u == queue[1]
<1>4. /\ Head(queue) = u /\ u \in Messages
      /\ u.kind = "fwd" => Parent[u.block] = Top
      /\ Tail(queue) \in Seq(Messages) /\ Linked(Tail(queue), u.block)
      /\ EndOf(Tail(queue), u.block) = EndOf(queue, Top)
    BY <1>1, <1>3, LinkedTail, Zenon
<1>5. mutable \/ u.mutable
    BY <1>1, Zenon DEF FollowInv, Sourced
<1> HIDE DEF u
<1>6. StoreInv' /\ unit2pc' = u /\ mutable'
    BY <1>1, <1>2, <1>4, <1>5, UnitStarts, Zenon DEF FollowInv
<1>7. HeldPoint' = u.block /\ SentPoint' = SentPoint
    <2>1. u # NoUnit
        BY <1>4 DEF Messages, NoUnit
    <2>2. HeldPoint' = u.block
        BY <1>6, <2>1, Zenon DEF HeldPoint
    <2> QED
        BY <1>1, <1>3, <1>4, <2>2, Zenon DEF SentPoint
<1>8. UNCHANGED <<tip, log, smode, scursor, spos>>
    BY <1>1, Zenon DEF upVars, sourceVars
<1>9. Queued'
    BY <1>1, <1>4, <1>7, Zenon DEF Queued
<1>10. Sourced'
    BY <1>6, <1>7, <1>8, Zenon DEF FollowInv, Sourced
<1>11. Logged'
    BY <1>8 DEF FollowInv, Logged
<1> QED
    BY <1>6, <1>9, <1>10, <1>11, Zenon DEF FollowInv, StoreInv

\* A process that starts finds in TiKV what the one before it held, unless that
\* one was rolling back.
LEMMA RebuildStep ==
    ASSUME FollowInv, Rebuild, ~RollingBack
    PROVE  FollowInv'
<1>1. /\ ProcessRestart /\ queue' = <<>> /\ smode' = "boot" /\ UNCHANGED <<tip, log>>
    BY DEF Rebuild, upVars
<1>2. StoreInv'
    BY <1>1, ProcessRestartStep, Zenon DEF FollowInv
<1>3. Queued'
    BY <1>1 DEF Queued, Linked
<1>4. Sourced'
    BY <1>1, Zenon DEF Sourced
<1>5. Logged'
    BY <1>1, Zenon DEF FollowInv, Logged
<1> QED
    BY <1>2, <1>3, <1>4, <1>5, Zenon DEF FollowInv

\* Every step.
LEMMA FollowNext ==
    ASSUME FollowInv, Next, Rebuild => ~RollingBack
    PROVE  FollowInv'
<1>1. ASSUME Reschedule \/ StoreStep \/ WorkerRestart, UNCHANGED <<upVars, queue, sourceVars>>
      PROVE  FollowInv'
    <2>1. StoreInv' /\ mutable /\ UNCHANGED <<mutable, HeldPoint>>
        BY <1>1, StoreStepInv, WorkerRestartStep, Zenon DEF FollowInv
    <2> QED
        BY <1>1, <2>1, WorkerMoves, Zenon
<1>2. CASE StorageStep \/ WorkerFault
    BY <1>1, <1>2, ReceiveStep, Zenon DEF StorageStep, WorkerFault
<1>3. CASE ExitOnPanic \/ Crash
    BY <1>3, RebuildStep, Zenon DEF ExitOnPanic, Crash
<1> QED
    BY <1>2, <1>3, UpstreamStep, SourceSteps, Zenon DEF Next

\* Nothing changes.
LEMMA FollowStutter ==
    ASSUME FollowInv, UNCHANGED vars
    PROVE  FollowInv'
<1>1. UNCHANGED <<storeVars, tip, log, queue, smode, scursor, spos>>
    BY Zenon DEF vars, upVars, sourceVars
<1>2. SentPoint' = SentPoint /\ HeldPoint' = HeldPoint /\ step' = step /\ mutable' = mutable
    BY <1>1, Zenon DEF SentPoint, HeldPoint, Top, storeVars, memVars, runVars
<1>3. Queued' /\ Sourced' /\ Logged'
    BY <1>1, <1>2, Zenon DEF FollowInv, Queued, Sourced, Logged
<1> QED
    BY <1>1, <1>3, StoreUntouched, Zenon DEF FollowInv, StoreInv
-----------------------------------------------------------------------------
(* The cursor's way through the tree.                                      *)

\* Of two blocks of a buffer the lower one is an ancestor of the other.
LEMMA BufferBelow ==
    ASSUME NEW buf, IsBuffer(buf), NEW i \in 1..Len(buf), NEW j \in 1..Len(buf), i <= j
    PROVE  Follower!Below(buf[j].point, buf[i].point)
<1> DEFINE a == buf[j].point
           b == buf[i].point
           S == {buf[h].point : h \in i..j}
           t == Height[buf[1].point]
<1>1. /\ t \in Nat /\ Len(buf) \in Nat
      /\ \A h \in 1..Len(buf) : buf[h].point \in Block /\ Height[buf[h].point] = t + 1 - h
      /\ \A h \in 1..(Len(buf) - 1) : Parent[buf[h].point] = buf[h + 1].point
    BY BufferBlocks, Zenon
<1> HIDE DEF t
<1>2. ASSUME NEW x \in S
      PROVE  /\ x \in Node /\ Height[a] <= Height[x] /\ Height[x] <= Height[b]
             /\ Height[x] = Height[a] => x = a
             /\ x # a => Parent[x] \in S
    <2>1. PICK h \in i..j : x = buf[h].point
        BY Zenon
    <2>2. h \in 1..Len(buf) /\ i <= h /\ h <= j /\ h \in Nat /\ i \in Nat /\ j \in Nat
        <3> HIDE DEF a, b, S
        <3>1. h \in i..j /\ i \in 1..Len(buf) /\ j \in 1..Len(buf) /\ Len(buf) \in Nat
            BY <1>1, <2>1, Zenon
        <3> QED
            BY <3>1, SMTT(30)
    <2>3. Height[x] = t + 1 - h /\ Height[a] = t + 1 - j /\ Height[b] = t + 1 - i
        BY <1>1, <2>1, <2>2, Zenon
    <2>4. x # a => Parent[x] \in S
        <3> SUFFICES ASSUME x # a PROVE Parent[x] \in S
            BY Zenon
        <3>1. h # j
            BY <2>1, Zenon
        <3>2. h \in 1..(Len(buf) - 1) /\ h + 1 \in i..j
            BY <1>1, <2>2, <3>1, SMTT(30)
        <3>3. Parent[x] = buf[h + 1].point
            BY <1>1, <2>1, <3>2, Zenon
        <3> QED
            BY <3>2, <3>3, Zenon
    <2>5. Height[x] = Height[a] => h = j
        BY <1>1, <2>2, <2>3
    <2>6. Height[a] <= Height[x] /\ Height[x] <= Height[b]
        <3> HIDE DEF a, b
        <3> QED
            BY <1>1, <2>2, <2>3, SMTT(30)
    <2>7. x \in Node
        BY <1>1, <2>1, <2>2, Zenon DEF Node
    <2> QED
        BY <2>1, <2>4, <2>5, <2>6, <2>7, Zenon
<1>3. a \in S /\ b \in S
    <2>1. i \in i..j /\ j \in i..j
        BY <1>1
    <2> QED
        BY <2>1, Zenon
<1> HIDE DEF a, b, S
<1>4. Follower!Segment(S, a, b)
    BY <1>2, <1>3, Zenon DEF Follower!Segment
<1>5. S \in SUBSET {x \in Node : Height[a] <= Height[x] /\ Height[x] <= Height[b]}
    BY <1>2, Zenon
<1>6. Follower!Below(a, b)
    BY <1>4, <1>5, Zenon DEF Follower!Below, Follower!Node, Node
<1> QED
    BY <1>6, Zenon DEF a, b

\* A block's parent is below it.
LEMMA ParentBelow ==
    ASSUME NEW b \in Block
    PROVE  Follower!Below(Parent[b], b)
<1> DEFINE a == Parent[b]
           S == {a, b}
<1>1. /\ a \in Node /\ b \in Node /\ Height[a] \in Nat /\ Height[b] \in Nat
      /\ Height[b] = Height[a] + 1
    BY ParentHeight, Zenon
<1>2. Follower!Segment(S, a, b)
    BY <1>1 DEF Follower!Segment
<1>3. S \in SUBSET {x \in Node : Height[a] <= Height[x] /\ Height[x] <= Height[b]}
    <2> HIDE DEF a
    <2> QED
        BY <1>1
<1> QED
    BY <1>2, <1>3, Zenon DEF Follower!Below, Follower!Node, Node

\* Every step of the indexer moves the cursor along a branch.
LEMMA CursorStep ==
    ASSUME FollowInv, FollowInv', Next
    PROVE  [Follower!Follow]_CursorBlock
<1>1. /\ cursor \in Block => CursorBlock = cursor
      /\ cursor' \in Block => CursorBlock' = cursor'
    BY StorageAssumption, Zenon DEF CursorBlock, Node
<1>2. CASE CommitBlock
    <2>1. step = "block" /\ cursor' = unit.block
        BY <1>2, Zenon DEF CommitBlock
    <2>2. unit = unit2pc /\ unit.kind = "fwd" /\ unit2pc \in Messages /\ Parent[unit.block] = Top
        BY <2>1 DEF FollowInv, StoreInv, Running, NoUnit
    <2>3. ~RollingBack /\ unit.block \in Block /\ Top \in Block
        BY <2>2, PointsAreBlocks, Zenon DEF RollingBack, Messages
    <2>4. cursor = Top
        BY <2>3, Zenon DEF FollowInv, StoreInv, Data
    <2>5. Follower!Below(CursorBlock, cursor') /\ CursorBlock' = cursor' /\ cursor' \in Node
        BY <1>1, <2>1, <2>2, <2>3, <2>4, ParentBelow, Zenon DEF Node
    <2> QED
        BY <2>5, Zenon DEF Follower!Follow, Follower!Forward, Follower!Node, Node
<1>3. CASE UndoBlock
    <2>1. RollingBack /\ RollingBack' /\ buffer' = buffer /\ unit2pc' = unit2pc
        BY <1>3, RollbackPlace, Zenon DEF FollowInv, UndoBlock, memVars, RollingBack
    <2>2. /\ IsBuffer(buffer) /\ Len(buffer) \in Nat
          /\ Place(unit2pc.block) \in 1..Len(buffer)
        BY <1>3, RollbackPlace, Zenon DEF FollowInv, UndoBlock
    <2>3. PICK v \in 1..Len(buffer) : cursor = buffer[v].point
        <3>1. \E v \in 1..Place(unit2pc.block) : cursor = buffer[v].point
            BY <2>1, Zenon DEF FollowInv, StoreInv, Data
        <3> QED
            BY <2>2, <3>1, SMTT(30)
    <2>4. PICK w \in 1..Len(buffer) : cursor' = buffer[w].point
        <3>1. Place(unit2pc.block)' = Place(unit2pc.block)
            BY <2>1, Zenon DEF Place, Top
        <3>2. \E w \in 1..Place(unit2pc.block) : cursor' = buffer[w].point
            BY <2>1, <3>1, Zenon DEF FollowInv, StoreInv, Data
        <3> QED
            BY <2>2, <3>2
    <2>5. cursor \in Block /\ cursor' \in Block
        BY <2>2, <2>3, <2>4, BufferBlocks, Zenon
    <2>6. w <= v \/ v <= w
        BY <2>2
    <2>7. Follower!Below(cursor, cursor') \/ Follower!Below(cursor', cursor)
        BY <2>2, <2>3, <2>4, <2>6, BufferBelow, Zenon
    <2> QED
        BY <1>1, <2>5, <2>7, Zenon
        DEF Follower!Follow, Follower!Forward, Follower!Backward, Follower!Node, Node
<1>4. ASSUME cursor' = cursor PROVE [Follower!Follow]_CursorBlock
    BY <1>4 DEF CursorBlock
<1>5. cursor' = cursor \/ CommitBlock \/ UndoBlock
    <2>1. CASE StorageStep
        <3>1. ~(BulkCommit \/ CommitSets \/ CommitOthers \/ BulkFinish)
            BY DEF FollowInv, StoreInv, Running, BulkCommit, CommitSets, CommitOthers, BulkFinish
        <3> QED
            BY <2>1, <3>1, ZenonT(30) DEF StorageStep, Receive, Reschedule, Start, StoreStep, Publish,
                AdvertiseBlock, Gc, NothingToUndo, Trim, tikvVars
    <2>2. CASE Upstream \/ SourceStep \/ SourceFault
        BY <2>2, Zenon DEF Upstream, Extend, RollBackTo, SourceStep, SourceBootstrap, OpenStream,
            Page, PageNotFound, Stream, SourceFault, storeVars, tikvVars
    <2>3. CASE WorkerFault \/ ExitOnPanic \/ Crash
        BY <2>3 DEF WorkerFault, WorkerRestart, ExitOnPanic, Crash, Rebuild, ProcessRestart,
            tikvVars
    <2> QED
        BY <2>1, <2>2, <2>3 DEF Next
<1> QED
    BY <1>2, <1>3, <1>4, <1>5, Zenon
-----------------------------------------------------------------------------
(* What an instance that follows the tip keeps.                            *)

\* The inductive invariant, for an instance that resumes and is not stopped while
\* it rolls back.  Any other crash, failed call or fault of the source may happen,
\* the chain may return to blocks it abandoned, and reorgs have any depth.
THEOREM FollowInvariant == Resumed => (Spec /\ NeverStoppedRollingBack => []FollowInv)
<1> SUFFICES ASSUME Resumed PROVE Spec /\ NeverStoppedRollingBack => []FollowInv
    OBVIOUS
<1>1. Init => FollowInv
    BY FollowInit, Zenon
<1>2. FollowInv /\ [Next]_vars /\ [Rebuild => ~RollingBack]_vars => FollowInv'
    BY FollowNext, FollowStutter, Zenon
<1> QED
    BY <1>1, <1>2, PTL DEF Spec, NeverStoppedRollingBack

\* Between two units the data in TiKV is what the blocks up to the cursor produce:
\* commits, undo transactions, their repetition from work_unit_2pc and the
\* fetching of the persisted buffer compose to that.
THEOREM DataIsOfTheCursor ==
    Resumed => (Spec /\ NeverStoppedRollingBack => []DataMatchesCursor)
<1>1. FollowInv => DataMatchesCursor
    <2> SUFFICES ASSUME FollowInv, AtRest PROVE kv = Expected(cursor)
        BY Zenon DEF DataMatchesCursor
    <2>1. ~RollingBack
        BY DEF AtRest, RollingBack, NoUnit
    <2> QED
        BY <2>1, Zenon DEF FollowInv, StoreInv, Data
<1> QED
    BY <1>1, FollowInvariant, PTL

\* A reader that opens a snapshot at the timestamp of a published entry finds the
\* cursor the entry names (create_cursor_entry, and the repair in bootstrap).
THEOREM EntriesNameTheirCursor ==
    Resumed => (Spec /\ NeverStoppedRollingBack => []EntriesRead)
<1>1. FollowInv => EntriesRead
    BY Zenon DEF FollowInv, StoreInv
<1> QED
    BY <1>1, FollowInvariant, PTL

\* fetch_persistent_buffer never finds records of two branches under one height.
THEOREM MetadataIsOfOneBranch ==
    Resumed => (Spec /\ NeverStoppedRollingBack => []MetadataOfOneBranch)
<1>1. FollowInv => MetadataOfOneBranch
    <2> SUFFICES ASSUME FollowInv, NEW b \in DOMAIN meta, NEW c \in DOMAIN meta,
                        Height[b] = Height[c]
                 PROVE  b = c
        BY DEF MetadataOfOneBranch
    <2>1. Top \in Block
        BY PointsAreBlocks, Zenon
    <2>2. PICK lo, hi \in Nat : Covers(meta, Top, lo, hi)
        BY ZenonT(30) DEF FollowInv, StoreInv, Persisted
    <2>3. Chain[Top][Height[b]] = b /\ Chain[Top][Height[c]] = c
        BY <2>1, <2>2, CoversBlocks
    <2> QED
        BY <2>3, Zenon
<1> QED
    BY <1>1, FollowInvariant, PTL

\* The committed cursor moves up to a child or between blocks of the buffer, which
\* stand on one branch: never from one fork to another.
THEOREM CursorFollowsTheChain ==
    Resumed => (Spec /\ NeverStoppedRollingBack => CursorFollows)
<1>1. FollowInv /\ FollowInv' /\ [Next]_vars => [Follower!Follow]_CursorBlock
    <2>1. UNCHANGED vars => UNCHANGED CursorBlock
        BY DEF vars, storeVars, tikvVars, CursorBlock
    <2> QED
        BY <2>1, CursorStep, Zenon
<1> QED
    BY <1>1, FollowInvariant, PTL DEF Spec, CursorFollows
=============================================================================
