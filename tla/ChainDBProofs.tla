---------------------------- MODULE ChainDBProofs ----------------------------
(***************************************************************************)
(* TLAPS proofs about ChainDB, for every block tree, every window and every *)
(* flush period.  The invariants that the model checker examines are, in   *)
(* conjunction, inductive: ChainLinked rests on LastHashIsTip (the prev-   *)
(* hash test reads the in-memory hash, not the table), and WalLinked rests *)
(* on WalContiguous (a new entry continues the entry right below it).      *)
(***************************************************************************)
EXTENDS ChainDB, TLAPS

IInv == TypeOK /\ ChainLinked /\ LastHashIsTip /\ WalContiguous /\ WalLinked

\* The last key of a table without holes is its size (cursor() of the code).
LEMMA LastKeyOfInterval ==
    ASSUME NEW f, NEW n \in Nat, DOMAIN f = 1..n
    PROVE  LastKey(f) = n
<1>1. CASE n = 0
    BY <1>1 DEF LastKey
<1>2. CASE n # 0
    <2>1. n \in DOMAIN f /\ \A k \in DOMAIN f : k <= n
        BY <1>2
    <2>2. \A h \in DOMAIN f : (\A k \in DOMAIN f : k <= h) => h = n
        BY <2>1
    <2>3. DOMAIN f # {}
        BY <2>1
    <2> QED
        BY <2>1, <2>2, <2>3 DEF LastKey
<1> QED
    BY <1>1, <1>2

\* The only blocks without a predecessor in the table are children of genesis.
LEMMA HeightOne ==
    ASSUME NEW b \in Block
    PROVE  /\ Height[b] \in Nat \ {0}
           /\ Height[b] = 1 <=> Parent[b] = Genesis
           /\ Parent[b] # Genesis => Parent[b] \in Block /\ Height[Parent[b]] = Height[b] - 1
<1>1. /\ Parent[b] \in Node /\ b \in Node
      /\ Height[b] \in Nat /\ Height[Parent[b]] \in Nat
      /\ Height[b] = Height[Parent[b]] + 1
      /\ Height[Genesis] = 0
    BY TreeAssumption DEF Node
<1>2. Parent[b] # Genesis => Parent[b] \in Block
    BY <1>1 DEF Node
<1>3. Parent[b] # Genesis => Height[Parent[b]] # 0
    <2> SUFFICES ASSUME Parent[b] # Genesis PROVE Height[Parent[b]] # 0
        OBVIOUS
    <2>1. Height[Parent[b]] = Height[Parent[Parent[b]]] + 1 /\ Parent[Parent[b]] \in Node
        BY <1>2, TreeAssumption
    <2>2. Height[Parent[Parent[b]]] \in Nat
        BY <2>1, TreeAssumption
    <2> QED
        BY <2>1, <2>2
<1> QED
    BY <1>1, <1>2, <1>3

\* ChainDB::open on an empty directory establishes the inductive invariant.
THEOREM InitIInv == Init => IInv
<1> SUFFICES ASSUME Init PROVE IInv
    OBVIOUS
<1>1. DOMAIN blocks = 1..0 /\ DOMAIN wal = {}
    BY DEF Init, Empty
<1>2. TipHeight = 0
    BY <1>1, LastKeyOfInterval DEF TipHeight
<1>3. blocks \in [1..0 -> Block] /\ wal \in [{} -> Log]
    BY DEF Init, Empty
<1>4. TypeOK
    <2>1. TipHeight \in Nat /\ blocks \in [1..TipHeight -> Block]
        BY <1>2, <1>3
    <2>2. DOMAIN wal \subseteq Nat /\ wal \in [DOMAIN wal -> Log]
        BY <1>1, <1>3
    <2>3. /\ next_wal_seq \in Nat \ {0}
          /\ last_block_hash \in Block \cup {NoBlock} /\ retrying \in Block \cup {NoBlock}
        BY DEF Init
    <2>4. mutable \in BOOLEAN
        BY Zenon DEF Init
    <2> QED
        BY <2>1, <2>2, <2>3, <2>4 DEF TypeOK
<1>5. ChainLinked
    BY <1>1 DEF ChainLinked
<1>6. LastHashIsTip
    BY <1>2 DEF Init, LastHashIsTip, Tip
<1>7. WalContiguous /\ WalLinked
    BY <1>1 DEF Init, WalContiguous, WalLinked
<1> QED
    BY <1>4, <1>5, <1>6, <1>7 DEF IInv

-----------------------------------------------------------------------------
\* A log without gaps that ends in number top.
Ends(w, top) ==
    /\ DOMAIN w \subseteq Nat
    /\ w \in [DOMAIN w -> Log]
    /\ top \in DOMAIN w
    /\ \A k \in DOMAIN w : k <= top /\ k..top \subseteq DOMAIN w

\* Each entry of the log continues the one before it.
Linked(w) ==
    \A k \in DOMAIN w : k + 1 \in DOMAIN w => Follows(w[k + 1], w[k])

\* MutableKV::prune keeps a suffix of the log, and with it the last entry when
\* that one is high enough.
LEMMA PruneKeepsSuffix ==
    ASSUME NEW w, NEW top \in Nat, NEW h \in Nat,
           Ends(w, top), Linked(w), Height[w[top].block] >= h
    PROVE  /\ Ends(Prune(w, h), top)
           /\ Linked(Prune(w, h))
           /\ Prune(w, h)[top] = w[top]
<1> DEFINE S == {k \in DOMAIN w : \E j \in DOMAIN w :
                     j <= k /\ Height[w[j].block] >= h}
<1>1. /\ DOMAIN Prune(w, h) = S
      /\ \A k \in S : Prune(w, h)[k] = w[k]
      /\ Prune(w, h) = [k \in S |-> w[k]]
    BY DEF Prune, Retain
<1>2. S \subseteq DOMAIN w /\ top \in S
    BY DEF Ends
<1>3. \A k \in S : k <= top /\ k..top \subseteq S
    <2> SUFFICES ASSUME NEW k \in S, NEW i \in k..top
                 PROVE  k <= top /\ i \in S
        BY DEF Ends
    <2>1. PICK j \in DOMAIN w : j <= k /\ Height[w[j].block] >= h
        OBVIOUS
    <2>2. i \in DOMAIN w /\ i \in Nat /\ j \in Nat /\ k \in Nat /\ k <= top
        BY DEF Ends
    <2> QED
        BY <2>1, <2>2
<1>4. Ends(Prune(w, h), top)
    BY <1>1, <1>2, <1>3 DEF Ends
<1>5. Linked(Prune(w, h))
    BY <1>1, <1>2 DEF Linked
<1> HIDE DEF S
<1> QED
    BY <1>1, <1>2, <1>4, <1>5
-----------------------------------------------------------------------------
\* What the transaction of apply_block_with_context does to a good state: the
\* block becomes the tip of one branch, and the log, if it is kept, ends in its
\* Apply entry.  The block is either a new one, or the one whose flush failed.
LEMMA CommitApplyLemma ==
    ASSUME IInv, NEW b \in Block, NEW m \in BOOLEAN, mutable => m,
           CommitApply(b, m),
           \/ retrying = NoBlock /\ (TipHeight = 0 => Parent[b] = Genesis)
           \/ retrying = b /\ m = mutable
    PROVE  /\ TipHeight' = Height[b]
           /\ blocks' \in [1..TipHeight' -> Block]
           /\ Tip' = b
           /\ ChainLinked'
           /\ m => /\ Ends(wal', next_wal_seq)
                   /\ Linked(wal')
                   /\ wal'[next_wal_seq] = Apply(b)
           /\ ~m => wal' = wal /\ ~mutable
<1> DEFINE n == TipHeight
<1> DEFINE logged == Put(wal, next_wal_seq, Apply(b))
<1>1. /\ n \in Nat /\ blocks \in [1..n -> Block]
      /\ DOMAIN wal \subseteq Nat /\ wal \in [DOMAIN wal -> Log]
      /\ next_wal_seq \in Nat \ {0} /\ mutable \in BOOLEAN
    BY DEF IInv, TypeOK
<1>2. Height[b] \in Nat \ {0} /\ NoBlock \notin Block
    BY HeightOne, ChainDBAssumption DEF Node
<1>3. /\ m /\ Ends(logged, next_wal_seq) /\ Linked(logged) =>
            /\ Ends(wal', next_wal_seq)
            /\ Linked(wal')
            /\ wal'[next_wal_seq] = Apply(b)
      /\ ~m => wal' = wal /\ ~mutable
    <2>1. ~m => wal' = wal /\ ~mutable
        BY DEF CommitApply, WalAfterApply
    <2>2. logged[next_wal_seq] = Apply(b) /\ Apply(b).block = b
        BY DEF Put, Apply
    <2>3. ASSUME m, Ends(logged, next_wal_seq), Linked(logged)
          PROVE  Ends(wal', next_wal_seq) /\ Linked(wal') /\ wal'[next_wal_seq] = Apply(b)
        <3>1. CASE Confs # NoConfs /\ Height[b] >= Confs
            <4>1. wal' = Prune(logged, Height[b] - Confs)
                BY <2>3, <3>1 DEF CommitApply, WalAfterApply
            <4>2. Confs \in Nat /\ Height[b] - Confs \in Nat
                  /\ Height[b] >= Height[b] - Confs
                BY <1>2, <3>1, ChainDBAssumption
            <4> HIDE DEF logged
            <4> QED
                BY <1>1, <2>2, <2>3, <4>1, <4>2, PruneKeepsSuffix
        <3>2. CASE ~(Confs # NoConfs /\ Height[b] >= Confs)
            BY <2>2, <2>3, <3>2 DEF CommitApply, WalAfterApply
        <3> QED
            BY <3>1, <3>2
    <2> QED
        BY <2>1, <2>3
<1>4. CASE retrying = NoBlock /\ (TipHeight = 0 => Parent[b] = Genesis)
    <2>1. Height[b] = n + 1 /\ Parent[b] = IF n = 0 THEN Genesis ELSE blocks[n]
        <3>1. CASE n = 0
            BY <1>4, <3>1, HeightOne
        <3>2. CASE n # 0
            <4>1. blocks[n] \in Block /\ Tip = blocks[n]
                BY <1>1, <3>2 DEF Tip
            <4>2. last_block_hash = blocks[n]
                BY <1>4, <4>1 DEF IInv, LastHashIsTip
            <4>3. Parent[b] = blocks[n]
                BY <1>2, <4>1, <4>2 DEF CommitApply, LinksToLast
            <4>4. Height[blocks[n]] = n /\ blocks[n] # Genesis
                BY <1>1, <3>2, <4>1, TreeAssumption DEF IInv, ChainLinked
            <4> QED
                BY <1>1, <1>2, <3>2, <4>3, <4>4, HeightOne
        <3> QED
            BY <3>1, <3>2
    <2>2. /\ DOMAIN blocks' = 1..(n+1)
          /\ \A h \in 1..n : blocks'[h] = blocks[h]
          /\ blocks'[n+1] = b
          /\ blocks' \in [1..(n+1) -> Block]
        BY <1>1, <2>1 DEF CommitApply, Put
    <2>3. TipHeight' = n + 1
        BY <1>1, <2>2, LastKeyOfInterval DEF TipHeight
    <2>4. Tip' = b
        BY <1>1, <2>2, <2>3 DEF Tip
    <2>5. ChainLinked'
        <3> SUFFICES ASSUME NEW h \in 1..(n+1)
                     PROVE  /\ Height[blocks'[h]] = h
                            /\ Parent[blocks'[h]] = IF h = 1 THEN Genesis ELSE blocks'[h-1]
            BY <2>2 DEF ChainLinked
        <3>1. CASE h = n + 1
            BY <1>1, <2>1, <2>2, <3>1
        <3>2. CASE h \in 1..n
            BY <1>1, <2>2, <3>2 DEF IInv, ChainLinked
        <3> QED
            BY <1>1, <3>1, <3>2
    <2>6. mutable => Parent[b] = Tip /\ wal[next_wal_seq - 1].kind # "Undo"
                     /\ wal[next_wal_seq - 1].block = Tip
        <3> SUFFICES ASSUME mutable
                     PROVE  Parent[b] = Tip /\ wal[next_wal_seq - 1].kind # "Undo"
                            /\ wal[next_wal_seq - 1].block = Tip
            OBVIOUS
        <3>1. WalTop = next_wal_seq - 1 /\ WalTop \in DOMAIN wal
            BY <1>4 DEF WalTop, IInv, WalContiguous
        <3>2. wal[WalTop].block = Tip /\ wal[WalTop].kind # "Undo"
            BY DEF IInv, WalLinked
        <3>3. wal[WalTop].block \in Block
            BY <1>1, <3>1 DEF Log
        <3>4. n # 0
            BY <1>2, <3>2, <3>3 DEF Tip
        <3> QED
            BY <2>1, <3>1, <3>2, <3>4 DEF Tip
    <2>7. m => Ends(logged, next_wal_seq) /\ Linked(logged)
        <3> SUFFICES ASSUME m PROVE Ends(logged, next_wal_seq) /\ Linked(logged)
            OBVIOUS
        <3>1. /\ DOMAIN logged = DOMAIN wal \cup {next_wal_seq}
              /\ logged[next_wal_seq] = Apply(b)
              /\ \A k \in DOMAIN wal : k # next_wal_seq => logged[k] = wal[k]
            BY DEF Put
        <3>2. \A k \in DOMAIN wal : k < next_wal_seq /\ k..(next_wal_seq-1) \subseteq DOMAIN wal
            BY <1>1, <1>4 DEF IInv, WalContiguous, WalTop
        <3>3. Ends(logged, next_wal_seq)
            <4>1. \A k \in DOMAIN logged : k <= next_wal_seq
                                          /\ k..next_wal_seq \subseteq DOMAIN logged
                <5> SUFFICES ASSUME NEW k \in DOMAIN logged, NEW i \in k..next_wal_seq
                             PROVE  k <= next_wal_seq /\ i \in DOMAIN logged
                    BY <1>1, <3>1, <3>2
                <5>1. k \in Nat /\ i \in Nat /\ k <= next_wal_seq
                    BY <1>1, <3>1, <3>2
                <5>2. i # next_wal_seq => k \in DOMAIN wal /\ i \in k..(next_wal_seq - 1)
                    BY <1>1, <3>1, <5>1
                <5> QED
                    BY <3>1, <3>2, <5>1, <5>2
            <4>2. DOMAIN logged \subseteq Nat /\ logged \in [DOMAIN logged -> Log]
                BY <1>1 DEF Put, Log, Apply
            <4> QED
                BY <3>1, <4>1, <4>2 DEF Ends
        <3>4. Linked(logged)
            <4> SUFFICES ASSUME NEW k \in DOMAIN logged, k + 1 \in DOMAIN logged
                         PROVE  Follows(logged[k + 1], logged[k])
                BY DEF Linked
            <4>1. k \in DOMAIN wal /\ k # next_wal_seq /\ k \in Nat
                BY <1>1, <3>1, <3>2
            <4>2. CASE k + 1 = next_wal_seq
                <5>1. mutable
                    BY <4>1 DEF IInv, WalContiguous
                <5>2. wal[k].kind # "Undo" /\ wal[k].block = Parent[b]
                    BY <1>1, <2>6, <4>1, <4>2, <5>1
                <5> QED
                    BY <3>1, <4>1, <4>2, <5>2 DEF Follows, PointAfter, Apply
            <4>3. CASE k + 1 # next_wal_seq
                BY <3>1, <4>1, <4>3 DEF IInv, WalLinked
            <4> QED
                BY <4>2, <4>3
        <3> QED
            BY <3>3, <3>4
    <2> QED
        BY <1>3, <2>1, <2>2, <2>3, <2>4, <2>5, <2>7
<1>5. CASE retrying = b /\ m = mutable
    <2>1. Tip = b /\ n # 0 /\ blocks[n] = b
        BY <1>2, <1>5 DEF IInv, LastHashIsTip, Tip
    <2>2. Height[b] = n
        BY <1>1, <2>1 DEF IInv, ChainLinked
    <2>3. blocks' = blocks
        BY <1>1, <2>1, <2>2 DEF CommitApply, Put
    <2>4. TipHeight' = n /\ Tip' = b /\ ChainLinked'
        BY <2>1, <2>3 DEF TipHeight, Tip, ChainLinked, IInv
    <2>5. m => logged = wal /\ Ends(wal, next_wal_seq) /\ Linked(wal)
        <3> SUFFICES ASSUME m
                     PROVE  logged = wal /\ Ends(wal, next_wal_seq) /\ Linked(wal)
            OBVIOUS
        <3>1. WalTop = next_wal_seq
            BY <1>2, <1>5 DEF WalTop
        <3>2. Ends(wal, next_wal_seq) /\ Linked(wal)
            BY <1>1, <1>5, <3>1 DEF Ends, Linked, IInv, WalContiguous, WalLinked
        <3>3. wal[next_wal_seq] \in Log /\ wal[next_wal_seq].kind = "Apply"
              /\ wal[next_wal_seq].block = b
            BY <1>1, <1>2, <1>5, <2>1, <3>1, <3>2 DEF Ends, IInv, WalLinked
        <3>4. wal[next_wal_seq] = Apply(b)
            BY <3>3 DEF Log, Apply
        <3> QED
            BY <1>1, <3>2, <3>4, Zenon DEF Put, Ends
    <2> QED
        BY <1>1, <1>3, <2>2, <2>3, <2>4, <2>5
<1> QED
    BY <1>4, <1>5

\* The roll stage applies a block: committed and advanced, or committed only.
LEMMA ForwardLemma ==
    ASSUME IInv, NEW b \in Block, NEW tip,
           RollForward(b, tip) \/ RollForwardFlushFails(b, tip)
    PROVE  IInv'
<1>1. /\ retrying = NoBlock /\ (TipHeight = 0 => Parent[b] = Genesis)
      /\ mutable' = MutableAfterForward(b, tip)
      /\ CommitApply(b, mutable')
    BY DEF RollForward, RollForwardFlushFails
<1>2. mutable' \in BOOLEAN /\ (mutable => mutable')
    BY <1>1, Zenon DEF MutableAfterForward
<1>3. /\ TipHeight' = Height[b] /\ blocks' \in [1..TipHeight' -> Block]
      /\ Tip' = b /\ ChainLinked'
      /\ mutable' => /\ Ends(wal', next_wal_seq)
                     /\ Linked(wal')
                     /\ wal'[next_wal_seq] = Apply(b)
      /\ ~mutable' => wal' = wal /\ ~mutable
    BY <1>1, <1>2, CommitApplyLemma
<1>4. /\ next_wal_seq \in Nat \ {0} /\ Height[b] \in Nat /\ NoBlock \notin Block
      /\ DOMAIN wal \subseteq Nat /\ wal \in [DOMAIN wal -> Log]
      /\ ~mutable => DOMAIN wal = {}
    BY HeightOne, ChainDBAssumption DEF IInv, TypeOK, WalContiguous, Node
<1>5. DOMAIN wal' \subseteq Nat /\ wal' \in [DOMAIN wal' -> Log]
    BY <1>2, <1>3, <1>4 DEF Ends
<1>6. \/ retrying' = NoBlock /\ next_wal_seq' = next_wal_seq + 1 /\ last_block_hash' = b
      \/ /\ retrying' = b /\ next_wal_seq' = next_wal_seq
         /\ last_block_hash' = last_block_hash
    BY DEF RollForward, RollForwardFlushFails, Advance
<1>7. WalTop' = next_wal_seq
    BY <1>4, <1>6 DEF WalTop
<1>8. TypeOK'
    <2>1. last_block_hash \in Block \cup {NoBlock}
        BY DEF IInv, TypeOK
    <2> QED
        BY <1>2, <1>3, <1>4, <1>5, <1>6, <2>1 DEF TypeOK
<1>9. LastHashIsTip'
    <2>1. CASE retrying' = NoBlock
        BY <1>3, <1>4, <1>6, <2>1 DEF LastHashIsTip
    <2>2. CASE retrying' = b /\ last_block_hash' = last_block_hash
        <3>1. last_block_hash = IF TipHeight = 0 THEN NoBlock ELSE blocks[TipHeight]
            BY <1>1 DEF IInv, LastHashIsTip, Tip
        <3>2. TipHeight # 0 => Parent[b] = blocks[TipHeight] /\ blocks[TipHeight] \in Block
            BY <1>1, <1>4, <3>1 DEF IInv, TypeOK, CommitApply, LinksToLast
        <3>3. TipHeight # 0 => Parent[b] # Genesis
            BY <3>2, TreeAssumption
        <3> QED
            BY <1>1, <1>3, <1>4, <2>2, <3>1, <3>2, <3>3, Zenon DEF LastHashIsTip
    <2> QED
        BY <1>6, <2>1, <2>2
<1>10. WalContiguous'
    BY <1>2, <1>3, <1>4, <1>7 DEF WalContiguous, Ends
<1>11. WalLinked'
    BY <1>2, <1>3, <1>4, <1>7 DEF WalLinked, Linked, Apply
<1> QED
    BY <1>3, <1>8, <1>9, <1>10, <1>11 DEF IInv

\* or_retry runs the unit whose flush failed again.
LEMMA RetryLemma ==
    ASSUME IInv, RetryForward
    PROVE  IInv'
<1> DEFINE b == retrying
<1>1. /\ b \in Block /\ CommitApply(b, mutable) /\ mutable' = mutable
      /\ mutable \in BOOLEAN
      /\ next_wal_seq' = next_wal_seq + 1 /\ last_block_hash' = b /\ retrying' = NoBlock
    BY DEF RetryForward, Advance, IInv, TypeOK
<1>2. /\ TipHeight' = Height[b] /\ blocks' \in [1..TipHeight' -> Block]
      /\ Tip' = b /\ ChainLinked'
      /\ mutable => /\ Ends(wal', next_wal_seq)
                    /\ Linked(wal')
                    /\ wal'[next_wal_seq] = Apply(b)
      /\ ~mutable => wal' = wal
    BY <1>1, CommitApplyLemma
<1>3. /\ next_wal_seq \in Nat \ {0} /\ Height[b] \in Nat
      /\ DOMAIN wal \subseteq Nat /\ wal \in [DOMAIN wal -> Log]
      /\ ~mutable => DOMAIN wal = {}
    BY <1>1, HeightOne DEF IInv, TypeOK, WalContiguous
<1>4. WalTop' = next_wal_seq
    BY <1>1, <1>3 DEF WalTop
<1>5. DOMAIN wal' \subseteq Nat /\ wal' \in [DOMAIN wal' -> Log]
    BY <1>1, <1>2, <1>3 DEF Ends
<1>6. TypeOK'
    BY <1>1, <1>2, <1>3, <1>5 DEF TypeOK
<1>7. LastHashIsTip'
    BY <1>1, <1>2 DEF LastHashIsTip
<1>8. WalContiguous'
    BY <1>1, <1>2, <1>3, <1>4 DEF WalContiguous, Ends
<1>9. WalLinked'
    BY <1>1, <1>2, <1>3, <1>4 DEF WalLinked, Linked, Apply
<1> QED
    BY <1>2, <1>6, <1>7, <1>8, <1>9 DEF IInv

\* ChainDB::open after a stop of the process.
LEMMA RestartLemma ==
    ASSUME IInv, Restart
    PROVE  IInv'
<1>1. /\ TipHeight' = TipHeight /\ Tip' = Tip /\ blocks' = blocks
      /\ DOMAIN wal' = {} /\ wal' \in [{} -> Log]
    BY DEF Restart, TipHeight, Tip, Empty
<1>2. Tip \in Block \cup {NoBlock}
    BY DEF IInv, TypeOK, Tip
<1>3. TypeOK'
    <2>1. wal' \in [DOMAIN wal' -> Log] /\ DOMAIN wal' \subseteq Nat
        BY <1>1
    <2>2. mutable' \in BOOLEAN
        BY Zenon DEF Restart
    <2>3. next_wal_seq' \in Nat \ {0}
        BY DEF Restart
    <2> QED
        BY <1>1, <1>2, <2>1, <2>2, <2>3 DEF Restart, IInv, TypeOK
<1>4. ChainLinked'
    BY <1>1 DEF IInv, ChainLinked
<1>5. LastHashIsTip'
    BY <1>1 DEF Restart, LastHashIsTip
<1>6. WalContiguous' /\ WalLinked'
    BY <1>1 DEF Restart, WalContiguous, WalLinked
<1> QED
    BY <1>3, <1>4, <1>5, <1>6 DEF IInv

\* ChainDB::rollback: the table is cut to the point, the log gets an Undo entry
\* per removed block, newest first, and a Mark.
LEMMA RollBackLemma ==
    ASSUME IInv, NEW b \in Block, NEW tip, RollBack(b, tip)
    PROVE  IInv'
<1> DEFINE n == TipHeight
           h == Height[b]
           next == next_wal_seq
           top == next_wal_seq + (TipHeight - Height[b])
<1>1. /\ n \in Nat /\ blocks \in [1..n -> Block]
      /\ DOMAIN wal \subseteq Nat /\ wal \in [DOMAIN wal -> Log]
      /\ next \in Nat \ {0} /\ mutable \in BOOLEAN
    BY DEF IInv, TypeOK
<1>2. h \in 1..n /\ blocks[h] = b /\ retrying = NoBlock
    BY <1>1 DEF RollBack
<1>3. /\ DOMAIN blocks' = 1..h
      /\ \A i \in 1..h : blocks'[i] = blocks[i]
      /\ blocks' \in [1..h -> Block]
    BY <1>1, <1>2 DEF RollBack, Retain
<1>4. TipHeight' = h /\ Tip' = b
    <2>1. TipHeight' = h
        BY <1>1, <1>2, <1>3, LastKeyOfInterval DEF TipHeight
    <2> QED
        BY <1>2, <1>3, <2>1 DEF Tip
<1>5. ChainLinked'
    <2> SUFFICES ASSUME NEW i \in 1..h
                 PROVE  /\ Height[blocks'[i]] = i
                        /\ Parent[blocks'[i]] = IF i = 1 THEN Genesis ELSE blocks'[i-1]
        BY <1>3 DEF ChainLinked
    <2>1. /\ i \in DOMAIN blocks
          /\ blocks'[i] = blocks[i]
          /\ i # 1 => blocks'[i-1] = blocks[i-1]
        BY <1>1, <1>2, <1>3
    <2> QED
        BY <2>1 DEF IInv, ChainLinked
<1>6. LastHashIsTip'
    BY <1>2, <1>4 DEF RollBack, HashAfterRollback, LastHashIsTip
<1>7. mutable' \in BOOLEAN /\ (mutable => mutable') /\ retrying' = NoBlock
      /\ last_block_hash' = b
    BY <1>2, Zenon DEF RollBack, MutableAfterBack, HashAfterRollback
<1>8. CASE ~mutable'
    <2>1. wal' = wal /\ next_wal_seq' = next_wal_seq
        BY <1>8 DEF RollBack, WalAfterRollback
    <2>2. TypeOK'
        BY <1>1, <1>2, <1>3, <1>4, <1>7, <2>1 DEF TypeOK
    <2>3. WalContiguous' /\ WalLinked'
        BY <1>7, <1>8, <2>1 DEF IInv, WalContiguous, WalLinked
    <2> QED
        BY <1>5, <1>6, <2>2, <2>3 DEF IInv
<1>9. CASE mutable'
    <2>1. /\ top \in Nat /\ next <= top /\ next_wal_seq' = top + 1
        BY <1>1, <1>2, <1>9 DEF RollBack
    <2>2. WalTop' = top
        BY <1>7, <2>1 DEF WalTop
    <2>3. /\ DOMAIN wal' = DOMAIN wal \cup next..top
          /\ wal' = [k \in DOMAIN wal \cup next..top |->
                IF k = top THEN Mark(b)
                ELSE IF k >= next THEN Undo(Undone(b, k - next)) ELSE wal[k]]
        BY <1>9 DEF RollBack, WalAfterRollback
    <2>4. \A k \in DOMAIN wal : k < next /\ k..(next - 1) \subseteq DOMAIN wal
        BY <1>1, <1>2 DEF IInv, WalContiguous, WalTop
    <2>5. /\ wal'[top] = Mark(b)
          /\ \A k \in DOMAIN wal : wal'[k] = wal[k]
          /\ \A k \in next..(top-1) : wal'[k] = Undo(blocks[n - (k - next)])
        BY <1>1, <2>1, <2>3, <2>4 DEF Undone
    <2>6. wal' \in [DOMAIN wal' -> Log] /\ DOMAIN wal' \subseteq Nat
        <3>1. \A k \in DOMAIN wal' : wal'[k] \in Log
            <4> SUFFICES ASSUME NEW k \in DOMAIN wal' PROVE wal'[k] \in Log
                OBVIOUS
            <4>1. CASE k \in DOMAIN wal
                BY <1>1, <2>5, <4>1
            <4>2. CASE k = top
                BY <2>5, <4>2 DEF Mark, Log
            <4>3. CASE k \in next..(top-1)
                <5>1. n - (k - next) \in 1..n
                    BY <1>1, <1>2, <4>3
                <5>2. blocks[n - (k - next)] \in Block
                    BY <1>1, <5>1
                <5>3. Undo(blocks[n - (k - next)]) \in Log
                    BY <5>2 DEF Undo, Log
                <5> QED
                    BY <2>5, <4>3, <5>3
            <4> QED
                BY <1>1, <2>1, <2>3, <4>1, <4>2, <4>3
        <3>2. wal' = [k \in DOMAIN wal' |-> wal'[k]]
            BY <2>3
        <3>3. DOMAIN wal' \subseteq Nat
            BY <1>1, <2>1, <2>3
        <3> QED
            BY <3>1, <3>2, <3>3
    <2>7. WalContiguous'
        <3>1. top \in DOMAIN wal'
            BY <1>1, <2>1, <2>3
        <3>2. ASSUME NEW k \in DOMAIN wal', NEW i \in k..top
              PROVE  k <= top /\ i \in DOMAIN wal'
            <4>1. k \in Nat /\ i \in Nat /\ k <= top
                BY <1>1, <2>1, <2>3, <2>4
            <4>2. i < next => k \in DOMAIN wal /\ i \in k..(next-1)
                BY <1>1, <2>1, <2>3, <4>1
            <4> QED
                BY <1>1, <2>1, <2>3, <2>4, <4>1, <4>2
        <3>3. \A k \in DOMAIN wal' : k <= top
            BY <1>1, <2>1, <2>3, <2>4
        <3> QED
            BY <1>9, <2>2, <3>1, <3>2, <3>3 DEF WalContiguous
    <2>8. ASSUME NEW k \in DOMAIN wal', k + 1 \in DOMAIN wal'
          PROVE  Follows(wal'[k + 1], wal'[k])
        <3>1. k \in Nat /\ k < top
            BY <1>1, <2>1, <2>3, <2>4, <2>6, <2>8
        <3>2. CASE k + 1 < next
            <4>1. k \in DOMAIN wal /\ k + 1 \in DOMAIN wal
                BY <1>1, <2>1, <2>3, <2>8, <3>1, <3>2
            <4> QED
                BY <2>5, <4>1, Zenon DEF IInv, WalLinked
        <3>3. CASE k + 1 = next
            <4>1. k \in DOMAIN wal /\ k = WalTop /\ mutable
                BY <1>1, <1>2, <2>1, <2>3, <3>1, <3>3 DEF IInv, WalContiguous, WalTop
            <4>2. wal'[k].kind # "Undo" /\ wal'[k].block = blocks[n]
                BY <1>1, <1>2, <2>5, <4>1 DEF IInv, WalLinked, Tip
            <4>3. CASE next = top
                BY <1>1, <1>2, <2>5, <3>3, <4>2, <4>3 DEF Follows, PointAfter, Mark
            <4>4. CASE next # top
                <5>1. wal'[k+1] = Undo(blocks[n])
                    BY <1>1, <2>1, <2>5, <3>3, <4>4
                <5> QED
                    BY <4>2, <5>1 DEF Follows, PointAfter, Undo
            <4> QED
                BY <4>3, <4>4, Zenon
        <3>4. CASE k + 1 > next
            <4> DEFINE j == n - (k - next)
            <4>1. k \in next..(top-1) /\ j \in 2..n /\ wal'[k] = Undo(blocks[j])
                <5>0. n \in Int /\ h \in Int /\ next \in Int /\ k \in Int /\ 1 <= h
                    BY <1>1, <1>2, <3>1
                <5>1. k \in next..(top-1)
                    BY <3>1, <3>4, <5>0
                <5>2. j \in 2..n
                    BY <5>0, <5>1
                <5>3. wal'[k] = Undo(blocks[j])
                    BY <2>5, <5>1
                <5> QED
                    BY <5>1, <5>2, <5>3
            <4>2. Parent[blocks[j]] = blocks[j-1]
                BY <1>1, <4>1 DEF IInv, ChainLinked
            <4>3. wal'[k+1].kind # "Apply" /\ wal'[k+1].block = blocks[j-1]
                <5>1. CASE k + 1 = top
                    <6>0. n \in Int /\ h \in Int /\ next \in Int /\ k \in Int
                        BY <1>1, <1>2, <3>1
                    <6>1. j - 1 = h
                        BY <5>1, <6>0
                    <6>2. wal'[k+1] = Mark(b)
                        BY <2>5, <5>1
                    <6>3. blocks[j-1] = b
                        BY <1>2, <6>1
                    <6> QED
                        BY <6>2, <6>3 DEF Mark
                <5>2. CASE k + 1 # top
                    <6>0. n \in Int /\ h \in Int /\ next \in Int /\ k \in Int
                        BY <1>1, <1>2, <3>1
                    <6>1. k + 1 \in next..(top-1) /\ n - ((k+1) - next) = j - 1
                        BY <3>1, <3>4, <5>2, <6>0
                    <6>2. wal'[k+1] = Undo(blocks[n - ((k+1) - next)])
                        BY <2>5, <6>1
                    <6>3. wal'[k+1] = Undo(blocks[j-1])
                        BY <6>1, <6>2, Zenon
                    <6> QED
                        BY <6>3 DEF Undo
                <5> QED
                    BY <5>1, <5>2
            <4> QED
                BY <4>1, <4>2, <4>3 DEF Follows, PointAfter, Undo
        <3> QED
            BY <1>1, <3>1, <3>2, <3>3, <3>4
    <2>9. WalLinked'
        BY <1>4, <1>7, <2>2, <2>5, <2>8 DEF WalLinked, Mark
    <2>10. TypeOK'
        BY <1>1, <1>2, <1>3, <1>4, <1>7, <2>1, <2>6 DEF TypeOK
    <2> QED
        BY <1>5, <1>6, <2>7, <2>9, <2>10 DEF IInv
<1> QED
    BY <1>8, <1>9

-----------------------------------------------------------------------------
\* Every operation of the roll stage, and a restart between any two of them,
\* preserves the invariant.
THEOREM NextIInv == IInv /\ [Next]_dbVars => IInv'
<1> SUFFICES ASSUME IInv, [Next]_dbVars PROVE IInv'
    OBVIOUS
<1>1. CASE \E b \in Block, tip \in 0..MaxTip :
              RollForward(b, tip) \/ RollForwardFlushFails(b, tip)
    BY <1>1, ForwardLemma
<1>2. CASE \E b \in Block, tip \in 0..MaxTip : RollBack(b, tip)
    BY <1>2, RollBackLemma
<1>3. CASE RetryForward
    BY <1>3, RetryLemma
<1>4. CASE Restart
    BY <1>4, RestartLemma
<1>5. CASE UNCHANGED dbVars
    BY <1>5, Zenon DEF dbVars, IInv, TypeOK, ChainLinked, LastHashIsTip, WalContiguous,
       WalLinked, WalTop, Tip, TipHeight, Follows, PointAfter
<1> QED
    BY <1>1, <1>2, <1>3, <1>4, <1>5 DEF Next

\* The tables and the stage's fields keep their types, and BlockByHeightKV has
\* no hole, whatever blocks, reorgs, flush failures and restarts occur.
THEOREM Types == Spec => []TypeOK
<1>1. IInv => TypeOK
    BY DEF IInv
<1> QED
    BY <1>1, InitIInv, NextIInv, PTL DEF Spec

\* BlockByHeightKV always holds a single branch of the block tree.
THEOREM TableIsOneBranch == Spec => []ChainLinked
<1>1. IInv => ChainLinked
    BY DEF IInv
<1> QED
    BY <1>1, InitIInv, NextIInv, PTL DEF Spec

\* MutableKV never has a gap, and it ends right below the number that the next
\* operation writes.
THEOREM LogHasNoGap == Spec => []WalContiguous
<1>1. IInv => WalContiguous
    BY DEF IInv
<1> QED
    BY <1>1, InitIInv, NextIInv, PTL DEF Spec

\* MutableKV is always a gap-free walk over the block tree that ends at the tip.
THEOREM LogIsAWalk == Spec => [](WalContiguous /\ WalLinked)
<1>1. IInv => WalContiguous /\ WalLinked
    BY DEF IInv
<1> QED
    BY <1>1, InitIInv, NextIInv, PTL DEF Spec

\* The hash that apply_block_with_context compares against never goes stale: not
\* after a rollback, not after a flush that failed, not after a restart.
THEOREM LastHashNeverStale == Spec => []LastHashIsTip
<1>1. IInv => LastHashIsTip
    BY DEF IInv
<1> QED
    BY <1>1, InitIInv, NextIInv, PTL DEF Spec
-----------------------------------------------------------------------------
\* While the stage is mutable, the log is only appended to and pruned: an entry
\* that stays is the entry that was there, and the first new one continues the
\* newest old one, also when the same transaction prunes that one.
LogGrows ==
    /\ mutable'
    /\ WalTop <= WalTop'
    /\ \A k \in DOMAIN wal' : k <= WalTop => k \in DOMAIN wal /\ wal'[k] = wal[k]
    /\ WalTop + 1 \in DOMAIN wal' => Follows(wal'[WalTop + 1], wal[WalTop])

\* The newest entry of the log is at the tip of the table.
LEMMA NewestEntry ==
    ASSUME IInv, mutable
    PROVE  /\ WalTop \in Nat /\ WalTop \in DOMAIN wal
           /\ wal[WalTop] \in Log /\ wal[WalTop].block = Tip /\ wal[WalTop].kind # "Undo"
           /\ Tip \in Block /\ TipHeight # 0 /\ Tip = blocks[TipHeight]
           /\ \A k \in DOMAIN wal : k \in Nat /\ k <= WalTop
<1>1. DOMAIN wal \subseteq Nat /\ wal \in [DOMAIN wal -> Log] /\ NoBlock \notin Block
    BY ChainDBAssumption DEF IInv, TypeOK, Node
<1>2. WalTop \in DOMAIN wal /\ \A k \in DOMAIN wal : k <= WalTop
    BY DEF IInv, WalContiguous
<1>3. wal[WalTop].block = Tip /\ wal[WalTop].kind # "Undo"
    BY DEF IInv, WalLinked
<1>4. Tip \in Block
    BY <1>1, <1>2, <1>3 DEF Log
<1> QED
    BY <1>1, <1>2, <1>3, <1>4 DEF Tip

\* Applying a block, or its retry, only appends and prunes.
LEMMA ApplyGrows ==
    ASSUME IInv, mutable, NEW b \in Block, CommitApply(b, TRUE), mutable',
           WalTop' = next_wal_seq,
           \/ retrying = NoBlock
           \/ retrying = b
    PROVE  LogGrows
<1> DEFINE logged == Put(wal, next_wal_seq, Apply(b))
<1>1. next_wal_seq \in Nat /\ NoBlock \notin Block
    BY ChainDBAssumption DEF IInv, TypeOK, Node
<1>2. /\ DOMAIN logged = DOMAIN wal \cup {next_wal_seq}
      /\ logged[next_wal_seq] = Apply(b)
      /\ \A k \in DOMAIN wal : k # next_wal_seq => logged[k] = wal[k]
    BY DEF Put
<1>3. \A k \in DOMAIN wal' : k \in DOMAIN logged /\ wal'[k] = logged[k]
    <2> HIDE DEF logged
    <2>1. wal' = logged \/ \E h : wal' = Prune(logged, h)
        BY DEF CommitApply, WalAfterApply, logged
    <2> QED
        BY <2>1, Zenon DEF Prune, Retain
<1>4. CASE retrying = NoBlock
    <2>1. WalTop = next_wal_seq - 1 /\ WalTop + 1 = next_wal_seq
        BY <1>1, <1>4 DEF WalTop
    <2>2. Parent[b] = Tip
        BY <1>1, <1>4, NewestEntry, Zenon DEF CommitApply, LinksToLast, IInv, LastHashIsTip
    <2>3. Follows(Apply(b), wal[WalTop])
        BY <2>2, NewestEntry, Zenon DEF Follows, PointAfter, Apply
    <2>4. \A k \in DOMAIN wal' : k <= WalTop => k \in DOMAIN wal /\ wal'[k] = wal[k]
        BY <1>1, <1>2, <1>3, <2>1
    <2>5. WalTop + 1 \in DOMAIN wal' => wal'[WalTop + 1] = Apply(b)
        BY <1>2, <1>3, <2>1, Zenon
    <2> HIDE DEF logged
    <2> QED
        BY <1>1, <2>1, <2>3, <2>4, <2>5 DEF LogGrows
<1>5. CASE retrying = b
    <2>1. WalTop = next_wal_seq
        BY <1>1, <1>5, Zenon DEF WalTop
    <2>2. wal[next_wal_seq] = Apply(b)
        BY <1>1, <1>5, <2>1, NewestEntry, Zenon DEF IInv, WalLinked, LastHashIsTip, Log, Apply
    <2>3. \A k \in DOMAIN wal' : k \in DOMAIN wal /\ wal'[k] = wal[k]
        BY <1>2, <1>3, <2>1, <2>2, NewestEntry, Zenon
    <2>4. WalTop + 1 \notin DOMAIN wal'
        BY <1>1, <2>1, <2>3, NewestEntry
    <2> HIDE DEF logged
    <2> QED
        BY <1>1, <2>1, <2>3, <2>4 DEF LogGrows
<1> QED
    BY <1>4, <1>5

\* A rollback only appends: the Undo entries, newest block first, and the Mark.
LEMMA RollBackGrows ==
    ASSUME IInv, mutable, NEW b \in Block, NEW tip, RollBack(b, tip)
    PROVE  LogGrows
<1> DEFINE n   == TipHeight
           top == next_wal_seq + (n - Height[b])
<1>1. /\ n \in Nat /\ blocks \in [1..n -> Block] /\ next_wal_seq \in Nat \ {0}
      /\ Height[b] \in 1..n /\ blocks[Height[b]] = b
    BY Zenon DEF IInv, TypeOK, RollBack
<1>2. mutable' /\ retrying = NoBlock /\ retrying' = NoBlock
    BY Zenon DEF RollBack, MutableAfterBack
<1>3. top \in Nat /\ next_wal_seq <= top /\ next_wal_seq' = top + 1
    BY <1>1, <1>2 DEF RollBack
<1>4. WalTop = next_wal_seq - 1 /\ WalTop' = top
    BY <1>1, <1>2, <1>3 DEF WalTop
<1>5. wal' = [k \in DOMAIN wal \cup next_wal_seq..top |->
                IF k = top THEN Mark(b)
                ELSE IF k >= next_wal_seq THEN Undo(Undone(b, k - next_wal_seq))
                ELSE wal[k]]
    BY <1>2, Zenon DEF RollBack, WalAfterRollback
<1>6. ASSUME NEW k \in DOMAIN wal', k <= WalTop
      PROVE  k \in DOMAIN wal /\ wal'[k] = wal[k]
    <2>1. k \in DOMAIN wal /\ k \in Nat
        BY <1>1, <1>3, <1>4, <1>5, <1>6, NewestEntry
    <2> QED
        BY <1>1, <1>3, <1>4, <1>5, <1>6, <2>1
<1>7. Follows(wal'[next_wal_seq], wal[WalTop])
    <2>1. next_wal_seq \in DOMAIN wal'
        BY <1>1, <1>3, <1>5
    <2>2. CASE n = Height[b]
        <3>1. wal'[next_wal_seq] = Mark(b) /\ Tip = b
            BY <1>1, <1>5, <2>1, <2>2, NewestEntry
        <3> QED
            BY <3>1, NewestEntry DEF Follows, PointAfter, Mark
    <2>3. CASE n # Height[b]
        <3>1. wal'[next_wal_seq] = Undo(blocks[n - 0])
            BY <1>1, <1>5, <2>1, <2>3 DEF Undone
        <3>2. blocks[n - 0] = Tip
            BY <1>1, NewestEntry
        <3> QED
            BY <3>1, <3>2, NewestEntry DEF Follows, PointAfter, Undo
    <2> QED
        BY <2>2, <2>3, Zenon
<1>8. WalTop <= WalTop' /\ WalTop + 1 = next_wal_seq
    BY <1>1, <1>3, <1>4
<1> QED
    BY <1>2, <1>6, <1>7, <1>8, Zenon DEF LogGrows

\* No operation of the roll stage rewrites the log that streams are reading.
LEMMA StepGrows ==
    ASSUME IInv, mutable,
           \/ \E b \in Block, tip \in 0..MaxTip :
                 RollForward(b, tip) \/ RollForwardFlushFails(b, tip) \/ RollBack(b, tip)
           \/ RetryForward
           \/ UNCHANGED dbVars
    PROVE  LogGrows
<1>0. next_wal_seq \in Nat /\ NoBlock \notin Block /\ mutable \in BOOLEAN
    BY ChainDBAssumption DEF IInv, TypeOK, Node
<1>1. ASSUME NEW b \in Block, NEW tip,
             RollForward(b, tip) \/ RollForwardFlushFails(b, tip)
      PROVE  LogGrows
    <2>1. mutable' = TRUE /\ retrying = NoBlock
        BY <1>1, Zenon DEF RollForward, RollForwardFlushFails, MutableAfterForward
    <2>2. CommitApply(b, TRUE)
        BY <1>1, <2>1, Zenon DEF RollForward, RollForwardFlushFails
    <2>3. WalTop' = next_wal_seq
        BY <1>0, <1>1 DEF RollForward, RollForwardFlushFails, Advance, WalTop
    <2> QED
        BY <2>1, <2>2, <2>3, ApplyGrows, Zenon
<1>2. CASE RetryForward
    <2>1. mutable' = mutable /\ retrying # NoBlock /\ CommitApply(retrying, mutable)
        BY <1>2, Zenon DEF RetryForward
    <2>2. retrying \in Block /\ mutable = TRUE
        BY <2>1, <1>0 DEF IInv, TypeOK
    <2>3. WalTop' = next_wal_seq
        BY <1>0, <1>2 DEF RetryForward, Advance, WalTop
    <2> QED
        BY <2>1, <2>2, <2>3, ApplyGrows, Zenon
<1>3. CASE UNCHANGED dbVars
    <2>1. WalTop' = WalTop /\ wal' = wal /\ mutable'
        BY <1>3, Zenon DEF dbVars, WalTop
    <2>2. WalTop + 1 \notin DOMAIN wal /\ WalTop <= WalTop
        BY NewestEntry
    <2> QED
        BY <2>1, <2>2, Zenon DEF LogGrows
<1> QED
    BY <1>1, <1>2, <1>3, RollBackGrows, Zenon
-----------------------------------------------------------------------------
\* A block stands right above its parent.
LEMMA ParentBelow ==
    ASSUME NEW b \in Block
    PROVE  Follower!Below(Parent[b], b)
<1> DEFINE a == Parent[b]
           S == {a, b}
<1>1. /\ a \in Node /\ b \in Node /\ Height[a] \in Nat /\ Height[b] = Height[a] + 1
      /\ b # a
    BY TreeAssumption DEF Node
<1>2. S \in SUBSET {x \in Node : Height[a] <= Height[x] /\ Height[x] <= Height[b]}
    BY <1>1
<1>3. Follower!Segment(S, a, b)
    BY <1>1 DEF Follower!Segment
<1> QED
    BY <1>2, <1>3, Zenon DEF Follower!Below, Follower!Node, Node

\* Every block of the table is an ancestor of its tip, or the tip.
LEMMA TableBelowTip ==
    ASSUME IInv, NEW h \in DOMAIN blocks
    PROVE  Follower!Below(blocks[h], Tip)
<1> DEFINE n == TipHeight
           a == blocks[h]
           S == {blocks[k] : k \in h..n}
<1>1. /\ n \in Nat /\ blocks \in [1..n -> Block] /\ h \in 1..n
    BY DEF IInv, TypeOK
<1>2. Tip = blocks[n] /\ n \in h..n /\ h \in h..n /\ h..n \subseteq 1..n
    BY <1>1 DEF Tip
<1>3. \A k \in h..n : blocks[k] \in Node /\ Height[blocks[k]] = k
    BY <1>1, <1>2 DEF IInv, ChainLinked, Node
<1>4. S \in SUBSET {x \in Node : Height[a] <= Height[x] /\ Height[x] <= Height[Tip]}
    <2>1. ASSUME NEW k \in h..n
          PROVE  /\ blocks[k] \in Node
                 /\ Height[a] <= Height[blocks[k]] /\ Height[blocks[k]] <= Height[Tip]
        <3>1. Height[a] = h /\ Height[Tip] = n /\ Height[blocks[k]] = k
            BY <1>2, <1>3, Zenon
        <3> QED
            BY <1>1, <1>3, <3>1
    <2> QED
        BY <2>1, Zenon
<1>5. a \in S /\ Tip \in S
    BY <1>2, Zenon
<1>6. \A x \in S : Height[x] = Height[a] => x = a
    BY <1>2, <1>3
<1>7. \A x \in S \ {a} : Parent[x] \in S
    <2> SUFFICES ASSUME NEW k \in h..n, blocks[k] # a
                 PROVE  Parent[blocks[k]] \in S
        BY Zenon
    <2>1. k # h /\ k - 1 \in h..n /\ k # 1 /\ k \in DOMAIN blocks
        BY <1>1, <1>2
    <2>2. Parent[blocks[k]] = blocks[k - 1]
        BY <2>1, Zenon DEF IInv, ChainLinked
    <2> QED
        BY <2>1, <2>2, Zenon
<1>8. Follower!Segment(S, a, Tip)
    BY <1>5, <1>6, <1>7, Zenon DEF Follower!Segment
<1> HIDE DEF S
<1> QED
    BY <1>4, <1>8 DEF Follower!Below, Follower!Node, Node

\* Every step of the roll stage is a step of the abstract follower or leaves it
\* where it is.
LEMMA StepFollows ==
    ASSUME IInv, [Next]_dbVars
    PROVE  [Follower!Follow]_Position
<1>1. ASSUME NEW b \in Block, NEW tip,
             RollForward(b, tip) \/ RollForwardFlushFails(b, tip)
      PROVE  Follower!Follow
    <2>1. /\ retrying = NoBlock /\ (TipHeight = 0 => Parent[b] = Genesis)
          /\ mutable' = MutableAfterForward(b, tip)
          /\ CommitApply(b, mutable')
        BY <1>1, Zenon DEF RollForward, RollForwardFlushFails
    <2>2. mutable' \in BOOLEAN /\ (mutable => mutable')
        BY <2>1, Zenon DEF MutableAfterForward
    <2>3. TipHeight' = Height[b] /\ Tip' = b /\ Height[b] # 0
        BY <2>1, <2>2, CommitApplyLemma, HeightOne, Zenon
    <2>4. Position' = b
        BY <2>3 DEF Position
    <2>5. Position = Parent[b]
        <3>1. CASE TipHeight = 0
            BY <2>1, <3>1 DEF Position
        <3>2. CASE TipHeight # 0
            <4>1. Tip \in Block /\ NoBlock \notin Block
                BY <3>2, ChainDBAssumption DEF IInv, TypeOK, Tip, Node
            <4>2. last_block_hash = Tip
                BY <2>1, Zenon DEF IInv, LastHashIsTip
            <4>3. Parent[b] = Tip
                BY <2>1, <4>1, <4>2, Zenon DEF CommitApply, LinksToLast
            <4> QED
                BY <3>2, <4>3, Zenon DEF Position
        <3> QED
            BY <3>1, <3>2
    <2>6. Follower!Below(Position, b) /\ b \in Node
        BY <2>5, ParentBelow DEF Node
    <2>7. Follower!Forward(b)
        BY <2>4, <2>6 DEF Follower!Forward
    <2> QED
        BY <2>6, <2>7, Zenon DEF Follower!Follow, Follower!Node, Node
<1>2. ASSUME NEW b \in Block, NEW tip, RollBack(b, tip)
      PROVE  Follower!Follow
    <2>1. /\ TipHeight \in Nat /\ blocks \in [1..TipHeight -> Block]
          /\ Height[b] \in 1..TipHeight /\ blocks[Height[b]] = b
        BY <1>2, Zenon DEF IInv, TypeOK, RollBack
    <2>2. Follower!Below(b, Tip)
        BY <2>1, TableBelowTip, Zenon
    <2>3. DOMAIN blocks' = 1..Height[b] /\ blocks'[Height[b]] = b
        BY <1>2, <2>1 DEF RollBack, Retain
    <2>4. TipHeight' = Height[b]
        BY <2>1, <2>3, LastKeyOfInterval DEF TipHeight
    <2>5. Position = Tip /\ Position' = b
        BY <2>1, <2>3, <2>4 DEF Position, Tip
    <2>6. Follower!Backward(b) /\ b \in Node
        BY <2>2, <2>5 DEF Follower!Backward, Node
    <2> QED
        BY <2>6, Zenon DEF Follower!Follow, Follower!Node, Node
<1>3. CASE RetryForward
    <2> DEFINE b == retrying
    <2>1. b \in Block /\ CommitApply(b, mutable) /\ mutable \in BOOLEAN
        BY <1>3, Zenon DEF RetryForward, IInv, TypeOK
    <2>2. TipHeight' = Height[b] /\ Tip' = b /\ Height[b] # 0
        BY <2>1, CommitApplyLemma, HeightOne
    <2>3. Tip = b /\ b # NoBlock
        BY <1>3 DEF RetryForward, IInv, LastHashIsTip
    <2>4. TipHeight # 0
        BY <2>3 DEF Tip
    <2> QED
        BY <2>2, <2>3, <2>4, Zenon DEF Position
<1>4. CASE Restart \/ UNCHANGED dbVars
    BY <1>4 DEF Restart, dbVars, Position, Tip, TipHeight
<1> QED
    BY <1>1, <1>2, <1>3, <1>4, Zenon DEF Next

\* The rolling database implements the abstract chain follower: its tip moves
\* only along a branch, so whoever reads it sees every reorganisation as a way
\* down to the fork point and up again.
THEOREM DatabaseFollows == Spec => FollowsOneBranch
<1>1. Init => Follower!Start
    <2> SUFFICES ASSUME Init PROVE Position = Genesis
        BY DEF Follower!Start
    <2>1. DOMAIN blocks = 1..0
        BY DEF Init, Empty
    <2>2. TipHeight = 0
        BY <2>1, LastKeyOfInterval DEF TipHeight
    <2> QED
        BY <2>2 DEF Position
<1> QED
    BY <1>1, InitIInv, NextIInv, StepFollows, PTL
       DEF Spec, FollowsOneBranch, Follower!Following
=============================================================================
