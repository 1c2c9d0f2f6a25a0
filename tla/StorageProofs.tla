---------------------------- MODULE StorageProofs ----------------------------
(***************************************************************************)
(* TLAPS proofs about Storage, for every block tree, batch and buffer size:  *)
(* what a storage stage that follows the tip keeps in every step, whatever   *)
(* units it is given and whichever of its calls fail.                        *)
(***************************************************************************)
EXTENDS Storage, BlockTreeProofs, FiniteSetTheorems

\* What stands behind a registry score: an entry in Redis.  Only a worker that
\* has an entry, or is about to have passed its writing, registers itself.
Registered ==
    /\ registered => redis # {}
    /\ score # 0 => redis # {}
    /\ step \in {"advertise", "advertiseBack"} => redis # {}
    /\ step \in {"bulk", "bulkSets", "bulkOthers", "bulkDone"} => ~mutable
-----------------------------------------------------------------------------
\* The steps of the storage stage, whatever the queue brings.
LEMMA RegisteredStep ==
    ASSUME Registered, ~Advertise,
           \/ \E u, full : Start(u, full)
           \/ StoreStep \/ WorkerRestart \/ ProcessRestart
    PROVE  Registered'
<1>1. CASE \E u, full : Start(u, full)
    BY <1>1 DEF Start, PushBatch, BeginFlush, BeginBlock, BeginRollBack, redisVars, Registered
<1>2. CASE BulkCommit \/ CommitSets \/ CommitOthers
    BY <1>2 DEF BulkCommit, CommitSets, CommitOthers, redisVars, memVars, Registered
<1>3. CASE BulkFinish
    BY <1>3 DEF BulkFinish, MaybeAdvertise, Registered
<1>4. CASE CommitBlock \/ Gc \/ UndoBlock \/ NothingToUndo \/ Trim
    BY <1>4 DEF CommitBlock, Gc, UndoBlock, NothingToUndo, Trim, redisVars, memVars, Registered
<1>5. CASE Publish
    BY <1>5 DEF Publish, memVars, Registered
<1>6. CASE AdvertiseBlock
    BY <1>6 DEF AdvertiseBlock, MaybeAdvertise, Registered
<1>7. CASE WorkerRestart \/ ProcessRestart
    BY <1>7 DEF WorkerRestart, ProcessRestart, RepairRedis, Registered
<1> QED
    BY <1>1, <1>2, <1>3, <1>4, <1>5, <1>6, <1>7 DEF StoreStep
-----------------------------------------------------------------------------
(* A stage that follows the tip.  It starts with rollback metadata of an     *)
(* earlier run.                                                            *)

Resumed ==
    /\ StartBulk \in Block /\ StartCursor \in Block
    /\ StartBulk # StartCursor /\ StartBulk \in Elems(Chain[StartCursor])

\* A unit that rolls back is under way, or will be started over.
RollingBack == unit2pc.kind = "back" /\ step # "panic"

\* The newest block of the rollback buffer.
Top == buffer[1].point

\* How far below the newest block of the buffer a block stands in it.
Place(b) == Height[Top] + 1 - Height[b]

\* What undoes b: the values and the cursor of the blocks below it.
TrueInverse(b) == [keys |-> Touch[b], old |-> Expected(Parent[b]), cursor |-> Parent[b]]

Messages == [kind : {"fwd", "back"}, block : Block, mutable : BOOLEAN]

Records == [point : Block, inv : Inverses]

\* A buffer is the top of one branch, each block but the lowest with the actions
\* that undo it.
IsBuffer(buf) ==
    LET t == buf[1].point
    IN  /\ buf \in Seq(Records)
        /\ Len(buf) >= 1 /\ Len(buf) <= BufSize /\ Len(buf) <= Height[t]
        /\ \A i \in 1..Len(buf) : buf[i].point = Chain[t][Height[t] + 1 - i]
        /\ \A i \in 1..(Len(buf) - 1) : buf[i].inv = TrueInverse(buf[i].point)

Buffered == IsBuffer(buffer)

\* Metadata of the stretch from lo to hi of the branch of t.
Covers(m, t, lo, hi) ==
    /\ lo \in 1..Height[t] /\ hi \in 1..Height[t] /\ lo <= hi
    /\ DOMAIN m = {Chain[t][h] : h \in lo..hi}
    /\ \A h \in lo..hi : m[Chain[t][h]] \in Inverses
    /\ \A h \in (lo + 1)..hi : m[Chain[t][h]] = TrueInverse(Chain[t][h])

\* The persisted metadata covers the branch of the buffer, from below the buffer
\* to its top; a rollback trims it from the top, never below its point.
Persisted ==
    \E lo, hi \in Nat :
        /\ Covers(meta, Top, lo, hi)
        /\ lo + Len(buffer) <= Height[Top] + 1
        /\ hi # Height[Top] => RollingBack /\ Height[unit2pc.block] <= hi

\* Where the running unit stands.
Running ==
    /\ step \in {"idle", "block", "publish", "advertise", "gc", "undo", "publishBack",
                 "advertiseBack", "trim", "panic"}
    /\ batch = <<>>
    /\ mutable \in BOOLEAN /\ (~mutable => step = "idle")
    /\ unit2pc = NoUnit \/ (unit2pc \in Messages /\ mutable)
    /\ unit2pc.kind = "fwd" => Parent[unit2pc.block] = Top
    /\ RollingBack => Place(unit2pc.block) \in 1..Len(buffer)
                      /\ buffer[Place(unit2pc.block)].point = unit2pc.block
    /\ step = "block" => unit = unit2pc /\ unit.kind = "fwd"
    /\ step \in {"undo", "publishBack", "advertiseBack", "trim", "panic"}
           => unit = unit2pc /\ unit.kind = "back"
    /\ step \in {"publish", "advertise", "gc"}
           => unit2pc = NoUnit /\ unit.block = Top /\ mutable

\* No block of a buffer from the i-th to the one above the j-th touches k.
Untouched(buf, k, i, j) == \A n \in i..(j - 1) : k \notin Touch[buf[n].point]

\* With the blocks above the i-th undone, every key that no block still to be
\* undone touches has the value of the rollback's point p.
Undone(i, p) == \A k \in Key : Untouched(buffer, k, i, Place(p)) => kv[k] = Expected(p)[k]

\* The data and the cursor are those of the top of the buffer, except while a
\* rollback is under way.  A rollback that starts again starts from the top.
Data ==
    /\ kv \in [Key -> Seq(Block)]
    /\ ~RollingBack => cursor = Top /\ kv = Expected(Top)
    /\ RollingBack => LET p == unit2pc.block
                      IN  /\ \E v \in 1..Place(p) : cursor = buffer[v].point
                          /\ Undone(1, p)
    /\ step = "undo" => LET p == unit2pc.block
                        IN  \E i \in 1..Place(p) :
                                /\ i = Place(p) => i = 1
                                /\ todo = SubSeq(buffer, i, Place(p) - 1)
                                /\ Undone(i, p)
    /\ step \in {"publishBack", "advertiseBack", "trim"}
           => cursor = unit2pc.block /\ kv = Expected(unit2pc.block)
\* Where the stage stands once it has finished the unit it holds.
HeldPoint == IF unit2pc = NoUnit THEN Top ELSE unit2pc.block

StoreInv == Buffered /\ Persisted /\ Running /\ Data /\ EntriesRead
-----------------------------------------------------------------------------
(* The data that the blocks of a branch produce.                           *)

\* The recursive definition of Touching has a solution, so it satisfies it.
LEMMA TouchingDef ==
    /\ \A k \in Key : Touching[Genesis][k] = <<>>
    /\ \A b \in Block : \A k \in Key :
           Touching[b][k] = IF k \in Touch[b] THEN Append(Touching[Parent[b]][k], b)
                            ELSE Touching[Parent[b]][k]
<1> DEFINE V == [Key -> Seq(Block)]
           none == [k \in Key |-> <<>>]
           F == [b \in Block |-> [d \in V |->
                   [k \in Key |-> IF k \in Touch[b] THEN Append(d[k], b) ELSE d[k]]]]
           Eq(f) == f = [b \in Node |->
                           [k \in Key |-> IF b = Genesis THEN <<>>
                                          ELSE IF k \in Touch[b] THEN Append(f[Parent[b]][k], b)
                                          ELSE f[Parent[b]][k]]]
<1>1. none \in V /\ F \in Rules(V)
    BY DEF Rules
<1>2. PICK f : f \in Solutions(V, none, F)
    <2> HIDE DEF V, none, F
    <2> QED
        BY <1>1, TreeRecursion
<1>3. \A b \in Block : f[b] = [k \in Key |-> IF k \in Touch[b] THEN Append(f[Parent[b]][k], b)
                                             ELSE f[Parent[b]][k]]
    BY <1>2, ParentHeight, Zenon DEF Solutions
<1>4. Eq(f)
    <2>1. ASSUME NEW b \in Node
          PROVE  f[b] = [k \in Key |-> IF b = Genesis THEN <<>>
                                       ELSE IF k \in Touch[b] THEN Append(f[Parent[b]][k], b)
                                       ELSE f[Parent[b]][k]]
        <3>1. CASE b = Genesis
            BY <1>2, <3>1, Zenon DEF Solutions
        <3>2. CASE b # Genesis
            <4>1. b \in Block
                BY <3>2 DEF Node
            <4> QED
                BY <1>3, <3>2, <4>1
        <3> QED
            BY <3>1, <3>2
    <2>2. f = [b \in Node |-> f[b]]
        BY <1>2 DEF Solutions
    <2> QED
        BY <2>1, <2>2
<1>5. Eq(Touching)
    <2> HIDE DEF Eq
    <2>1. Touching = CHOOSE g : Eq(g)
        BY DEF Touching, Eq
    <2> QED
        BY <1>4, <2>1
<1>6. \A b \in Node : \A k \in Key :
          Touching[b][k] = IF b = Genesis THEN <<>>
                           ELSE IF k \in Touch[b] THEN Append(Touching[Parent[b]][k], b)
                           ELSE Touching[Parent[b]][k]
    <2> SUFFICES ASSUME NEW b \in Node
                 PROVE  Touching[b] = [k \in Key |->
                            IF b = Genesis THEN <<>>
                            ELSE IF k \in Touch[b] THEN Append(Touching[Parent[b]][k], b)
                            ELSE Touching[Parent[b]][k]]
        BY ZenonT(30)
    <2> QED
        BY <1>5, Zenon
<1>7. Genesis \in Node /\ \A b \in Block : b \in Node /\ b # Genesis
    BY TreeAssumption DEF Node
<1> QED
    BY <1>6, <1>7

\* Touching lists blocks.
LEMMA TouchingType == \A b \in Node : \A k \in Key : Touching[b][k] \in Seq(Block)
<1> DEFINE Good == {b \in Node : \A k \in Key : Touching[b][k] \in Seq(Block)}
<1>1. Genesis \in Good
    <2>1. \A k \in Key : Touching[Genesis][k] = <<>>
        BY TouchingDef
    <2>2. <<>> \in Seq(Block) /\ Genesis \in Node
        BY DEF Node
    <2> QED
        BY <2>1, <2>2, Zenon
<1>2. ASSUME NEW b \in Block, Parent[b] \in Good PROVE b \in Good
    <2> SUFFICES ASSUME NEW k \in Key PROVE Touching[b][k] \in Seq(Block)
        BY ParentHeight
    <2>1. Touching[Parent[b]][k] \in Seq(Block)
        BY <1>2
    <2>2. Touching[b][k] = IF k \in Touch[b] THEN Append(Touching[Parent[b]][k], b)
                           ELSE Touching[Parent[b]][k]
        BY TouchingDef
    <2> QED
        BY <2>1, <2>2
<1>3. \A b \in Node : b \in Good
    <2> HIDE DEF Good
    <2> QED
        BY <1>1, <1>2, TreeInduction, Zenon
<1> QED
    BY <1>3

\* What a block adds to the data of its parent is what a commit of it writes.
LEMMA ExpectedStep ==
    ASSUME NEW b \in Block
    PROVE  Expected(b) = ApplyTo(Expected(Parent[b]), b, Key)
<1> DEFINE p == Parent[b]
<1>1. b # NoBlock /\ p # NoBlock /\ p \in Node
    BY StorageAssumption, ParentHeight
<1>2. ASSUME NEW k \in Key
      PROVE  Expected(b)[k] = IF k \in Touch[b] THEN Write(k, Expected(p)[k], b)
                              ELSE Expected(p)[k]
    <2> DEFINE t == Touching[p][k]
    <2>1. t \in Seq(Block)
        BY <1>1, TouchingType
    <2>2. Touching[b][k] = IF k \in Touch[b] THEN Append(t, b) ELSE t
        BY TouchingDef
    <2>3. /\ Expected(p)[k] = IF k \in SetKeys /\ t # <<>> THEN <<t[Len(t)]>> ELSE t
          /\ Expected(b)[k] = IF k \in SetKeys /\ Touching[b][k] # <<>>
                              THEN <<Touching[b][k][Len(Touching[b][k])]>> ELSE Touching[b][k]
        BY <1>1 DEF Expected
    <2>4. Append(t, b) # <<>> /\ Append(t, b)[Len(Append(t, b))] = b
        BY <2>1
    <2> HIDE DEF t
    <2> QED
        BY <2>2, <2>3, <2>4 DEF Write
<1>3. Expected(b) = [k \in Key |-> Expected(b)[k]]
    BY DEF Expected
<1>4. ApplyTo(Expected(p), b, Key) = [k \in Key |-> IF k \in Touch[b] THEN Write(k, Expected(p)[k], b)
                                                    ELSE Expected(p)[k]]
    BY DEF ApplyTo
<1> QED
    BY <1>2, <1>3, <1>4

\* The data of a block has the shape of the store.
LEMMA ExpectedType ==
    ASSUME NEW b \in Node
    PROVE  Expected(b) \in [Key -> Seq(Block)]
<1>1. ASSUME NEW k \in Key
      PROVE  (IF k \in SetKeys /\ Touching[b][k] # <<>>
              THEN <<Touching[b][k][Len(Touching[b][k])]>> ELSE Touching[b][k]) \in Seq(Block)
    <2> DEFINE t == Touching[b][k]
    <2>1. t \in Seq(Block)
        BY TouchingType
    <2>2. t # <<>> => t[Len(t)] \in Block
        BY <2>1
    <2>3. t # <<>> => <<t[Len(t)]>> \in Seq(Block)
        BY <2>2
    <2> QED
        BY <2>1, <2>3
<1>2. b # NoBlock
    BY StorageAssumption
<1> QED
    BY <1>1, <1>2 DEF Expected

\* What undoes a block is a record of inverse actions, told apart from the init point's.
LEMMA InverseType ==
    ASSUME NEW b \in Block
    PROVE  TrueInverse(b) \in Inverses /\ TrueInverse(b) # NoInverse
<1>1. Parent[b] \in Node /\ Touch[b] \in SUBSET Key /\ NoBlock \notin Node
    BY ParentHeight, StorageAssumption
<1>2. Expected(Parent[b]) \in [Key -> Seq(Block)]
    BY <1>1, ExpectedType
<1>3. TrueInverse(b) \in Inverses
    BY <1>1, <1>2 DEF TrueInverse, Inverses
<1>4. TrueInverse(b).cursor = Parent[b] /\ NoInverse.cursor = NoBlock
    BY DEF TrueInverse, NoInverse
<1> QED
    BY <1>1, <1>3, <1>4
-----------------------------------------------------------------------------
(* The rollback buffer.                                                    *)

\* What the shape of a buffer says.
LEMMA BufferShape ==
    ASSUME NEW buf, IsBuffer(buf)
    PROVE  /\ buf \in Seq(Records) /\ Len(buf) \in Nat /\ Len(buf) >= 1 /\ Len(buf) <= BufSize
           /\ Len(buf) <= Height[buf[1].point] /\ BufSize \in Nat
           /\ \A i \in 1..Len(buf) :
                  buf[i].point = Chain[buf[1].point][Height[buf[1].point] + 1 - i]
           /\ \A i \in 1..(Len(buf) - 1) : buf[i].inv = TrueInverse(buf[i].point)
    BY StorageAssumption DEF IsBuffer

\* The blocks of a buffer, one per height from the top down.
LEMMA BufferBlocks ==
    ASSUME NEW buf, IsBuffer(buf)
    PROVE  /\ buf[1].point \in Block /\ Height[buf[1].point] \in Nat /\ Len(buf) \in Nat
           /\ \A i \in 1..Len(buf) :
                  /\ buf[i].point \in Block
                  /\ Height[buf[i].point] = Height[buf[1].point] + 1 - i
           /\ \A i \in 1..(Len(buf) - 1) : Parent[buf[i].point] = buf[i + 1].point
<1> DEFINE t == buf[1].point
           n == Height[t]
<1>1. buf \in Seq(Records) /\ Len(buf) \in Nat /\ Len(buf) >= 1
    BY DEF IsBuffer
<1>2. ASSUME NEW i \in 1..Len(buf) PROVE buf[i].point \in Block
    <2>1. buf[i] \in Records
        BY <1>1
    <2> QED
        BY <2>1 DEF Records
<1>3. t \in Block
    BY <1>1, <1>2
<1>4. n \in Nat /\ t \in Node
    BY <1>3, ParentHeight
<1>5. Len(buf) <= n /\ \A i \in 1..Len(buf) : buf[i].point = Chain[t][n + 1 - i]
    BY DEF IsBuffer
<1>6. ASSUME NEW i \in 1..Len(buf) PROVE Height[buf[i].point] = n + 1 - i
    <2>1. n + 1 - i \in 1..n
        BY <1>1, <1>4, <1>5
    <2> QED
        BY <1>4, <1>5, <2>1, OnPath, SMTT(30)
<1>7. ASSUME NEW i \in 1..(Len(buf) - 1) PROVE Parent[buf[i].point] = buf[i + 1].point
    <2>1. n + 1 - i \in 1..n /\ n + 1 - i # 1 /\ (n + 1 - i) - 1 = n + 1 - (i + 1)
          /\ i \in 1..Len(buf) /\ i + 1 \in 1..Len(buf)
        <3> DEFINE m == Len(buf)
        <3>1. m \in Nat /\ n \in Nat /\ m <= n /\ i \in 1..(m - 1)
            BY <1>1, <1>4, <1>5
        <3> HIDE DEF m, n
        <3>2. i \in 1..m /\ i + 1 \in 1..m
            BY <3>1
        <3>3. n + 1 - i \in 1..n /\ n + 1 - i # 1 /\ (n + 1 - i) - 1 = n + 1 - (i + 1)
            BY <3>1
        <3> QED
            BY <3>2, <3>3 DEF m
    <2>2. Parent[Chain[t][n + 1 - i]] = Chain[t][(n + 1 - i) - 1]
        BY <1>4, <2>1, OnPath, Zenon
    <2> QED
        BY <1>5, <2>1, <2>2, Zenon
<1> QED
    BY <1>1, <1>2, <1>3, <1>4, <1>6, <1>7, Zenon

\* add_block keeps the shape: a child of the top becomes the top.
LEMMA AddBlockIsBuffer ==
    ASSUME NEW buf, IsBuffer(buf), NEW b \in Block, Parent[b] = buf[1].point,
           NEW new, new = AddBlock(buf, b, TrueInverse(b))
    PROVE  IsBuffer(new) /\ new[1].point = b /\ Len(new) <= Len(buf) + 1
<1> DEFINE t == buf[1].point
           n == Height[t]
           r == [point |-> b, inv |-> TrueInverse(b)]
           all == <<r>> \o buf
           k == IF Len(buf) + 1 < BufSize THEN Len(buf) + 1 ELSE BufSize
<1>1. /\ buf \in Seq(Records) /\ Len(buf) \in Nat /\ Len(buf) >= 1 /\ Len(buf) <= BufSize
      /\ Len(buf) <= n /\ BufSize \in Nat
      /\ \A i \in 1..Len(buf) : buf[i].point = Chain[t][n + 1 - i]
      /\ \A i \in 1..(Len(buf) - 1) : buf[i].inv = TrueInverse(buf[i].point)
    BY BufferShape, Zenon
<1>2. /\ t \in Block /\ n \in Nat /\ Height[b] = n + 1 /\ Chain[b][n + 1] = b
      /\ \A h \in 1..n : Chain[b][h] = Chain[t][h]
    BY BufferBlocks, ParentHeight, ChainChild
<1>3. r \in Records
    BY InverseType DEF Records
<1>4. /\ all \in Seq(Records) /\ Len(all) = Len(buf) + 1
      /\ all[1] = r /\ \A i \in 2..(Len(buf) + 1) : all[i] = buf[i - 1]
    <2> HIDE DEF r
    <2> QED
        BY <1>1, <1>3
<1>5. k \in 1..(Len(buf) + 1) /\ k <= BufSize
    BY <1>1
<1>6. new = SubSeq(all, 1, k)
    BY DEF AddBlock
<1>7. new \in Seq(Records) /\ Len(new) = k /\ \A i \in 1..k : new[i] = all[i]
    <2> HIDE DEF all, k
    <2> QED
        BY <1>1, <1>4, <1>5, <1>6
<1>8. new[1].point = b /\ new[1].inv = TrueInverse(b)
    <2>1. new[1] = r
        <3> HIDE DEF all, k, r
        <3> QED
            BY <1>1, <1>4, <1>5, <1>7, SMTT(30)
    <2> QED
        BY <2>1
<1>9. \A i \in 2..k : new[i] = buf[i - 1] /\ i - 1 \in 1..Len(buf)
    <2> HIDE DEF all, k
    <2> QED
        BY <1>1, <1>4, <1>5, <1>7
<1>10. ASSUME NEW i \in 1..k PROVE new[i].point = Chain[b][(n + 1) + 1 - i]
    <2>1. CASE i = 1
        BY <1>2, <1>8, <2>1
    <2>2. CASE i # 1
        <3>1. i \in 2..k /\ (n + 1) + 1 - i \in 1..n /\ n + 1 - (i - 1) = (n + 1) + 1 - i
            <4>1. i \in 1..k /\ k \in 1..(Len(buf) + 1) /\ Len(buf) <= n
                BY <1>1, <1>5
            <4> HIDE DEF k, n
            <4> QED
                BY <1>1, <1>2, <2>2, <4>1, SMTT(30)
        <3> HIDE DEF k
        <3> QED
            BY <1>1, <1>2, <1>9, <3>1, Zenon
    <2> QED
        BY <2>1, <2>2, Zenon
<1>11. ASSUME NEW i \in 1..(k - 1) PROVE new[i].inv = TrueInverse(new[i].point)
    <2>1. CASE i = 1
        BY <1>8, <2>1, Zenon
    <2>2. CASE i # 1
        <3>1. i \in 2..k /\ i - 1 \in 1..(Len(buf) - 1)
            <4> HIDE DEF k
            <4> QED
                BY <1>1, <1>5, <2>2
        <3> HIDE DEF k
        <3> QED
            BY <1>1, <1>9, <3>1, Zenon
    <2> QED
        BY <2>1, <2>2
<1>12. k <= n + 1 /\ k >= 1 /\ k <= Len(buf) + 1
    BY <1>1, <1>2, <1>5
<1>13. Height[new[1].point] = n + 1 /\ Chain[new[1].point] = Chain[b] /\ Len(new) = k
    BY <1>2, <1>7, <1>8
<1> HIDE DEF k, n
<1> QED
    BY <1>5, <1>7, <1>8, <1>10, <1>11, <1>12, <1>13 DEF IsBuffer

\* rollback_to_point keeps the shape: a block of the buffer becomes the top.
LEMMA RollbackIsBuffer ==
    ASSUME NEW buf, IsBuffer(buf), NEW p \in 1..Len(buf),
           NEW new, new = SubSeq(buf, p, Len(buf))
    PROVE  IsBuffer(new) /\ new[1].point = buf[p].point /\ Len(new) = Len(buf) + 1 - p
<1> DEFINE t == buf[1].point
           n == Height[t]
           b == buf[p].point
<1>1. /\ buf \in Seq(Records) /\ Len(buf) \in Nat /\ Len(buf) <= BufSize
      /\ Len(buf) <= n /\ BufSize \in Nat
      /\ \A i \in 1..Len(buf) : buf[i].point = Chain[t][n + 1 - i]
      /\ \A i \in 1..(Len(buf) - 1) : buf[i].inv = TrueInverse(buf[i].point)
    BY BufferShape
<1>2. t \in Node /\ n \in Nat /\ b \in Block /\ Height[b] = n + 1 - p
    BY BufferBlocks DEF Node
<1>3. /\ new \in Seq(Records) /\ Len(new) = Len(buf) + 1 - p
      /\ \A i \in 1..(Len(buf) + 1 - p) : new[i] = buf[p + i - 1]
    BY <1>1
<1>4. new[1] = buf[p]
    BY <1>1, <1>3
<1>5. b = Chain[t][n + 1 - p] /\ n + 1 - p \in 1..n
    <2>1. b = Chain[t][n + 1 - p] /\ n \in Nat /\ Len(buf) \in Nat /\ Len(buf) <= n
        BY <1>1, <1>2, Zenon
    <2> HIDE DEF n, b, t
    <2> QED
        BY <2>1
<1>6. \A h \in 1..(n + 1 - p) : Chain[b][h] = Chain[t][h]
    BY <1>2, <1>5, ChainPrefix, ZenonT(30)
<1>7. ASSUME NEW i \in 1..Len(new) PROVE new[i].point = Chain[b][(n + 1 - p) + 1 - i]
    <2>1. /\ i \in 1..(Len(buf) + 1 - p) /\ p + i - 1 \in 1..Len(buf)
          /\ n + 1 - (p + i - 1) = (n + 1 - p) + 1 - i
          /\ (n + 1 - p) + 1 - i \in 1..(n + 1 - p)
        <3>1. i \in 1..(Len(buf) + 1 - p) /\ Len(buf) \in Nat /\ Len(buf) <= n /\ n \in Nat
            BY <1>1, <1>2, <1>3, Zenon
        <3> HIDE DEF n
        <3> QED
            BY <3>1
    <2>2. new[i].point = Chain[t][n + 1 - (p + i - 1)]
        BY <1>1, <1>3, <2>1, Zenon
    <2> QED
        BY <1>6, <2>1, <2>2, Zenon
<1>8. ASSUME NEW i \in 1..(Len(new) - 1) PROVE new[i].inv = TrueInverse(new[i].point)
    <2>1. i \in 1..(Len(buf) + 1 - p) /\ p + i - 1 \in 1..(Len(buf) - 1)
        BY <1>1, <1>3, SMTT(30)
    <2> QED
        BY <1>1, <1>3, <2>1, Zenon
<1>9. Len(new) >= 1 /\ Len(new) <= BufSize /\ Len(new) <= Height[b]
    <2> DEFINE m == Len(buf)
               k == Len(new)
               g == Height[b]
    <2>1. /\ m \in Nat /\ n \in Nat /\ m <= n /\ m <= BufSize /\ BufSize \in Nat /\ p \in 1..m
          /\ k = m + 1 - p /\ g = n + 1 - p
        BY <1>1, <1>2, <1>3, Zenon
    <2> HIDE DEF m, k, g, n
    <2>2. k >= 1 /\ k <= BufSize /\ k <= g
        BY <2>1
    <2> QED
        BY <2>2 DEF k, g
<1>10. new[1].point = b /\ Height[new[1].point] = n + 1 - p /\ Chain[new[1].point] = Chain[b]
    BY <1>2, <1>4, Zenon
<1> HIDE DEF n, b
<1>11. IsBuffer(new)
    BY <1>3, <1>7, <1>8, <1>9, <1>10, Zenon DEF IsBuffer
<1> QED
    BY <1>3, <1>4, <1>11

\* A block stands at one place of the buffer, which its height tells.
LEMMA PlaceInBuffer ==
    ASSUME NEW buf, IsBuffer(buf), NEW p \in 1..Len(buf)
    PROVE  /\ Position(buf, buf[p].point) = {p} /\ Nearest(buf, buf[p].point) = p
           /\ p = Height[buf[1].point] + 1 - Height[buf[p].point]
<1>1. /\ Height[buf[1].point] \in Nat
      /\ \A i \in 1..Len(buf) : Height[buf[i].point] = Height[buf[1].point] + 1 - i
      /\ Len(buf) \in Nat
    BY BufferBlocks
<1>2. ASSUME NEW i \in 1..Len(buf), buf[i].point = buf[p].point PROVE i = p
    <2>1. Height[buf[1].point] + 1 - i = Height[buf[1].point] + 1 - p
        BY <1>1, <1>2, Zenon
    <2> QED
        BY <1>1, <2>1
<1>3. Position(buf, buf[p].point) = {p}
    BY <1>2 DEF Position
<1>4. Nearest(buf, buf[p].point) = p
    BY <1>3 DEF Nearest
<1> QED
    BY <1>1, <1>3, <1>4

\* A key that no block between two blocks of a buffer touches has one value.
LEMMA UntouchedSame ==
    ASSUME NEW buf, IsBuffer(buf), NEW k \in Key, NEW j \in 1..Len(buf)
    PROVE  \A i \in 1..j : Untouched(buf, k, i, j)
                              => Expected(buf[i].point)[k] = Expected(buf[j].point)[k]
<1> DEFINE Same(i) == Untouched(buf, k, i, j)
                         => Expected(buf[i].point)[k] = Expected(buf[j].point)[k]
           Good == {n \in Nat : n < j => Same(j - n)}
<1>1. /\ Len(buf) \in Nat
      /\ \A i \in 1..Len(buf) : buf[i].point \in Block
      /\ \A i \in 1..(Len(buf) - 1) : Parent[buf[i].point] = buf[i + 1].point
    BY BufferBlocks
<1>2. 0 \in Good
    <2>1. j - 0 = j
        BY <1>1
    <2> QED
        BY <2>1
<1>3. ASSUME NEW n \in Nat, n \in Good PROVE n + 1 \in Good
    <2> SUFFICES ASSUME n + 1 < j, Untouched(buf, k, j - (n + 1), j)
                 PROVE  Expected(buf[j - (n + 1)].point)[k] = Expected(buf[j].point)[k]
        OBVIOUS
    <2> DEFINE i == j - (n + 1)
               b == buf[i].point
    <2>1. /\ i \in 1..(Len(buf) - 1) /\ i + 1 = j - n /\ n < j /\ i \in i..(j - 1)
          /\ (i + 1)..(j - 1) \subseteq i..(j - 1) /\ i \in 1..Len(buf)
        BY <1>1, SMTT(30), Z3T(30)
    <2>2. k \notin Touch[b] /\ Untouched(buf, k, j - n, j)
        BY <2>1, Zenon DEF Untouched
    <2>3. Expected(buf[j - n].point)[k] = Expected(buf[j].point)[k]
        BY <1>3, <2>1, <2>2
    <2>4. b \in Block /\ Parent[b] = buf[j - n].point
        BY <1>1, <2>1, Zenon
    <2>5. Expected(b)[k] = Expected(Parent[b])[k]
        <3>1. Expected(b) = ApplyTo(Expected(Parent[b]), b, Key)
            BY <2>4, ExpectedStep
        <3> HIDE DEF b
        <3> QED
            BY <2>2, <3>1, Zenon DEF ApplyTo
    <2> QED
        BY <2>3, <2>4, <2>5
<1>4. \A n \in Nat : n \in Good
    <2> HIDE DEF Good
    <2> QED
        BY <1>2, <1>3, NatSetInduction
<1>5. ASSUME NEW i \in 1..j PROVE Same(i)
    <2>1. j - i \in Nat /\ j - i < j /\ j - (j - i) = i
        BY <1>1
    <2>2. j - i \in Good
        BY <1>4, <2>1, Zenon
    <2>3. Same(j - (j - i))
        BY <2>1, <2>2
    <2> HIDE DEF Same
    <2> QED
        BY <2>1, <2>3
<1> QED
    BY <1>5
-----------------------------------------------------------------------------
(* The persisted rollback metadata.                                        *)

\* The blocks of a stretch, one per height.
LEMMA CoversBlocks ==
    ASSUME NEW m, NEW t \in Block, NEW lo, NEW hi, Covers(m, t, lo, hi)
    PROVE  /\ Height[t] \in Nat /\ lo \in 1..Height[t] /\ hi \in 1..Height[t] /\ lo <= hi
           /\ \A h \in lo..hi : /\ Chain[t][h] \in Block /\ Height[Chain[t][h]] = h
                                /\ Chain[t][h] \in DOMAIN m
           /\ \A b \in DOMAIN m : b \in Block /\ Height[b] \in lo..hi /\ Chain[t][Height[b]] = b
<1>1. /\ Height[t] \in Nat /\ lo \in 1..Height[t] /\ hi \in 1..Height[t] /\ lo <= hi
      /\ DOMAIN m = {Chain[t][h] : h \in lo..hi} /\ t \in Node
    BY ParentHeight, Zenon DEF Covers
<1>2. ASSUME NEW h \in lo..hi
      PROVE  Chain[t][h] \in Block /\ Height[Chain[t][h]] = h /\ Chain[t][h] \in DOMAIN m
    <2>1. h \in 1..Height[t]
        BY <1>1
    <2> QED
        BY <1>1, <2>1, OnPath, Zenon
<1>3. ASSUME NEW b \in DOMAIN m
      PROVE  b \in Block /\ Height[b] \in lo..hi /\ Chain[t][Height[b]] = b
    <2>1. PICK h \in lo..hi : b = Chain[t][h]
        BY <1>1, Zenon
    <2> QED
        BY <1>2, <2>1, Zenon
<1> QED
    BY <1>1, <1>2, <1>3, Zenon

\* A block commits with its metadata above that of its parent.
LEMMA CoversPut ==
    ASSUME NEW m, NEW b \in Block, Parent[b] \in Block, NEW lo,
           Covers(m, Parent[b], lo, Height[Parent[b]])
    PROVE  Covers(PutMeta(m, b, TrueInverse(b)), b, lo, Height[b])
<1> DEFINE t == Parent[b]
           n == Height[t]
           new == PutMeta(m, b, TrueInverse(b))
<1>1. /\ n \in Nat /\ Height[b] = n + 1 /\ Chain[b][n + 1] = b
      /\ \A h \in 1..n : Chain[b][h] = Chain[t][h]
    BY ParentHeight, ChainChild, Zenon
<1>2. /\ lo \in 1..n /\ n \in 1..n /\ lo <= n
      /\ \A h \in lo..n : Height[Chain[t][h]] = h /\ Chain[t][h] \in DOMAIN m
      /\ \A x \in DOMAIN m : Height[x] \in lo..n /\ Chain[t][Height[x]] = x
    BY CoversBlocks
<1>3. /\ \A h \in lo..n : m[Chain[t][h]] \in Inverses
      /\ \A h \in (lo + 1)..n : m[Chain[t][h]] = TrueInverse(Chain[t][h])
    BY DEF Covers
<1>4. /\ DOMAIN new = DOMAIN m \cup {b} /\ new[b] = TrueInverse(b)
      /\ \A x \in DOMAIN m : x # b => new[x] = m[x]
    BY Zenon DEF PutMeta
<1>5. ASSUME NEW h \in lo..(n + 1), h # n + 1
      PROVE  /\ h \in lo..n /\ Chain[b][h] = Chain[t][h] /\ Chain[b][h] # b
             /\ new[Chain[b][h]] = m[Chain[t][h]]
    <2>1. h \in lo..n /\ h \in 1..n
        BY <1>1, <1>2, <1>5, SMTT(30), Z3T(30)
    <2>2. Chain[t][h] # b
        BY <1>1, <1>2, <2>1
    <2> QED
        BY <1>1, <1>2, <1>4, <2>1, <2>2, ZenonT(30)
<1>6. DOMAIN new = {Chain[b][h] : h \in lo..(n + 1)}
    <2>1. ASSUME NEW x \in DOMAIN m PROVE \E h \in lo..(n + 1) : x = Chain[b][h]
        <3>1. Height[x] \in lo..n /\ Height[x] \in 1..n /\ Height[x] \in lo..(n + 1)
            BY <1>1, <1>2
        <3> QED
            BY <1>1, <1>2, <3>1, ZenonT(30)
    <2>2. n + 1 \in lo..(n + 1)
        BY <1>1, <1>2
    <2>3. ASSUME NEW h \in lo..(n + 1) PROVE Chain[b][h] \in DOMAIN m \cup {b}
        <3>1. CASE h = n + 1
            BY <1>1, <3>1, Zenon
        <3>2. CASE h # n + 1
            BY <1>2, <1>5, <3>2, Zenon
        <3> QED
            BY <3>1, <3>2, Zenon
    <2> HIDE DEF new, n
    <2> QED
        BY <1>1, <1>4, <2>1, <2>2, <2>3
<1>7. ASSUME NEW h \in lo..(n + 1) PROVE new[Chain[b][h]] \in Inverses
    <2>1. CASE h = n + 1
        BY <1>1, <1>4, <2>1, InverseType, Zenon
    <2>2. CASE h # n + 1
        BY <1>3, <1>5, <2>2, Zenon
    <2> QED
        BY <2>1, <2>2, Zenon
<1>8. ASSUME NEW h \in (lo + 1)..(n + 1) PROVE new[Chain[b][h]] = TrueInverse(Chain[b][h])
    <2>1. CASE h = n + 1
        BY <1>1, <1>4, <2>1, Zenon
    <2>2. CASE h # n + 1
        <3>1. h \in lo..(n + 1) /\ h \in (lo + 1)..n
            BY <1>1, <1>2, <2>2
        <3> QED
            BY <1>3, <1>5, <2>2, <3>1, Zenon
    <2> QED
        BY <2>1, <2>2, Zenon
<1>9. lo \in 1..Height[b] /\ Height[b] \in 1..Height[b] /\ lo <= Height[b]
    BY <1>1, <1>2
<1> HIDE DEF new, n
<1> QED
    BY <1>1, <1>6, <1>7, <1>8, <1>9, Zenon DEF Covers, new

\* Garbage collection and trimming leave a shorter stretch.
LEMMA CoversDrop ==
    ASSUME NEW m, NEW t \in Block, NEW lo, NEW hi, Covers(m, t, lo, hi),
           NEW low \in lo..hi, NEW high \in lo..hi, low <= high,
           NEW S, \A h \in lo..hi : Chain[t][h] \in S <=> h \notin low..high
    PROVE  Covers(DropMeta(m, S), t, low, high)
<1> DEFINE new == DropMeta(m, S)
<1>1. /\ Height[t] \in Nat /\ lo \in 1..Height[t] /\ hi \in 1..Height[t] /\ lo <= hi
      /\ \A h \in lo..hi : Chain[t][h] \in DOMAIN m
      /\ \A b \in DOMAIN m : Height[b] \in lo..hi /\ Chain[t][Height[b]] = b
    BY CoversBlocks
<1>2. /\ \A h \in lo..hi : m[Chain[t][h]] \in Inverses
      /\ \A h \in (lo + 1)..hi : m[Chain[t][h]] = TrueInverse(Chain[t][h])
    BY Zenon DEF Covers
<1>3. DOMAIN new = DOMAIN m \ S /\ \A x \in DOMAIN m \ S : new[x] = m[x]
    BY DEF DropMeta
<1>4. low..high \subseteq lo..hi /\ (low + 1)..high \subseteq (lo + 1)..hi
      /\ (low + 1)..high \subseteq low..high
    BY <1>1
<1>5. ASSUME NEW h \in low..high PROVE Chain[t][h] \in DOMAIN m \ S
    BY <1>1, <1>4, Zenon
<1>6. ASSUME NEW x \in DOMAIN m \ S PROVE \E h \in low..high : x = Chain[t][h]
    BY <1>1
<1>7. DOMAIN new = {Chain[t][h] : h \in low..high}
    <2> HIDE DEF new
    <2> QED
        BY <1>3, <1>5, <1>6
<1>8. /\ \A h \in low..high : new[Chain[t][h]] \in Inverses
      /\ \A h \in (low + 1)..high : new[Chain[t][h]] = TrueInverse(Chain[t][h])
    <2> HIDE DEF new
    <2> QED
        BY <1>2, <1>3, <1>4, <1>5, Zenon
<1>9. low \in 1..Height[t] /\ high \in 1..Height[t]
    BY <1>1
<1> HIDE DEF new
<1> QED
    BY <1>7, <1>8, <1>9, Zenon DEF Covers, new

\* A stretch belongs to the branch of its own top.
LEMMA CoversTop ==
    ASSUME NEW m, NEW t \in Block, NEW lo, NEW hi, Covers(m, t, lo, hi),
           NEW b, b = Chain[t][hi]
    PROVE  b \in Block /\ Height[b] = hi /\ Covers(m, b, lo, hi)
<1>1. /\ Height[t] \in Nat /\ lo \in 1..Height[t] /\ hi \in 1..Height[t] /\ lo <= hi
      /\ \A h \in lo..hi : Chain[t][h] \in Block /\ Height[Chain[t][h]] = h
      /\ t \in Node
    BY CoversBlocks DEF Node
<1>2. b \in Block /\ Height[b] = hi
    BY <1>1
<1>3. \A h \in 1..hi : Chain[b][h] = Chain[t][h]
    BY <1>1, ChainPrefix
<1>4. lo..hi \subseteq 1..hi /\ (lo + 1)..hi \subseteq 1..hi /\ lo \in 1..hi /\ hi \in 1..hi
    BY <1>1
<1>5. {Chain[t][h] : h \in lo..hi} = {Chain[b][h] : h \in lo..hi}
    BY <1>3, <1>4, Zenon
<1>6. Covers(m, b, lo, hi)
    BY <1>1, <1>2, <1>3, <1>4, <1>5, Zenon DEF Covers
<1> QED
    BY <1>2, <1>6, Zenon

\* A process that starts finds in the metadata the buffer of its top.
LEMMA LoadedIsBuffer ==
    ASSUME NEW t \in Block, NEW lo, Covers(meta, t, lo, Height[t])
    PROVE  /\ IsBuffer(LoadedBuffer) /\ LoadedBuffer[1].point = t
           /\ lo + Len(LoadedBuffer) <= Height[t] + 1
<1> DEFINE n == Height[t]
           hs == Heights(DOMAIN meta)
           nth(i) == CHOOSE h \in hs : Cardinality({g \in hs : g > h}) = i - 1
           record(h) == LET b == CHOOSE x \in MetaAt(h) : TRUE
                        IN  [point |-> b, inv |-> meta[b]]
           c == IF Cardinality(hs) < BufSize THEN Cardinality(hs) ELSE BufSize
           buf == [i \in 1..c |-> record(nth(i))]
<1>1. /\ n \in Nat /\ lo \in 1..n /\ n \in 1..n
      /\ \A h \in lo..n : /\ Chain[t][h] \in Block /\ Height[Chain[t][h]] = h
                          /\ Chain[t][h] \in DOMAIN meta
      /\ \A b \in DOMAIN meta : b \in Block /\ Height[b] \in lo..n /\ Chain[t][Height[b]] = b
    BY CoversBlocks
<1>2. /\ \A h \in lo..n : meta[Chain[t][h]] \in Inverses
      /\ \A h \in (lo + 1)..n : meta[Chain[t][h]] = TrueInverse(Chain[t][h])
    BY DEF Covers
<1>3. hs = lo..n
    BY <1>1 DEF Heights
<1>4. Cardinality(hs) = n + 1 - lo
    <2>1. lo \in Int /\ n \in Int /\ ~(lo > n) /\ n - lo + 1 = n + 1 - lo
        BY <1>1
    <2> HIDE DEF n, hs
    <2> QED
        BY <1>3, <2>1, FS_Interval, Zenon
<1>5. c \in 1..(n + 1 - lo) /\ c <= BufSize
    BY <1>1, <1>4, StorageAssumption
<1>6. ASSUME NEW h \in lo..n PROVE Cardinality({g \in hs : g > h}) = n - h
    <2>1. {g \in hs : g > h} = (h + 1)..n
        BY <1>1, <1>3
    <2>2. h + 1 \in Int /\ n \in Int /\ (h + 1 > n => n - h = 0) /\ n - (h + 1) + 1 = n - h
        BY <1>1
    <2> HIDE DEF n, hs
    <2> QED
        BY <2>1, <2>2, FS_Interval, Zenon
<1>7. ASSUME NEW i \in 1..c PROVE nth(i) = n + 1 - i /\ n + 1 - i \in lo..n
    <2>1. n + 1 - i \in lo..n /\ n - (n + 1 - i) = i - 1
        <3> HIDE DEF n, c
        <3> QED
            BY <1>1, <1>5
    <2>2. \A h \in lo..n : Cardinality({g \in hs : g > h}) = i - 1 <=> h = n + 1 - i
        <3> SUFFICES ASSUME NEW h \in lo..n
                     PROVE  n - h = i - 1 <=> h = n + 1 - i
            BY <1>6, Zenon
        <3> HIDE DEF n, c, hs
        <3> QED
            BY <1>1, <1>5
    <2> HIDE DEF n, c
    <2> QED
        BY <1>3, <2>1, <2>2, Zenon
<1>8. ASSUME NEW h \in lo..n
      PROVE  record(h) = [point |-> Chain[t][h], inv |-> meta[Chain[t][h]]]
    <2>1. MetaAt(h) = {Chain[t][h]}
        BY <1>1, Zenon DEF MetaAt
    <2> QED
        BY <2>1, Zenon
<1>9. ASSUME NEW i \in 1..c
      PROVE  /\ buf[i].point = Chain[t][n + 1 - i] /\ buf[i].inv = meta[Chain[t][n + 1 - i]]
             /\ buf[i] \in Records
    <2> DEFINE b == Chain[t][n + 1 - i]
    <2>1. buf[i] = [point |-> b, inv |-> meta[b]]
        <3> HIDE DEF c, n, nth, record
        <3> QED
            BY <1>7, <1>8
    <2>2. b \in Block /\ meta[b] \in Inverses
        <3> HIDE DEF n, c
        <3> QED
            BY <1>1, <1>2, <1>7, Zenon
    <2>3. [point |-> b, inv |-> meta[b]] \in Records
        <3> HIDE DEF b
        <3> QED
            BY <2>2 DEF Records
    <2> HIDE DEF b, buf
    <2> QED
        BY <2>1, <2>3 DEF b
<1>10. buf \in Seq(Records) /\ Len(buf) = c
    <2>1. c \in Nat
        <3> HIDE DEF c, n
        <3> QED
            BY <1>1, <1>5
    <2>2. buf = [i \in 1..c |-> buf[i]]
        <3> HIDE DEF c, nth, record
        <3> QED
            BY Zenon
    <2> HIDE DEF buf, c
    <2> QED
        BY <1>9, <2>1, <2>2
<1>11. buf[1].point = t
    <2>1. 1 \in 1..c /\ n + 1 - 1 = n
        <3> HIDE DEF c, n
        <3> QED
            BY <1>1, <1>5
    <2>2. Chain[t][n] = t
        BY ChainChild, Zenon
    <2> HIDE DEF buf, c, n
    <2> QED
        BY <1>9, <2>1, <2>2, Zenon
<1>12. ASSUME NEW i \in 1..(c - 1) PROVE buf[i].inv = TrueInverse(buf[i].point)
    <2>1. i \in 1..c /\ n + 1 - i \in (lo + 1)..n
        <3> HIDE DEF c, n
        <3> QED
            BY <1>1, <1>5
    <2> HIDE DEF buf, c, n
    <2> QED
        BY <1>2, <1>9, <2>1, Zenon
<1>13. LoadedBuffer = buf
    BY DEF LoadedBuffer
<1>14. c >= 1 /\ c <= n /\ c <= BufSize /\ lo + c <= n + 1
    <2> HIDE DEF c, n
    <2> QED
        BY <1>1, <1>5
<1>15. IsBuffer(buf)
    <2> HIDE DEF buf, c
    <2> QED
        BY <1>9, <1>10, <1>11, <1>12, <1>14, Zenon DEF IsBuffer
<1> HIDE DEF buf, c
<1> QED
    BY <1>10, <1>11, <1>13, <1>14, <1>15, Zenon
-----------------------------------------------------------------------------
(* The steps.                                                              *)

\* The state that fetch_persistent_buffer and an earlier run leave to a new process.
LEMMA StoreStarts ==
    ASSUME Resumed, StoreInit
    PROVE  StoreInv
<1> DEFINE t == StartCursor
           n == Height[t]
           j == Height[StartBulk]
<1>1. /\ t \in Block /\ t \in Node /\ n \in Nat /\ j \in 1..n /\ j # n
      /\ Chain[t][j] = StartBulk /\ Len(Chain[t]) = n
    <2>1. t \in Block /\ t \in Node /\ n \in Nat
        BY ParentHeight DEF Resumed
    <2>2. Len(Chain[t]) = n
        BY <2>1, ChainIsPath DEF Path
    <2>3. PICK i \in 1..n : StartBulk = Chain[t][i]
        BY <2>2 DEF Resumed, Elems
    <2>4. j = i
        BY <2>1, <2>3, OnPath, Zenon
    <2>5. Chain[t][n] = t
        BY <2>1, ChainChild, Zenon
    <2> QED
        BY <2>1, <2>2, <2>3, <2>4, <2>5, Zenon DEF Resumed
<1>2. \A h \in 1..n : Chain[t][h] \in Block /\ Height[Chain[t][h]] = h
    BY <1>1, OnPath
<1>3. OneByOne = {Chain[t][h] : h \in (j + 1)..n}
    <2>1. OneByOne = {b \in Block : (\E h \in 1..n : b = Chain[t][h]) /\ Height[b] > j}
        BY <1>1 DEF OneByOne, Elems, Resumed
    <2>2. ASSUME NEW h \in 1..n PROVE Height[Chain[t][h]] > j <=> h \in (j + 1)..n
        BY <1>1, <1>2
    <2>3. (j + 1)..n \subseteq 1..n
        BY <1>1
    <2> HIDE DEF t, n, j
    <2> QED
        BY <1>2, <2>1, <2>2, <2>3
<1>4. n \in (j + 1)..n /\ OneByOne # {}
    BY <1>1, <1>3
<1>5. OneByOne \cup {StartBulk} = {Chain[t][h] : h \in j..n}
    <2>1. \A h \in j..n : h = j \/ h \in (j + 1)..n
        BY <1>1
    <2>2. (j + 1)..n \subseteq j..n /\ j \in j..n
        BY <1>1
    <2> HIDE DEF t, n, j
    <2> QED
        BY <1>1, <1>3, <2>1, <2>2, Zenon
<1>6. /\ DOMAIN meta = {Chain[t][h] : h \in j..n}
      /\ \A b \in DOMAIN meta : meta[b] = IF b = StartBulk THEN NoInverse ELSE TrueInverse(b)
    BY <1>4, <1>5, Zenon DEF StoreInit, TrueInverse
<1>7. ASSUME NEW h \in j..n
      PROVE  /\ h \in 1..n /\ Chain[t][h] \in Block /\ Chain[t][h] \in DOMAIN meta
             /\ h # j => Chain[t][h] # StartBulk
    BY <1>1, <1>2, <1>6
<1>8. NoInverse \in Inverses
    <2>1. [k \in Key |-> <<>>] \in [Key -> Seq(Block)]
        OBVIOUS
    <2> QED
        BY <2>1 DEF NoInverse, Inverses
<1>9. Covers(meta, t, j, n)
    <2>1. \A h \in j..n : meta[Chain[t][h]] \in Inverses
        BY <1>6, <1>7, <1>8, InverseType, Zenon
    <2>2. ASSUME NEW h \in (j + 1)..n PROVE meta[Chain[t][h]] = TrueInverse(Chain[t][h])
        <3>1. h \in j..n /\ h # j
            BY <1>1
        <3> QED
            BY <1>6, <1>7, <3>1, Zenon
    <2>3. j <= n /\ n \in 1..n
        BY <1>1
    <2> HIDE DEF n, j, t
    <2> QED
        BY <1>1, <1>6, <2>1, <2>2, <2>3, Zenon DEF Covers, n, t
<1>10. IsBuffer(buffer) /\ Top = t /\ j + Len(buffer) <= n + 1
    <2>1. buffer = LoadedBuffer
        BY Zenon DEF StoreInit
    <2> QED
        BY <1>1, <1>9, <2>1, LoadedIsBuffer, Zenon DEF Top
<1>11. /\ cursor = t /\ kv = Expected(t) /\ unit2pc = NoUnit /\ step = "idle" /\ batch = <<>>
       /\ mutable = FALSE
       /\ redis = {Entry(b, b) : b \in OneByOne}
    BY Zenon DEF StoreInit
<1>12. Persisted
    BY <1>1, <1>9, <1>10, SMTT(30) DEF Persisted
<1>13. Running
    BY <1>11, Zenon DEF Running, NoUnit, RollingBack
<1>14. Data
    <2>1. kv \in [Key -> Seq(Block)]
        BY <1>1, <1>11, ExpectedType, Zenon
    <2>2. ~RollingBack
        BY <1>11 DEF RollingBack, NoUnit
    <2> QED
        BY <1>10, <1>11, <2>1, <2>2, Zenon DEF Data
<1>15. EntriesRead
    BY <1>11 DEF EntriesRead, Entry
<1> QED
    BY <1>10, <1>12, <1>13, <1>14, <1>15, Zenon DEF StoreInv, Buffered

\* A step elsewhere leaves the storage stage's part of the invariant.
LEMMA StoreUntouched ==
    ASSUME StoreInv, UNCHANGED storeVars
    PROVE  StoreInv'
<1>1. UNCHANGED <<kv, cursor, meta, redis, score, batch, buffer, mutable, unit2pc,
                  last_processed, registered, step, unit, todo>>
    BY DEF storeVars, tikvVars, redisVars, memVars, runVars
<1>2. Buffered' /\ EntriesRead'
    BY <1>1, Zenon DEF StoreInv, Buffered, EntriesRead
<1>3. Top' = Top /\ RollingBack' = RollingBack /\ \A b : Place(b)' = Place(b)
    BY <1>1, Zenon DEF Top, RollingBack, Place
<1>4. Persisted'
    BY <1>1, <1>3, Zenon DEF StoreInv, Persisted
<1>5. Running'
    BY <1>1, <1>3, Zenon DEF StoreInv, Running
<1>6. \A i, p : Undone(i, p)' <=> Undone(i, p)
    BY <1>1, <1>3, Zenon DEF Undone
<1>7. Data'
    BY <1>1, <1>3, <1>6, Zenon DEF StoreInv, Data
<1> QED
    BY <1>2, <1>4, <1>5, <1>7, Zenon DEF StoreInv

\* The points are blocks.
LEMMA StorePoints ==
    ASSUME StoreInv
    PROVE  Top \in Block /\ HeldPoint \in Block
<1>1. Top \in Block
    BY BufferBlocks, Zenon DEF StoreInv, Buffered, Top
<1> QED
    BY <1>1, Zenon DEF StoreInv, Running, HeldPoint, Messages

\* A unit starts: a block when it continues the buffer, a rollback when its point
\* stands in it.  A unit taken from work_unit_2pc starts over.
LEMMA UnitStarts ==
    ASSUME StoreInv, NEW u \in Messages, NEW full, Start(u, full),
           mutable \/ u.mutable, unit2pc \in {NoUnit, u},
           u.kind = "fwd" => Parent[u.block] = Top
    PROVE  StoreInv' /\ unit2pc' = u /\ mutable'
<1> DEFINE p == u.block
<1>1. /\ step = "idle" /\ mutable' = TRUE
      /\ UNCHANGED <<kv, cursor, meta, redis, buffer>>
    <2>1. mutable \in BOOLEAN /\ u.mutable \in BOOLEAN
        BY Zenon DEF StoreInv, Running, Messages
    <2> QED
        BY <2>1, Zenon DEF Start, tikvVars, redisVars
<1>2. BeginBlock(u) \/ BeginRollBack(u)
    BY <1>1, Zenon DEF Start, PushBatch, BeginFlush
<1>3. batch = <<>> /\ p \in Block /\ u.kind \in {"fwd", "back"} /\ u # NoUnit
    BY DEF StoreInv, Running, Messages, NoUnit
<1>4. unit' = u /\ unit2pc' = u /\ batch' = <<>>
    BY <1>2, <1>3, Zenon DEF BeginBlock, BeginRollBack
<1>5. Top' = Top /\ \A b : Place(b)' = Place(b)
    BY <1>1, Zenon DEF Top, Place
<1>6. Buffered' /\ EntriesRead'
    BY <1>1, Zenon DEF StoreInv, Buffered, EntriesRead
<1>7. kv \in [Key -> Seq(Block)]
    BY DEF StoreInv, Data
<1>8. unit2pc = NoUnit => ~RollingBack
    BY DEF RollingBack, NoUnit
<1>9. RollingBack => /\ unit2pc = u /\ Place(p) \in 1..Len(buffer)
                     /\ buffer[Place(p)].point = p
    BY <1>8, Zenon DEF StoreInv, Running
<1>10. PICK lo, hi \in Nat : /\ Covers(meta, Top, lo, hi)
                             /\ lo + Len(buffer) <= Height[Top] + 1
                             /\ hi # Height[Top] => RollingBack /\ Height[unit2pc.block] <= hi
    BY Zenon DEF StoreInv, Persisted
<1>11. ~RollingBack => cursor = Top /\ kv = Expected(Top)
    BY Zenon DEF StoreInv, Data
<1>12. CASE u.kind = "fwd"
    <2>1. step' = "block"
        BY <1>2, <1>3, <1>12, Zenon DEF BeginBlock, BeginRollBack
    <2>2. ~RollingBack /\ ~RollingBack'
        BY <1>4, <1>8, <1>12, Zenon DEF RollingBack
    <2>3. Persisted'
        BY <1>1, <1>5, <1>10, <2>2, Zenon DEF Persisted
    <2>4. Running'
        BY <1>1, <1>3, <1>4, <1>5, <1>12, <2>1, <2>2, Zenon DEF Running
    <2>5. Data'
        BY <1>1, <1>5, <1>7, <1>11, <2>1, <2>2, Zenon DEF Data
    <2> QED
        BY <1>1, <1>4, <1>6, <2>3, <2>4, <2>5, Zenon DEF StoreInv
<1>13. CASE u.kind = "back" /\ Position(buffer, p) = {}
    <2>1. step' = "panic"
        BY <1>2, <1>13, Zenon DEF BeginBlock, BeginRollBack
    <2>2. ~RollingBack /\ ~RollingBack'
        BY <1>9, <1>13, <2>1, Zenon DEF RollingBack, Position
    <2>3. Persisted'
        BY <1>1, <1>5, <1>10, <2>2, Zenon DEF Persisted
    <2>4. Running'
        BY <1>1, <1>3, <1>4, <1>5, <1>13, <2>1, <2>2, Zenon DEF Running
    <2>5. Data'
        BY <1>1, <1>5, <1>7, <1>11, <2>1, <2>2, Zenon DEF Data
    <2> QED
        BY <1>1, <1>4, <1>6, <2>3, <2>4, <2>5, Zenon DEF StoreInv
<1>14. CASE u.kind = "back" /\ Position(buffer, p) # {}
    <2>1. step' = "undo" /\ todo' = PointsSince(buffer, p)
        BY <1>2, <1>14, Zenon DEF BeginBlock, BeginRollBack
    <2>2. PICK n \in 1..Len(buffer) : buffer[n].point = p
        BY <1>14, Zenon DEF Position
    <2>3. IsBuffer(buffer)
        BY Zenon DEF StoreInv, Buffered
    <2>4. Nearest(buffer, p) = n /\ n = Place(p)
        BY <2>2, <2>3, PlaceInBuffer, SMTT(30) DEF Place, Top
    <2>5. RollingBack'
        BY <1>4, <1>14, <2>1, Zenon DEF RollingBack
    <2>6. Persisted'
        BY <1>1, <1>4, <1>5, <1>9, <1>10, <2>5, ZenonT(30) DEF Persisted
    <2>7. Running'
        BY <1>1, <1>3, <1>4, <1>5, <1>14, <2>1, <2>2, <2>4, <2>5, ZenonT(30) DEF Running
    <2>8. Len(buffer) \in Nat /\ 1 \in 1..n /\ n \in 1..Place(p) /\ 1 \in 1..Place(p)
        BY <2>2, <2>3, <2>4, BufferShape
    <2>9. \E v \in 1..Place(p) : cursor = buffer[v].point
        <3>1. CASE RollingBack
            BY <1>9, <3>1, Zenon DEF StoreInv, Data
        <3>2. CASE ~RollingBack
            BY <1>11, <2>8, <3>2, Zenon DEF Top
        <3> QED
            BY <3>1, <3>2, Zenon
    <2>10. Undone(1, p)
        <3>1. CASE RollingBack
            BY <1>9, <3>1, Zenon DEF StoreInv, Data
        <3>2. CASE ~RollingBack
            <4> SUFFICES ASSUME NEW k \in Key, Untouched(buffer, k, 1, Place(p))
                         PROVE  kv[k] = Expected(p)[k]
                BY Zenon DEF Undone
            <4>1. Untouched(buffer, k, 1, n)
                BY <2>4, Zenon
            <4>2. Expected(buffer[1].point)[k] = Expected(buffer[n].point)[k]
                BY <2>2, <2>3, <2>8, <4>1, UntouchedSame, Zenon
            <4> QED
                BY <1>11, <2>2, <3>2, <4>2, Zenon DEF Top
        <3> QED
            BY <3>1, <3>2, Zenon
    <2>11. Undone(1, p)'
        BY <1>1, <1>5, <2>10, Zenon DEF Undone
    <2>12. todo' = SubSeq(buffer, 1, Place(p) - 1)
        BY <2>1, <2>4, SMTT(30) DEF PointsSince
    <2>13. Data'
        BY <1>1, <1>4, <1>5, <1>7, <2>1, <2>5, <2>8, <2>9, <2>11, <2>12, Zenon DEF Data
    <2> QED
        BY <1>1, <1>4, <1>6, <2>6, <2>7, <2>13, Zenon DEF StoreInv
<1> QED
    BY <1>3, <1>12, <1>13, <1>14, Zenon

\* The worker takes the unit of work_unit_2pc again.
LEMMA RescheduleStep ==
    ASSUME StoreInv, Reschedule
    PROVE  StoreInv' /\ mutable /\ UNCHANGED <<mutable, HeldPoint>>
<1> DEFINE u == unit2pc
<1>1. /\ u # NoUnit /\ u \in Messages /\ mutable /\ Start(u, TRUE)
      /\ u.kind = "fwd" => Parent[u.block] = Top
    BY Zenon DEF Reschedule, StoreInv, Running
<1>2. StoreInv' /\ unit2pc' = u /\ mutable'
    BY <1>1, UnitStarts, Zenon
<1>3. mutable' = mutable /\ buffer' = buffer
    <2>1. mutable \in BOOLEAN /\ u.mutable \in BOOLEAN
        BY <1>1, Zenon DEF StoreInv, Running, Messages
    <2> QED
        BY <1>1, <2>1, Zenon DEF Start
<1>4. HeldPoint' = HeldPoint
    BY <1>1, <1>2, <1>3, Zenon DEF HeldPoint, Top
<1> QED
    BY <1>1, <1>2, <1>3, <1>4

\* A block commits on the data of its parent, with what undoes it.
LEMMA CommitBlockStep ==
    ASSUME StoreInv, CommitBlock
    PROVE  StoreInv' /\ mutable /\ UNCHANGED <<mutable, HeldPoint>>
<1> DEFINE b == unit.block
<1>1. /\ step = "block" /\ mutable /\ unit = unit2pc /\ unit2pc \in Messages
      /\ unit.kind = "fwd" /\ Parent[b] = Top /\ batch = <<>>
    <2>1. step = "block"
        BY Zenon DEF CommitBlock
    <2>2. unit = unit2pc /\ unit.kind = "fwd" /\ mutable /\ batch = <<>>
        BY <2>1 DEF StoreInv, Running
    <2> QED
        BY <2>1, <2>2 DEF StoreInv, Running, NoUnit
<1>2. ~RollingBack /\ b \in Block /\ Top \in Block
    BY <1>1, StorePoints, Zenon DEF RollingBack, Messages
<1>3. cursor = Top /\ kv = Expected(Top)
    BY <1>2, Zenon DEF StoreInv, Data
<1>4. IsBuffer(buffer) /\ buffer # <<>>
    BY BufferShape DEF StoreInv, Buffered
<1>5. InverseActions(b) = TrueInverse(b)
    BY <1>1, <1>3, Zenon DEF InverseActions, TrueInverse
<1>6. /\ kv' = ApplyTo(kv, b, Key) /\ cursor' = b
      /\ meta' = PutMeta(meta, b, TrueInverse(b))
      /\ buffer' = AddBlock(buffer, b, TrueInverse(b))
      /\ unit2pc' = NoUnit /\ step' = "publish"
      /\ UNCHANGED <<redis, batch, mutable, unit>>
    BY <1>4, <1>5, Zenon DEF CommitBlock, redisVars
<1> HIDE DEF b
<1>7. IsBuffer(buffer') /\ Top' = b /\ Len(buffer') <= Len(buffer) + 1
    BY <1>1, <1>2, <1>4, <1>6, AddBlockIsBuffer, Zenon DEF Top
<1>8. kv' = Expected(b) /\ kv' \in [Key -> Seq(Block)]
    <2>1. Expected(b) = ApplyTo(Expected(Parent[b]), b, Key)
        BY <1>2, ExpectedStep
    <2>2. Expected(b) \in [Key -> Seq(Block)]
        BY <1>2, ExpectedType, Zenon DEF Node
    <2> QED
        BY <1>1, <1>3, <1>6, <2>1, <2>2, Zenon
<1>9. ~RollingBack'
    BY <1>6 DEF RollingBack, NoUnit
<1>10. Persisted'
    <2>1. PICK lo, hi \in Nat : /\ Covers(meta, Top, lo, hi)
                                /\ lo + Len(buffer) <= Height[Top] + 1
                                /\ hi # Height[Top] => RollingBack
        BY Zenon DEF StoreInv, Persisted
    <2>2. hi = Height[Parent[b]] /\ Covers(meta, Parent[b], lo, hi) /\ Parent[b] \in Block
        BY <1>1, <1>2, <2>1, Zenon
    <2>3. Covers(meta', b, lo, Height[b])
        BY <1>2, <1>6, <2>2, CoversPut, Zenon
    <2>4. Height[b] = Height[Top] + 1 /\ Height[b] \in Nat /\ Height[Top] \in Nat
        BY <1>1, <1>2, ParentHeight, Zenon DEF Node
    <2>5. Len(buffer) \in Nat /\ Len(buffer') \in Nat
        BY <1>4, <1>7, BufferShape, Zenon
    <2>6. lo + Len(buffer') <= Height[b] + 1
        BY <1>7, <2>1, <2>4, <2>5, SMTT(30)
    <2> QED
        BY <1>7, <2>3, <2>4, <2>6, Zenon DEF Persisted
<1>11. Running'
    BY <1>1, <1>6, <1>7, <1>9, ZenonT(30) DEF Running, NoUnit, b
<1>12. Data'
    BY <1>6, <1>7, <1>8, <1>9, Zenon DEF Data
<1>13. EntriesRead' /\ Buffered'
    BY <1>6, <1>7, Zenon DEF StoreInv, EntriesRead, Buffered
<1>14. HeldPoint' = HeldPoint
    BY <1>1, <1>6, <1>7 DEF HeldPoint, NoUnit, b
<1> QED
    BY <1>1, <1>6, <1>10, <1>11, <1>12, <1>13, <1>14, Zenon DEF StoreInv

\* A step that leaves the data, the buffer and the locked unit as they are.
LEMMA SamePlace ==
    ASSUME StoreInv, UNCHANGED <<kv, buffer, unit2pc>>, step # "panic", step' # "panic"
    PROVE  /\ Top' = Top /\ HeldPoint' = HeldPoint /\ Buffered'
           /\ RollingBack' <=> RollingBack
           /\ \A b : Place(b)' = Place(b)
           /\ \A i, p : Undone(i, p)' <=> Undone(i, p)
<1>1. Top' = Top /\ HeldPoint' = HeldPoint /\ Buffered'
    BY DEF Top, HeldPoint, StoreInv, Buffered
<1>2. RollingBack' <=> RollingBack
    BY DEF RollingBack
<1>3. \A b : Place(b)' = Place(b)
    BY <1>1, Zenon DEF Place
<1>4. \A i, p : Undone(i, p)' <=> Undone(i, p)
    BY <1>3, Zenon DEF Undone
<1> QED
    BY <1>1, <1>2, <1>3, <1>4, Zenon

\* The entry of a block, of a rollback's point and of the cursor that bootstrap
\* finds name the cursor of their timestamp.
LEMMA PublishStep ==
    ASSUME StoreInv, Publish \/ AdvertiseBlock
    PROVE  StoreInv' /\ mutable /\ UNCHANGED <<mutable, HeldPoint>>
<1>1. /\ step \in {"publish", "publishBack", "advertise", "advertiseBack"} /\ mutable
      /\ step' = IF step = "publish" THEN "advertise"
                 ELSE IF step = "publishBack" THEN "advertiseBack"
                 ELSE IF step = "advertise" THEN "gc" ELSE "trim"
      /\ UNCHANGED <<kv, cursor, meta, batch, buffer, mutable, unit2pc, unit>>
    <2>1. /\ step \in {"publish", "publishBack", "advertise", "advertiseBack"}
          /\ step' = IF step = "publish" THEN "advertise"
                     ELSE IF step = "publishBack" THEN "advertiseBack"
                     ELSE IF step = "advertise" THEN "gc" ELSE "trim"
          /\ UNCHANGED <<kv, cursor, meta, batch, buffer, mutable, unit2pc, unit>>
        BY DEF Publish, AdvertiseBlock, tikvVars, memVars
    <2> QED
        BY <2>1, Zenon DEF StoreInv, Running
<1>2. /\ Top' = Top /\ HeldPoint' = HeldPoint /\ Buffered'
      /\ RollingBack' <=> RollingBack
      /\ \A b : Place(b)' = Place(b)
      /\ \A i, p : Undone(i, p)' <=> Undone(i, p)
    BY <1>1, SamePlace, Zenon
<1>3. Persisted'
    BY <1>1, <1>2, Zenon DEF StoreInv, Persisted
<1>4. Running'
    BY <1>1, <1>2, SMTT(30) DEF StoreInv, Running
<1>5. Data'
    BY <1>1, <1>2, Zenon DEF StoreInv, Data
<1>6. EntriesRead'
    <2>1. CASE AdvertiseBlock
        BY <2>1, Zenon DEF AdvertiseBlock, StoreInv, EntriesRead
    <2>2. CASE Publish
        <3>1. redis' = redis \cup {Entry(unit.block, cursor)} /\ step \in {"publish", "publishBack"}
            BY <2>2, Zenon DEF Publish
        <3>2. step = "publish" => unit.block = Top /\ ~RollingBack
            BY SMTT(30) DEF StoreInv, Running, RollingBack, NoUnit
        <3>3. step = "publishBack" => unit.block = unit2pc.block /\ cursor = unit2pc.block
            BY Zenon DEF StoreInv, Running, Data
        <3>4. unit.block = cursor
            BY <3>1, <3>2, <3>3, SMTT(30) DEF StoreInv, Data
        <3> QED
            BY <3>1, <3>4 DEF StoreInv, EntriesRead, Entry
    <2> QED
        BY <2>1, <2>2, SMTT(30)
<1> QED
    BY <1>1, <1>2, <1>3, <1>4, <1>5, <1>6, Zenon DEF StoreInv

\* Garbage collection drops the lowest height that is out of the buffer's reach.
LEMMA GcStep ==
    ASSUME StoreInv, Gc
    PROVE  StoreInv' /\ mutable /\ UNCHANGED <<mutable, HeldPoint>>
<1> DEFINE old == {b \in DOMAIN meta : Height[b] + BufSize < Height[Top]}
           low == {b \in old : \A h \in Heights(old) : Height[b] <= h}
           n == Height[Top]
           c == Chain[Top]
<1>1. /\ step = "gc" /\ unit2pc = NoUnit /\ unit.block = Top /\ mutable
      /\ ~RollingBack /\ Top \in Block
    <2>1. step = "gc"
        BY Zenon DEF Gc
    <2>2. unit2pc = NoUnit /\ unit.block = Top /\ mutable
        BY <2>1 DEF StoreInv, Running
    <2> QED
        BY <2>1, <2>2, StorePoints, Zenon DEF RollingBack, NoUnit
<1>2. /\ meta' = DropMeta(meta, low)
      /\ (step' = "idle" /\ unit' = NoUnit) \/ UNCHANGED <<step, unit>>
      /\ UNCHANGED <<kv, cursor, redis, batch, buffer, mutable, unit2pc>>
    BY <1>1, ZenonT(30) DEF Gc, redisVars, memVars
<1>3. /\ Top' = Top /\ HeldPoint' = HeldPoint /\ Buffered'
      /\ RollingBack' <=> RollingBack
      /\ \A b : Place(b)' = Place(b)
      /\ \A i, p : Undone(i, p)' <=> Undone(i, p)
    BY <1>1, <1>2, SamePlace, Zenon
<1>4. PICK lo, hi \in Nat : /\ Covers(meta, Top, lo, hi) /\ hi = n
                            /\ lo + Len(buffer) <= n + 1
    BY <1>1, Zenon DEF StoreInv, Persisted
<1>5. /\ n \in Nat /\ lo \in 1..n /\ lo <= hi
      /\ \A h \in lo..hi : Height[c[h]] = h /\ c[h] \in DOMAIN meta
      /\ \A b \in DOMAIN meta : Height[b] \in lo..hi
    BY <1>1, <1>4, CoversBlocks, SMTT(30), Z3T(30)
<1>6. Len(buffer) \in Nat /\ Len(buffer) <= BufSize /\ BufSize \in Nat /\ BufSize >= 1
    BY BufferShape, StorageAssumption DEF StoreInv, Buffered
<1> DEFINE new == IF lo + BufSize < n THEN lo + 1 ELSE lo
<1>7. new \in lo..hi /\ new + Len(buffer) <= n + 1 /\ new \in Nat
    <2> HIDE DEF n
    <2> QED
        BY <1>4, <1>5, <1>6
<1>8. ASSUME NEW h \in lo..hi
      PROVE  c[h] \in low <=> h \notin new..hi
    <2>1. c[h] \in old <=> h + BufSize < n
        BY <1>5, Zenon
    <2>2. \A g \in Heights(old) : g >= lo /\ g \in Nat
        BY <1>5, <1>6 DEF Heights
    <2>3. lo + BufSize < n => lo \in Heights(old)
        <3>1. lo \in lo..hi
            BY <1>5, <1>4
        <3> QED
            BY <1>5, <3>1, Zenon DEF Heights
    <2>4. h \in Nat /\ h >= lo /\ h <= hi /\ Height[c[h]] = h
        BY <1>5
    <2>5. c[h] \in low <=> c[h] \in old /\ \A g \in Heights(old) : h <= g
        BY <2>4, Zenon
    <2> HIDE DEF low, old, c, n
    <2>6. CASE h = lo
        BY <1>4, <1>5, <1>6, <2>1, <2>2, <2>4, <2>5, <2>6, SMTT(30), Z3T(30)
    <2>7. CASE h > lo
        BY <1>4, <1>5, <1>6, <2>1, <2>3, <2>4, <2>5, <2>7, SMTT(30), Z3T(30)
    <2> QED
        BY <2>4, <2>6, <2>7
<1>9. Covers(meta', Top, new, hi)
    <2>1. hi \in lo..hi /\ new <= hi
        BY <1>5, <1>7, SMTT(30)
    <2> HIDE DEF low, new
    <2> QED
        BY <1>1, <1>2, <1>4, <1>7, <1>8, <2>1, CoversDrop, Zenon
<1>10. Persisted'
    BY <1>2, <1>3, <1>4, <1>7, <1>9, ZenonT(30) DEF Persisted
<1>11. Running'
    BY <1>1, <1>2, <1>3, Zenon DEF StoreInv, Running
<1>12. Data'
    BY <1>1, <1>2, <1>3, ZenonT(30) DEF StoreInv, Data
<1>13. EntriesRead'
    BY <1>2, Zenon DEF StoreInv, EntriesRead
<1> QED
    BY <1>1, <1>2, <1>3, <1>10, <1>11, <1>12, <1>13, ZenonT(30) DEF StoreInv

\* Where a rollback stands in the buffer.
LEMMA RollbackPlace ==
    ASSUME StoreInv, step \in {"undo", "publishBack", "advertiseBack", "trim"}
    PROVE  /\ RollingBack /\ mutable /\ unit = unit2pc /\ unit2pc \in Messages
           /\ unit2pc.block \in Block
           /\ Place(unit2pc.block) \in 1..Len(buffer)
           /\ buffer[Place(unit2pc.block)].point = unit2pc.block
           /\ IsBuffer(buffer) /\ Len(buffer) \in Nat
<1>1. RollingBack /\ unit = unit2pc /\ unit2pc.kind = "back"
    BY Zenon DEF StoreInv, Running, RollingBack
<1>2. mutable /\ unit2pc \in Messages
    BY <1>1 DEF StoreInv, Running, NoUnit
<1>3. unit2pc.block \in Block
    BY <1>2, Zenon DEF Messages
<1>4. IsBuffer(buffer) /\ Len(buffer) \in Nat
    BY BufferShape, Zenon DEF StoreInv, Buffered
<1> QED
    BY <1>1, <1>2, <1>3, <1>4, Zenon DEF StoreInv, Running

\* An undo transaction restores what the block below left, and its cursor.
LEMMA UndoBlockStep ==
    ASSUME StoreInv, UndoBlock
    PROVE  StoreInv' /\ mutable /\ UNCHANGED <<mutable, HeldPoint>>
<1> DEFINE p == unit2pc.block
           n == Place(p)
<1>1. /\ RollingBack /\ mutable /\ unit = unit2pc /\ unit2pc \in Messages
      /\ p \in Block /\ n \in 1..Len(buffer) /\ buffer[n].point = p
      /\ IsBuffer(buffer) /\ Len(buffer) \in Nat
    BY RollbackPlace, Zenon DEF UndoBlock
<1>2. /\ step = "undo" /\ todo # <<>>
      /\ kv' = Restored(kv, Head(todo).inv)
      /\ cursor' = IF Head(todo).inv = NoInverse THEN cursor ELSE Head(todo).inv.cursor
      /\ todo' = Tail(todo)
      /\ step' = IF Len(todo) = 1 THEN "publishBack" ELSE "undo"
      /\ UNCHANGED <<meta, redis, batch, buffer, mutable, unit2pc, unit>>
    BY Zenon DEF UndoBlock, redisVars, memVars
<1>3. PICK i \in 1..n : todo = SubSeq(buffer, i, n - 1) /\ Undone(i, p)
    BY <1>2, Zenon DEF StoreInv, Data
<1>4. /\ Top' = Top /\ \A b : Place(b)' = Place(b)
      /\ RollingBack' /\ Buffered' /\ HeldPoint' = HeldPoint
    BY <1>1, <1>2, Zenon DEF Top, Place, RollingBack, StoreInv, Buffered, HeldPoint
<1> HIDE DEF n, p
<1>5. /\ i \in Nat /\ n \in Nat /\ i < n /\ i \in 1..(Len(buffer) - 1)
      /\ Head(todo) = buffer[i] /\ Len(todo) = n - i
      /\ Tail(todo) = SubSeq(buffer, i + 1, n - 1)
    <2>1. buffer \in Seq(Records)
        BY <1>1, BufferShape, Zenon
    <2>2. i \in Nat /\ n \in Nat /\ i >= 1 /\ i <= n /\ n <= Len(buffer)
        BY <1>1, <1>3
    <2>3. i < n
        <3>1. i = n => todo = <<>>
            BY <1>3, <2>1, <2>2
        <3> QED
            BY <1>2, <2>2, <3>1
    <2>4. Len(SubSeq(buffer, i, n - 1)) = n - i
        BY <2>1, <2>2, <2>3
    <2>5. Head(SubSeq(buffer, i, n - 1)) = buffer[i]
        BY <2>1, <2>2, <2>3
    <2>6. Tail(SubSeq(buffer, i, n - 1)) = SubSeq(buffer, i + 1, n - 1)
        BY <2>1, <2>2, <2>3, SMTT(30)
    <2> QED
        BY <1>1, <1>3, <2>2, <2>3, <2>4, <2>5, <2>6, SMTT(30), Z3T(30)
<1> DEFINE x == buffer[i].point
           y == buffer[i + 1].point
<1>6. x \in Block /\ Parent[x] = y /\ y \in Block /\ buffer[i].inv = TrueInverse(x)
    <2>1. i \in 1..Len(buffer) /\ i + 1 \in 1..Len(buffer)
        BY <1>1, <1>5, SMTT(30)
    <2> QED
        BY <1>1, <1>5, <2>1, BufferBlocks, BufferShape, Zenon
<1>7. /\ cursor' = y
      /\ kv' = [k \in Key |-> IF k \in Touch[x] THEN Expected(y)[k] ELSE kv[k]]
    <2>1. Head(todo).inv = TrueInverse(x) /\ TrueInverse(x) # NoInverse
        BY <1>5, <1>6, InverseType, Zenon
    <2>2. /\ TrueInverse(x).cursor = y /\ TrueInverse(x).keys = Touch[x]
          /\ TrueInverse(x).old = Expected(y)
        BY <1>6, Zenon DEF TrueInverse
    <2> QED
        BY <1>2, <2>1, <2>2, Zenon DEF Restored
<1>8. kv' \in [Key -> Seq(Block)]
    <2>1. Expected(y) \in [Key -> Seq(Block)]
        BY <1>6, ExpectedType, Zenon DEF Node
    <2>2. kv \in [Key -> Seq(Block)]
        BY Zenon DEF StoreInv, Data
    <2> HIDE DEF x, y
    <2> QED
        BY <1>7, <2>1, <2>2, Zenon
<1>9. ASSUME NEW k \in Key, Untouched(buffer, k, i + 1, n)
      PROVE  kv'[k] = Expected(p)[k]
    <2>1. CASE k \in Touch[x]
        <3>1. i + 1 \in 1..n
            BY <1>5
        <3>2. Expected(buffer[i + 1].point)[k] = Expected(buffer[n].point)[k]
            BY <1>1, <1>9, <3>1, UntouchedSame, Zenon DEF n
        <3>3. kv'[k] = Expected(y)[k]
            BY <1>7, <2>1, Zenon
        <3> QED
            BY <1>1, <3>2, <3>3, Zenon DEF n
    <2>2. CASE k \notin Touch[x]
        <3>1. Untouched(buffer, k, i, n)
            <4> SUFFICES ASSUME NEW j \in i..(n - 1) PROVE k \notin Touch[buffer[j].point]
                BY DEF Untouched
            <4>1. j = i \/ j \in (i + 1)..(n - 1)
                BY <1>5
            <4> QED
                BY <1>9, <2>2, <4>1, Zenon DEF Untouched
        <3> QED
            BY <1>3, <1>7, <2>2, <3>1, Zenon DEF Undone, n
    <2> QED
        BY <2>1, <2>2, Zenon
<1> HIDE DEF x, y
<1>10. Undone(i + 1, p)'
    <2>1. Place(p)' = n /\ p' = p
        BY <1>2, <1>4, Zenon DEF n, p
    <2> QED
        BY <1>2, <1>9, <2>1, Zenon DEF Undone
<1>11. Undone(1, p)'
    <2>1. ASSUME NEW k \in Key, Untouched(buffer, k, 1, n)
          PROVE  kv'[k] = Expected(p)[k]
        <3>1. Untouched(buffer, k, i + 1, n)
            BY <1>5, <2>1 DEF Untouched
        <3> QED
            BY <1>9, <3>1, Zenon
    <2>2. Place(p)' = n /\ p' = p
        BY <1>2, <1>4 DEF n, p
    <2> QED
        BY <1>2, <2>1, <2>2, Zenon DEF Undone
<1>12. Persisted'
    BY <1>1, <1>2, <1>4, Zenon DEF StoreInv, Persisted
<1>13. Running'
    BY <1>1, <1>2, <1>4, Zenon DEF StoreInv, Running, p
<1>14. EntriesRead'
    BY <1>2, Zenon DEF StoreInv, EntriesRead
<1>15. p' = p /\ Place(p)' = n /\ unit2pc'.block = p
    BY <1>2, <1>4 DEF n, p
<1>16. i + 1 \in 1..n
    BY <1>5
<1>17. \E v \in 1..n : cursor' = buffer'[v].point
    BY <1>2, <1>7, <1>16, Zenon DEF y
<1>18. CASE Len(todo) = 1
    <2>1. i + 1 = n /\ step' = "publishBack"
        <3>1. step' = "publishBack"
            BY <1>2, <1>18
        <3>2. n - i = 1 /\ i \in Nat /\ n \in Nat
            BY <1>5, <1>18, Zenon
        <3> QED
            BY <3>1, <3>2
    <2>2. cursor' = p
        BY <1>1, <1>7, <2>1, Zenon DEF y, n
    <2>3. kv' = Expected(p)
        <3>1. ASSUME NEW k \in Key PROVE kv'[k] = Expected(p)[k]
            <4>1. Untouched(buffer, k, i + 1, n)
                BY <1>5, <2>1 DEF Untouched
            <4> QED
                BY <1>9, <4>1, Zenon
        <3>2. Expected(p) \in [Key -> Seq(Block)]
            BY <1>1, ExpectedType, SMTT(30) DEF Node, p
        <3> QED
            BY <1>8, <3>1, <3>2
    <2>4. Data'
        BY <1>4, <1>8, <1>11, <1>15, <1>17, <2>1, <2>2, <2>3, Zenon DEF Data
    <2> QED
        BY <1>1, <1>2, <1>4, <1>12, <1>13, <1>14, <2>4, Zenon DEF StoreInv
<1>19. CASE Len(todo) # 1
    <2>1. i + 1 # n /\ step' = "undo"
        BY <1>2, <1>5, <1>19
    <2>2. todo' = SubSeq(buffer', i + 1, n - 1)
        BY <1>2, <1>5, SMTT(30)
    <2>3. Data'
        BY <1>4, <1>8, <1>10, <1>11, <1>15, <1>16, <1>17, <2>1, <2>2, ZenonT(30) DEF Data
    <2> QED
        BY <1>1, <1>2, <1>4, <1>12, <1>13, <1>14, <2>3, Zenon DEF StoreInv
<1> QED
    BY <1>18, <1>19, Zenon

\* A rollback to the newest block undoes nothing.
LEMMA NothingToUndoStep ==
    ASSUME StoreInv, NothingToUndo
    PROVE  StoreInv' /\ mutable /\ UNCHANGED <<mutable, HeldPoint>>
<1> DEFINE p == unit2pc.block
           n == Place(p)
<1>1. /\ RollingBack /\ mutable /\ unit = unit2pc /\ unit2pc \in Messages
      /\ p \in Block /\ n \in 1..Len(buffer) /\ buffer[n].point = p
      /\ IsBuffer(buffer) /\ Len(buffer) \in Nat
    BY RollbackPlace DEF NothingToUndo
<1>2. /\ step = "undo" /\ todo = <<>> /\ step' = "trim"
      /\ UNCHANGED <<kv, cursor, meta, redis, batch, buffer, mutable, unit2pc, unit>>
    BY Zenon DEF NothingToUndo, tikvVars, redisVars, memVars
<1>3. /\ Top' = Top /\ HeldPoint' = HeldPoint /\ Buffered'
      /\ RollingBack' <=> RollingBack
      /\ \A b : Place(b)' = Place(b)
      /\ \A i, q : Undone(i, q)' <=> Undone(i, q)
    BY <1>2, SamePlace, Zenon
<1>4. /\ \E v \in 1..n : cursor = buffer[v].point
      /\ Undone(1, p) /\ kv \in [Key -> Seq(Block)]
    BY <1>1, Zenon DEF StoreInv, Data
<1>5. PICK i \in 1..n : todo = SubSeq(buffer, i, n - 1) /\ (i = n => i = 1)
    BY <1>2, Zenon DEF StoreInv, Data
<1>6. n = 1
    <2> HIDE DEF n
    <2>1. buffer \in Seq(Records)
        BY <1>1, BufferShape, Zenon
    <2>2. i \in Nat /\ n \in Nat /\ i >= 1 /\ i <= n /\ n <= Len(buffer)
        BY <1>1, <1>5 DEF n
    <2>3. i < n => Len(SubSeq(buffer, i, n - 1)) = n - i
        BY <1>1, <2>1, <2>2
    <2>4. Len(todo) = 0
        BY <1>2
    <2>5. ~(i < n)
        BY <1>5, <2>2, <2>3, <2>4
    <2> QED
        BY <1>5, <2>2, <2>5
<1>7. cursor = p
    BY <1>1, <1>4, <1>6
<1>8. kv = Expected(p)
    <2>1. ASSUME NEW k \in Key PROVE kv[k] = Expected(p)[k]
        <3>1. Untouched(buffer, k, 1, n)
            BY <1>6 DEF Untouched
        <3> QED
            BY <1>4, <3>1, Zenon DEF Undone
    <2>2. Expected(p) \in [Key -> Seq(Block)]
        BY <1>1, ExpectedType, Zenon DEF Node
    <2> QED
        BY <1>4, <2>1, <2>2
<1>9. Persisted'
    BY <1>2, <1>3, Zenon DEF StoreInv, Persisted
<1>10. Running'
    BY <1>1, <1>2, <1>3, Zenon DEF StoreInv, Running
<1>11. Data'
    BY <1>1, <1>2, <1>3, <1>4, <1>7, <1>8, Zenon DEF Data
<1>12. EntriesRead'
    BY <1>2, Zenon DEF StoreInv, EntriesRead
<1> QED
    BY <1>1, <1>2, <1>3, <1>9, <1>10, <1>11, <1>12, Zenon DEF StoreInv

\* Trimming drops the metadata of the highest undone block, and with the last one
\* the buffer ends at the rollback's point.
LEMMA TrimStep ==
    ASSUME StoreInv, Trim
    PROVE  StoreInv' /\ mutable /\ UNCHANGED <<mutable, HeldPoint>>
<1> DEFINE p == unit2pc.block
           n == Place(p)
           above == ToTrim(Height[p])
           high == {b \in above : \A h \in Heights(above) : h <= Height[b]}
           c == Chain[Top]
<1>1. /\ RollingBack /\ mutable /\ unit = unit2pc /\ unit2pc \in Messages
      /\ p \in Block /\ n \in 1..Len(buffer) /\ buffer[n].point = p
      /\ IsBuffer(buffer) /\ Len(buffer) \in Nat
    <2>1. step = "trim"
        BY Zenon DEF Trim
    <2> QED
        BY <2>1, RollbackPlace, Zenon
<1>2. /\ step = "trim" /\ meta' = DropMeta(meta, high)
      /\ \/ high # above /\ UNCHANGED <<step, unit, unit2pc, buffer>>
         \/ /\ high = above /\ unit2pc' = NoUnit /\ step' = "idle" /\ unit' = NoUnit
            /\ buffer' = RollbackToPoint(buffer, p)
      /\ UNCHANGED <<kv, cursor, redis, batch, mutable>>
    BY <1>1, ZenonT(30) DEF Trim, redisVars
<1>3. /\ cursor = p /\ kv = Expected(p) /\ kv \in [Key -> Seq(Block)]
    BY <1>2, Zenon DEF StoreInv, Data
<1>4. PICK lo, hi \in Nat : /\ Covers(meta, Top, lo, hi)
                            /\ lo + Len(buffer) <= Height[Top] + 1
                            /\ hi # Height[Top] => Height[p] <= hi
    BY Zenon DEF StoreInv, Persisted
<1>5. /\ Top \in Block /\ Height[Top] \in Nat
      /\ Height[p] \in Nat /\ Height[p] <= Height[Top] /\ lo <= Height[p]
      /\ n = Height[Top] + 1 - Height[p]
    <2>1. Top \in Block /\ Height[Top] \in Nat /\ Height[p] \in Nat
        BY <1>1, StorePoints, ParentHeight, Zenon DEF Node
    <2>2. n = Height[Top] + 1 - Height[p]
        BY Zenon DEF Place
    <2> HIDE DEF n, p
    <2> QED
        BY <1>1, <1>4, <2>1, <2>2, SMTT(30)
<1>6. /\ lo \in 1..Height[Top] /\ hi \in 1..Height[Top] /\ lo <= hi
      /\ \A h \in lo..hi : Height[c[h]] = h /\ c[h] \in DOMAIN meta
      /\ \A b \in DOMAIN meta : Height[b] \in lo..hi
    <2>1. Covers(meta, Top, lo, hi) /\ Top \in Block
        BY <1>4, <1>5, SMTT(30)
    <2>2. lo \in 1..Height[Top] /\ hi \in 1..Height[Top] /\ lo <= hi
        BY <2>1, CoversBlocks, Zenon
    <2>3. ASSUME NEW h \in lo..hi
          PROVE  Height[Chain[Top][h]] = h /\ Chain[Top][h] \in DOMAIN meta
        <3> HIDE DEF p, n, above, high, c
        <3> QED
            BY <1>4, <1>5, <2>2, <2>1, <2>3, CoversBlocks, SMTT(30)
    <2>4. \A b \in DOMAIN meta : Height[b] \in lo..hi
        BY <2>1, CoversBlocks, SMTT(30)
    <2> QED
        BY <2>2, <2>3, <2>4, Zenon
<1>7. Height[p] <= hi
    BY <1>4, <1>5, Zenon
<1> DEFINE new == IF Height[p] < hi THEN hi - 1 ELSE hi
<1>8. new \in lo..hi /\ Height[p] <= new /\ new \in Nat
    <2> HIDE DEF p
    <2> QED
        BY <1>5, <1>6, <1>7
<1>9. ASSUME NEW h \in lo..hi
      PROVE  c[h] \in high <=> h \notin lo..new
    <2>1. c[h] \in above <=> h > Height[p]
        BY <1>6, Zenon DEF ToTrim
    <2>2. \A g \in Heights(above) : g <= hi /\ g \in Nat
        BY <1>6 DEF Heights, ToTrim
    <2>3. Height[p] < hi => hi \in Heights(above)
        <3>1. hi \in lo..hi
            BY <1>6
        <3> QED
            BY <1>6, <3>1, Zenon DEF Heights, ToTrim
    <2>4. h \in Nat /\ h >= lo /\ h <= hi /\ Height[c[h]] = h
        BY <1>6
    <2>5. c[h] \in high <=> c[h] \in above /\ \A g \in Heights(above) : g <= h
        BY <2>4, Zenon
    <2> HIDE DEF high, above, c, p
    <2>6. CASE h = hi
        BY <1>5, <1>7, <1>8, <2>1, <2>2, <2>4, <2>5, <2>6, SMTT(30)
    <2>7. CASE h < hi
        BY <1>5, <1>7, <1>8, <2>1, <2>3, <2>4, <2>5, <2>7, SMTT(30)
    <2> QED
        BY <2>4, <2>6, <2>7, SMTT(30)
<1>10. Covers(meta', Top, lo, new)
    <2>1. lo \in lo..hi /\ lo <= new
        BY <1>6, <1>8, SMTT(30)
    <2> HIDE DEF high, new
    <2> QED
        BY <1>2, <1>4, <1>5, <1>8, <1>9, <2>1, CoversDrop, Zenon
<1>11. EntriesRead'
    BY <1>2, Zenon DEF StoreInv, EntriesRead
<1>12. CASE high # above
    <2>1. UNCHANGED <<step, unit, unit2pc, buffer>>
        BY <1>2, <1>12, Zenon
    <2>2. /\ Top' = Top /\ HeldPoint' = HeldPoint /\ Buffered'
          /\ RollingBack' <=> RollingBack
          /\ \A b : Place(b)' = Place(b)
          /\ \A i, q : Undone(i, q)' <=> Undone(i, q)
        BY <1>2, <2>1, SamePlace, Zenon
    <2>3. Persisted'
        <3> HIDE DEF new
        <3> QED
            BY <1>1, <1>4, <1>8, <1>10, <2>1, <2>2, Zenon DEF Persisted
    <2>4. Running'
        BY <1>2, <2>1, <2>2, ZenonT(30) DEF StoreInv, Running
    <2>5. Data'
        BY <1>2, <2>1, <2>2, ZenonT(30) DEF StoreInv, Data
    <2> QED
        BY <1>1, <1>2, <1>11, <2>2, <2>3, <2>4, <2>5, Zenon DEF StoreInv
<1>13. CASE high = above
    <2>1. unit2pc' = NoUnit /\ step' = "idle" /\ buffer' = SubSeq(buffer, n, Len(buffer))
        <3>1. Nearest(buffer, p) = n
            BY <1>1, PlaceInBuffer
        <3> QED
            BY <1>2, <1>13, <3>1, Zenon DEF RollbackToPoint
    <2>2. IsBuffer(buffer') /\ Top' = p /\ Len(buffer') = Len(buffer) + 1 - n
        <3> HIDE DEF n, p
        <3> QED
            BY <1>1, <2>1, RollbackIsBuffer, Zenon DEF Top
    <2>3. new = Height[p]
        <3>1. SUFFICES ASSUME Height[p] + 1 < hi PROVE FALSE
            BY <1>5, <1>7, <1>6
        <3> DEFINE g == hi - 1
        <3>2. g \in lo..hi /\ hi \in lo..hi /\ g > Height[p]
            BY <1>5, <1>6, <3>1
        <3>3. c[g] \in above
            BY <1>6, <3>2, Zenon DEF ToTrim
        <3>4. c[g] \notin high
            <4>1. g \in lo..new
                BY <1>5, <1>6, <3>1, <3>2, SMTT(30)
            <4> HIDE DEF high, new, g
            <4> QED
                BY <1>9, <3>2, <4>1, Zenon
        <3> QED
            BY <1>13, <3>3, <3>4, Zenon
    <2>4. p = c[Height[p]]
        <3>1. buffer[n].point = c[Height[Top] + 1 - n]
            BY <1>1, BufferShape, Zenon DEF Top
        <3>2. Height[Top] + 1 - n = Height[p]
            BY <1>5
        <3> QED
            BY <1>1, <3>1, <3>2, Zenon
    <2>5. Covers(meta', p, lo, Height[p])
        <3> HIDE DEF new, p
        <3> QED
            BY <1>5, <1>10, <2>3, <2>4, CoversTop, Zenon
    <2>6. lo + Len(buffer') <= Height[p] + 1
        <3> DEFINE t == Height[Top]
                   g == Height[p]
                   k == Len(buffer)
                   m == Len(buffer')
        <3>1. n \in Nat /\ n = t + 1 - g /\ t \in Nat /\ g \in Nat
            BY <1>1, <1>5
        <3>2. lo + k <= t + 1 /\ k \in Nat /\ lo \in Nat
            BY <1>1, <1>4, Zenon
        <3>3. m = k + 1 - n /\ m \in Nat
            BY <2>2, BufferShape, Zenon
        <3> HIDE DEF n, t, g, k, m
        <3>4. lo + m <= g + 1
            BY <3>1, <3>2, <3>3
        <3> QED
            BY <3>4, Zenon DEF g, m
    <2>7. ~RollingBack'
        BY <2>1, Zenon DEF RollingBack, NoUnit
    <2>8. Persisted'
        BY <1>5, <2>2, <2>5, <2>6, Zenon DEF Persisted
    <2>9. Running'
        <3>1. batch = <<>> /\ mutable \in BOOLEAN
            BY SMTT(30) DEF StoreInv, Running
        <3> QED
            BY <1>2, <2>1, <2>7, <3>1, ZenonT(30) DEF Running, NoUnit
    <2>10. Data'
        BY <1>2, <1>3, <2>1, <2>2, <2>7, Zenon DEF Data
    <2>11. Buffered' /\ HeldPoint' = HeldPoint
        <3>1. unit2pc # NoUnit
            BY <1>1 DEF Messages, NoUnit
        <3> QED
            BY <2>1, <2>2, <3>1, Zenon DEF Buffered, HeldPoint
    <2> QED
        BY <1>1, <1>2, <1>11, <2>8, <2>9, <2>10, <2>11, ZenonT(30) DEF StoreInv
<1> QED
    BY <1>12, <1>13, Zenon

\* A failed call ends the running unit and leaves what it committed; bootstrap
\* adds an entry of the cursor, at the cursor.
LEMMA WorkerRestartStep ==
    ASSUME StoreInv, WorkerRestart
    PROVE  StoreInv' /\ mutable /\ UNCHANGED <<mutable, HeldPoint>>
<1>1. /\ step \notin {"idle", "panic"} /\ RepairRedis /\ step' = "idle"
      /\ step # "bulkDone" => unit2pc' = unit2pc
      /\ UNCHANGED <<kv, cursor, meta, batch, buffer, mutable>>
    BY Zenon DEF WorkerRestart, tikvVars
<1>2. unit2pc' = unit2pc /\ mutable
    BY <1>1, Zenon DEF StoreInv, Running
<1>3. /\ Top' = Top /\ HeldPoint' = HeldPoint /\ Buffered'
      /\ RollingBack' <=> RollingBack
      /\ \A b : Place(b)' = Place(b)
      /\ \A i, p : Undone(i, p)' <=> Undone(i, p)
    BY <1>1, <1>2, SamePlace, Zenon
<1>4. Persisted'
    BY <1>1, <1>2, <1>3, Zenon DEF StoreInv, Persisted
<1>5. Running'
    BY <1>1, <1>2, <1>3, Zenon DEF StoreInv, Running
<1>6. Data'
    BY <1>1, <1>2, <1>3, Zenon DEF StoreInv, Data
<1>7. EntriesRead'
    BY <1>1 DEF RepairRedis, Entry, StoreInv, EntriesRead
<1> QED
    BY <1>1, <1>2, <1>3, <1>4, <1>5, <1>6, <1>7, Zenon DEF StoreInv

\* A process that starts finds in TiKV what the one before it held, unless that
\* one was rolling back.
LEMMA ProcessRestartStep ==
    ASSUME StoreInv, ProcessRestart, ~RollingBack
    PROVE  StoreInv' /\ ~mutable' /\ HeldPoint' = Top /\ Top' = Top
<1>1. /\ batch' = <<>> /\ buffer' = LoadedBuffer /\ mutable' = FALSE /\ unit2pc' = NoUnit
      /\ step' = "idle" /\ RepairRedis /\ UNCHANGED <<kv, cursor, meta>>
    BY Zenon DEF ProcessRestart, tikvVars
<1>2. cursor = Top /\ kv = Expected(Top) /\ kv \in [Key -> Seq(Block)] /\ Top \in Block
    BY StorePoints, Zenon DEF StoreInv, Data
<1>3. PICK lo \in Nat : Covers(meta, Top, lo, Height[Top])
    BY SMTT(30) DEF StoreInv, Persisted
<1>4. /\ IsBuffer(buffer') /\ Top' = Top /\ lo + Len(buffer') <= Height[Top] + 1
    BY <1>1, <1>2, <1>3, LoadedIsBuffer, Zenon DEF Top
<1>5. ~RollingBack' /\ HeldPoint' = Top
    BY <1>1, <1>4, SMTT(30) DEF RollingBack, NoUnit, HeldPoint
<1>6. Persisted'
    <2>1. Height[Top] \in Nat
        BY <1>2, ParentHeight
    <2> QED
        BY <1>1, <1>3, <1>4, <2>1, Zenon DEF Persisted
<1>7. Running'
    BY <1>1, <1>5, Zenon DEF Running, NoUnit
<1>8. Data'
    BY <1>1, <1>2, <1>4, <1>5, Zenon DEF Data
<1>9. EntriesRead'
    BY <1>1 DEF RepairRedis, Entry, StoreInv, EntriesRead
<1> QED
    BY <1>1, <1>4, <1>5, <1>6, <1>7, <1>8, <1>9, Zenon DEF StoreInv, Buffered

\* Every step of a unit.  Steps of the bulk mode never come up.
LEMMA StoreStepInv ==
    ASSUME StoreInv, Reschedule \/ StoreStep
    PROVE  StoreInv' /\ mutable /\ UNCHANGED <<mutable, HeldPoint>>
<1>1. ~(BulkCommit \/ CommitSets \/ CommitOthers \/ BulkFinish)
    BY Zenon DEF StoreInv, Running, BulkCommit, CommitSets, CommitOthers, BulkFinish
<1> QED
    BY <1>1, RescheduleStep, CommitBlockStep, PublishStep, GcStep, UndoBlockStep,
       NothingToUndoStep, TrimStep, Zenon DEF StoreStep
=============================================================================
