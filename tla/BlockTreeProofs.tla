--------------------------- MODULE BlockTreeProofs ---------------------------
(***************************************************************************)
(* TLAPS proofs about the block tree, for every tree: a recursion over the  *)
(* tree, such as that of Chain, defines a function, and the chain of a      *)
(* block is the one path from a child of the genesis block to it.  They are *)
(* inductions over heights, written as arguments about a least              *)
(* counterexample.                                                          *)
(***************************************************************************)
EXTENDS BlockTree, WellFoundedInduction, TLAPS

\* Every non-empty set of natural numbers has a least element.
LEMMA LeastNumber ==
    ASSUME NEW T \in SUBSET Nat, T # {}
    PROVE  \E m \in T : \A k \in T : m <= k
<1> DEFINE R == {p \in Nat \X Nat : p[1] < p[2]}
<1>1. IsWellFoundedOn(R, Nat)
    BY NatLessThanWellFounded DEF OpToRel
<1>2. PICK m \in T : \A k \in T : <<k, m>> \notin R
    BY <1>1, WFMin, Zenon
<1>3. ASSUME NEW k \in T PROVE m <= k
    <2>1. k \in Nat /\ m \in Nat
        OBVIOUS
    <2>2. <<k, m>> \in R <=> k < m
        BY <2>1
    <2> QED
        BY <1>2, <2>1, <2>2
<1> QED
    BY <1>3

\* Heights start at 1 above the genesis block.
LEMMA ParentHeight ==
    ASSUME NEW b \in Block
    PROVE  /\ b \in Node /\ b # Genesis /\ Parent[b] \in Node
           /\ Height[b] \in Nat /\ Height[Parent[b]] \in Nat
           /\ Height[b] = Height[Parent[b]] + 1
    BY TreeAssumption DEF Node

\* Induction on the height: a property of the genesis block that every block
\* inherits from its parent is a property of all blocks.
LEMMA TreeInduction ==
    ASSUME NEW Good, Genesis \in Good,
           \A b \in Block : Parent[b] \in Good => b \in Good
    PROVE  \A b \in Node : b \in Good
<1> SUFFICES ASSUME NEW x \in Node, x \notin Good PROVE FALSE
    BY Zenon
<1> DEFINE T == {Height[b] : b \in Node \ Good}
<1>1. T \in SUBSET Nat /\ T # {}
    BY TreeAssumption
<1>2. PICK m \in T : \A k \in T : m <= k
    BY <1>1, LeastNumber, Zenon
<1>3. PICK b \in Node \ Good : Height[b] = m
    BY <1>2
<1>4. b \in Block
    BY <1>3 DEF Node
<1>5. Parent[b] \in Node \ Good /\ Height[Parent[b]] < m /\ m \in Nat
    BY <1>3, <1>4, ParentHeight
<1>6. Height[Parent[b]] \in T
    BY <1>5
<1>7. Height[Parent[b]] \in Nat
    BY <1>4, ParentHeight
<1> HIDE DEF T
<1> QED
    BY <1>2, <1>5, <1>6, <1>7

\* The same on the natural numbers.
LEMMA NatSetInduction ==
    ASSUME NEW Good, 0 \in Good, \A n \in Nat : n \in Good => n + 1 \in Good
    PROVE  \A n \in Nat : n \in Good
<1> SUFFICES ASSUME NEW x \in Nat, x \notin Good PROVE FALSE
    OBVIOUS
<1>1. PICK m \in Nat \ Good : \A k \in Nat \ Good : m <= k
    <2>1. Nat \ Good \in SUBSET Nat /\ Nat \ Good # {}
        OBVIOUS
    <2> QED
        BY <2>1, LeastNumber, Zenon
<1>2. m # 0 /\ m - 1 \in Nat /\ (m - 1) + 1 = m
    OBVIOUS
<1>3. m - 1 \notin Good
    BY <1>2
<1> QED
    BY <1>1, <1>2, <1>3
-----------------------------------------------------------------------------
\* Recursion on the height: a value for the genesis block and a rule that makes
\* the value of a block from its parent's give one for every block.
Rules(V) == [Block -> [V -> V]]

Solutions(V, v, F) ==
    {f \in [Node -> V] : f[Genesis] = v /\ \A b \in Block : f[b] = F[b][f[Parent[b]]]}

\* Such a function exists: one up to each height, and the next extends it.
LEMMA TreeRecursion ==
    ASSUME NEW V, NEW v \in V, NEW F \in Rules(V)
    PROVE  Solutions(V, v, F) # {}
<1> USE DEF Rules
<1> DEFINE Rec(g, b) == IF b = Genesis THEN v ELSE F[b][g[Parent[b]]]
           Up(n)     == {b \in Node : Height[b] <= n}
           Sol(g, n) == g \in [Up(n) -> V] /\ \A b \in Up(n) : g[b] = Rec(g, b)
           Solved    == {n \in Nat : \E g : Sol(g, n)}
<1>1. \A n \in Nat : n \in Solved
    <2>1. 0 \in Solved
        <3> DEFINE g == [b \in Up(0) |-> v]
        <3>1. \A b \in Up(0) : b = Genesis
            <4> SUFFICES ASSUME NEW b \in Block, Height[b] <= 0 PROVE FALSE
                BY Zenon DEF Node
            <4> QED
                BY ParentHeight
        <3>2. Sol(g, 0)
            BY <3>1
        <3> HIDE DEF g, Sol
        <3> QED
            BY <3>2
    <2>2. ASSUME NEW n \in Nat, n \in Solved PROVE n + 1 \in Solved
        <3>1. PICK g : Sol(g, n)
            BY <2>2, Zenon
        <3> DEFINE h == [b \in Up(n + 1) |-> Rec(g, b)]
        <3>2. ASSUME NEW b \in Up(n + 1), b # Genesis
              PROVE  /\ b \in Block /\ Parent[b] \in Up(n) /\ Parent[b] \in Up(n + 1)
                     /\ g[Parent[b]] \in V
            <4>1. b \in Block
                BY <3>2 DEF Node
            <4>2. Parent[b] \in Up(n) /\ Parent[b] \in Up(n + 1)
                BY <4>1, ParentHeight
            <4> QED
                BY <3>1, <4>1, <4>2
        <3>3. h \in [Up(n + 1) -> V]
            BY <3>2
        <3>4. ASSUME NEW b \in Up(n), b \in Up(n + 1) PROVE h[b] = g[b]
            BY <3>1, <3>4, Zenon
        <3>5. ASSUME NEW b \in Up(n + 1) PROVE h[b] = Rec(h, b)
            <4>1. CASE b = Genesis
                BY <4>1, Zenon
            <4>2. CASE b # Genesis
                <5>1. h[Parent[b]] = g[Parent[b]]
                    <6> HIDE DEF h, Up
                    <6> QED
                        BY <3>2, <3>4, <4>2
                <5> QED
                    BY <4>2, <5>1, Zenon
            <4> QED
                BY <4>1, <4>2, Zenon
        <3> HIDE DEF h
        <3>6. Sol(h, n + 1)
            BY <3>3, <3>5
        <3> HIDE DEF Sol
        <3> QED
            BY <3>6
    <2> HIDE DEF Solved
    <2> QED
        BY <2>1, <2>2, NatSetInduction
<1>2. ASSUME NEW n \in Nat, NEW m \in Nat, NEW g, NEW h, Sol(g, n), Sol(h, m)
      PROVE  \A b \in Up(n) \cap Up(m) : g[b] = h[b]
    <2> DEFINE Good == {b \in Node : b \in Up(n) \cap Up(m) => g[b] = h[b]}
    <2>1. Genesis \in Good
        BY <1>2, Zenon DEF Node
    <2>2. ASSUME NEW b \in Block, Parent[b] \in Good PROVE b \in Good
        <3> SUFFICES ASSUME b \in Up(n) \cap Up(m) PROVE g[b] = h[b]
            BY ParentHeight
        <3>1. b # Genesis /\ Parent[b] \in Up(n) \cap Up(m)
            BY ParentHeight
        <3>2. g[b] = F[b][g[Parent[b]]] /\ h[b] = F[b][h[Parent[b]]]
            BY <1>2, <3>1
        <3> QED
            BY <2>2, <3>1, <3>2
    <2>3. \A b \in Node : b \in Good
        <3> HIDE DEF Good
        <3> QED
            BY <2>1, <2>2, TreeInduction, Zenon
    <2> QED
        BY <2>3
<1> DEFINE Part(n) == CHOOSE g : Sol(g, n)
           G       == [b \in Node |-> Part(Height[b])[b]]
<1>3. \A n \in Nat : Sol(Part(n), n)
    <2> HIDE DEF Sol
    <2> QED
        BY <1>1
<1>4. ASSUME NEW b \in Node PROVE G[b] = Rec(G, b) /\ G[b] \in V
    <2>1. Height[b] \in Nat /\ b \in Up(Height[b])
        BY TreeAssumption
    <2>2. /\ Part(Height[b])[b] = Rec(Part(Height[b]), b)
          /\ Part(Height[b])[b] \in V
        <3> HIDE DEF Part
        <3> QED
            BY <1>3, <2>1, Zenon
    <2>3. CASE b = Genesis
        BY <2>2, <2>3
    <2>4. CASE b # Genesis
        <3>1. b \in Block
            BY <2>4 DEF Node
        <3> DEFINE p == Parent[b]
        <3>2. /\ p \in Node /\ Height[p] \in Nat
              /\ p \in Up(Height[b]) \cap Up(Height[p])
            BY <3>1, ParentHeight
        <3>3. Part(Height[b])[p] = Part(Height[p])[p]
            <4> HIDE DEF Part, Up, Sol, p
            <4> QED
                BY <1>2, <1>3, <2>1, <3>2
        <3>4. G[p] = Part(Height[p])[p] /\ G[b] = Part(Height[b])[b]
            BY <3>2, Zenon
        <3> HIDE DEF G, Part
        <3> QED
            BY <2>2, <2>4, <3>3, <3>4
    <2> QED
        BY <2>3, <2>4, Zenon
<1>5. G \in [Node -> V]
    <2>1. DOMAIN G = Node /\ G = [b \in Node |-> G[b]]
        OBVIOUS
    <2> HIDE DEF G, Rec
    <2> QED
        BY <1>4, <2>1
<1>6. /\ G[Genesis] = v
      /\ \A b \in Block : G[b] = F[b][G[Parent[b]]]
    <2>1. Genesis \in Node /\ \A b \in Block : b \in Node /\ b # Genesis
        BY TreeAssumption, Zenon DEF Node
    <2> HIDE DEF G
    <2> QED
        BY <1>4, <2>1
<1> HIDE DEF G
<1> QED
    BY <1>5, <1>6 DEF Solutions

\* The recursive definition of Chain has a solution, so Chain satisfies it.
LEMMA ChainDef ==
    Chain = [b \in Node |-> IF b = Genesis THEN <<>> ELSE Append(Chain[Parent[b]], b)]
<1> DEFINE V == Seq(Block)
           F == [b \in Block |-> [s \in V |-> Append(s, b)]]
<1>1. <<>> \in V /\ F \in Rules(V)
    BY DEF Rules
<1>2. PICK f : f \in Solutions(V, <<>>, F)
    <2> HIDE DEF V, F
    <2> QED
        BY <1>1, TreeRecursion
<1>3. \A b \in Block : f[b] = Append(f[Parent[b]], b)
    BY <1>2, ParentHeight, Zenon DEF Solutions
<1>4. f = [b \in Node |-> IF b = Genesis THEN <<>> ELSE Append(f[Parent[b]], b)]
    BY <1>2, <1>3, Zenon DEF Solutions, Node
<1> QED
    BY <1>4, Zenon DEF Chain

\* The chain of the genesis block is empty, and a block's is its parent's and itself.
LEMMA ChainStep ==
    /\ Chain[Genesis] = <<>>
    /\ \A b \in Block : Chain[b] = Append(Chain[Parent[b]], b)
<1>1. Genesis \in Node /\ \A b \in Block : b \in Node /\ b # Genesis
    BY TreeAssumption DEF Node
<1>2. \A b \in Node : Chain[b] = IF b = Genesis THEN <<>> ELSE Append(Chain[Parent[b]], b)
    BY ChainDef, Zenon
<1> QED
    BY <1>1, <1>2, Zenon

\* The chain of a block leads from a child of the genesis block to it, one height
\* after the other, each block the parent of the next.
Path(s, b) ==
    /\ s \in Seq(Block)
    /\ Len(s) = Height[b]
    /\ b # Genesis => s[Height[b]] = b
    /\ \A i \in 1..Len(s) : /\ Height[s[i]] = i
                            /\ Parent[s[i]] = IF i = 1 THEN Genesis ELSE s[i - 1]

\* Chain, as the compressor's table and the follower's pages use it, is that path.
LEMMA ChainIsPath == \A b \in Node : Path(Chain[b], b)
<1> DEFINE Good == {b \in Node : Path(Chain[b], b)}
<1>1. Genesis \in Good
    <2>1. Chain[Genesis] = <<>> /\ Height[Genesis] = 0 /\ Genesis \in Node
        BY ChainStep, TreeAssumption DEF Node
    <2>2. Path(<<>>, Genesis)
        BY <2>1 DEF Path
    <2> QED
        BY <2>1, <2>2
<1>2. ASSUME NEW b \in Block, Parent[b] \in Good PROVE b \in Good
    <2> DEFINE p == Parent[b]
               s == Chain[p]
    <2>1. Chain[b] = Append(s, b)
        BY ChainStep
    <2>2. /\ p \in Node /\ b \in Node /\ b # Genesis
          /\ Height[p] \in Nat /\ Height[b] = Height[p] + 1
        BY ParentHeight
    <2>3. s \in Seq(Block) /\ Len(s) = Height[p]
        BY <1>2 DEF Path
    <2>4. /\ Append(s, b) \in Seq(Block) /\ Len(Append(s, b)) = Height[b]
          /\ Append(s, b)[Height[b]] = b
          /\ \A i \in 1..Height[p] : Append(s, b)[i] = s[i]
        BY <2>2, <2>3
    <2>5. ASSUME NEW i \in 1..Height[b]
          PROVE  /\ Height[Append(s, b)[i]] = i
                 /\ Parent[Append(s, b)[i]] = IF i = 1 THEN Genesis ELSE Append(s, b)[i - 1]
        <3>1. CASE i = Height[b]
            <4>1. CASE p = Genesis
                <5>1. i = 1
                    BY <2>2, <3>1, <4>1, TreeAssumption
                <5> QED
                    BY <2>4, <3>1, <4>1, <5>1, Zenon
            <4>2. CASE p # Genesis
                <5>1. p \in Block
                    BY <2>2, <4>2 DEF Node
                <5>2. Height[p] # 0
                    BY <5>1, ParentHeight
                <5>3. s[Height[p]] = p
                    BY <1>2, <4>2 DEF Path
                <5>4. i - 1 = Height[p] /\ i # 1 /\ Height[p] \in 1..Height[p]
                    BY <2>2, <3>1, <5>2
                <5>5. Append(s, b)[i - 1] = p
                    BY <2>4, <5>3, <5>4, Zenon
                <5> QED
                    BY <2>4, <3>1, <5>4, <5>5
            <4> QED
                BY <4>1, <4>2, Zenon
        <3>2. CASE i # Height[b]
            <4>1. i \in 1..Height[p] /\ (i # 1 => i - 1 \in 1..Height[p])
                BY <2>2, <3>2
            <4>2. /\ Height[s[i]] = i
                  /\ Parent[s[i]] = IF i = 1 THEN Genesis ELSE s[i - 1]
                BY <1>2, <2>3, <4>1, Zenon DEF Path
            <4> QED
                BY <2>4, <4>1, <4>2, Zenon
        <3> QED
            BY <3>1, <3>2, Zenon
    <2>6. Path(Append(s, b), b)
        BY <2>4, <2>5, Zenon DEF Path
    <2> QED
        BY <2>1, <2>2, <2>6, Zenon
<1>3. \A b \in Node : b \in Good
    <2> HIDE DEF Good
    <2> QED
        BY <1>1, <1>2, TreeInduction, Zenon
<1> QED
    BY <1>3

\* The blocks of a chain: one at every height, each above the one before.
LEMMA OnPath ==
    ASSUME NEW t \in Node, NEW h \in 1..Height[t]
    PROVE  /\ Chain[t][h] \in Block /\ Height[Chain[t][h]] = h
           /\ h # 1 => Parent[Chain[t][h]] = Chain[t][h - 1]
<1>1. Path(Chain[t], t) /\ Height[t] \in Nat
    BY ChainIsPath, TreeAssumption
<1>2. Chain[t] \in Seq(Block) /\ h \in 1..Len(Chain[t])
    BY <1>1 DEF Path
<1>3. Chain[t][h] \in Block
    BY <1>2
<1> QED
    BY <1>1, <1>2, <1>3 DEF Path

\* The chain of a block is its parent's and itself.
LEMMA ChainChild ==
    ASSUME NEW b \in Block
    PROVE  /\ Chain[b][Height[b]] = b
           /\ \A h \in 1..Height[Parent[b]] : Chain[b][h] = Chain[Parent[b]][h]
<1> DEFINE s == Chain[Parent[b]]
<1>1. Chain[b] = Append(s, b)
    BY ChainStep
<1>2. s \in Seq(Block) /\ Len(s) = Height[Parent[b]] /\ Height[b] = Height[Parent[b]] + 1
    BY ChainIsPath, ParentHeight DEF Path
<1> HIDE DEF s
<1> QED
    BY <1>1, <1>2 DEF s

\* The chain of a block of a chain is the part of that chain up to it.
LEMMA ChainPrefix ==
    \A t \in Node : \A h \in 1..Height[t] : \A j \in 1..h :
        Chain[Chain[t][h]][j] = Chain[t][j]
<1> DEFINE Prefix(t) == \A h \in 1..Height[t] : \A j \in 1..h :
                            Chain[Chain[t][h]][j] = Chain[t][j]
           Good == {t \in Node : Prefix(t)}
<1>1. Genesis \in Good
    BY TreeAssumption DEF Node
<1>2. ASSUME NEW t \in Block, Parent[t] \in Good PROVE t \in Good
    <2> DEFINE p == Parent[t]
    <2>1. /\ t \in Node /\ p \in Node /\ Height[p] \in Nat /\ Height[t] = Height[p] + 1
          /\ Chain[t][Height[t]] = t
          /\ \A h \in 1..Height[p] : Chain[t][h] = Chain[p][h]
        BY ParentHeight, ChainChild
    <2>2. ASSUME NEW h \in 1..Height[t], NEW j \in 1..h
          PROVE  Chain[Chain[t][h]][j] = Chain[t][j]
        <3>1. CASE h = Height[t]
            BY <2>1, <3>1
        <3>2. CASE h # Height[t]
            <4>1. h \in 1..Height[p] /\ j \in 1..Height[p]
                BY <2>1, <3>2
            <4>2. Chain[Chain[p][h]][j] = Chain[p][j]
                BY <1>2, <4>1
            <4> QED
                BY <2>1, <4>1, <4>2
        <3> QED
            BY <3>1, <3>2, Zenon
    <2> QED
        BY <2>1, <2>2
<1>3. \A t \in Node : t \in Good
    <2> HIDE DEF Good
    <2> QED
        BY <1>1, <1>2, TreeInduction, Zenon
<1> QED
    BY <1>3
=============================================================================
