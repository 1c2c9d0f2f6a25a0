--------------------------- MODULE InstancesProofs ---------------------------
(***************************************************************************)
(* Lemmas about Instances and Daw, for any number of instances, tables and  *)
(* scan sizes: the order of a scan, the keys of a keyspace, and what the    *)
(* steps of the instances and of daw keep.                                  *)
(***************************************************************************)
EXTENDS Daw, FiniteSetTheorems, TLAPS

Flags == [force : BOOLEAN, destroy : BOOLEAN, tsOnly : BOOLEAN]

Runs == [pc : {"destroy", "scan", "info", "done"}, of : Instance, opt : Flags,
         from : Nat, size : Nat \ {0}]

\* The keys of a keyspace are bounded, so a scan has a last key.
Keyspaces ==
    /\ at \in [Instance -> Block]
    /\ kv \in [Instance -> SUBSET (0..(8 * Span))]
    /\ running \in [Instance -> BOOLEAN]

\* What a forced run has removed at each of its stages; the instance it works on
\* does not run, so nothing is written behind it.
Wiped ==
    /\ daw = DawIdle \/ daw \in Runs
    /\ daw \in Runs =>
         /\ ~running[daw.of]
         /\ daw.opt.force =>
              /\ <<daw.of, "timestamps">> \notin records
              /\ daw.pc = "scan" => \A k \in kv[daw.of] : daw.from <= k
              /\ daw.pc = "info" => kv[daw.of] = {}
              /\ daw.pc = "done" /\ ~daw.opt.tsOnly
                   => kv[daw.of] = {} /\ <<daw.of, "info">> \notin records

\* Instances register for the groups they serve.
Scored ==
    /\ score \in [Group -> [Instance -> Nat]]
    /\ \A g \in Group, i \in Instance : score[g][i] > 0 => g \in Serves[i]

\* A keyspace with a cursor has all rows of the cursor's block.
Whole(k, b) == \A i \in Instance : CursorKey \in k[i] => k[i] = Content[i][b[i]]
-----------------------------------------------------------------------------
(* Sets of numbers in the order of a scan.                                  *)

\* A sequence in the order of a scan, without repetition.
Ordered(o, s) ==
    /\ s \in Seq(Nat)
    /\ \A i, j \in 1..Len(s) : i < j => Precedes(o, s[i], s[j])

\* S has all that T has before what S has of it.
Leading(o, S, T) == S \in SUBSET T /\ \A x \in S, y \in T : Precedes(o, y, x) => y \in S

Consecutive(o, s, t) ==
    /\ Ordered(o, s) /\ Ordered(o, t)
    /\ \A x \in Range(s), y \in Range(t) : Precedes(o, x, y)

Rank(o, S, x) == Cardinality({j \in S : Precedes(o, j, x)})

\* The order of a scan is total and strict.
LEMMA ScanOrder ==
    ASSUME NEW o, NEW x \in Nat, NEW y \in Nat, NEW z \in Nat
    PROVE  /\ ~Precedes(o, x, x)
           /\ Precedes(o, x, y) /\ Precedes(o, y, z) => Precedes(o, x, z)
           /\ x # y => Precedes(o, x, y) \/ Precedes(o, y, x)
           /\ ~(Precedes(o, x, y) /\ Precedes(o, y, x))
BY DEF Precedes

\* Counting what comes before an entry is a numbering of a finite set.
LEMMA Ranks ==
    ASSUME NEW o, NEW S \in SUBSET Nat, IsFiniteSet(S)
    PROVE  /\ Cardinality(S) \in Nat
           /\ \A x \in S : Rank(o, S, x) \in 0..(Cardinality(S) - 1)
           /\ \A x, y \in S : Precedes(o, x, y) => Rank(o, S, x) < Rank(o, S, y)
           /\ \A x, y \in S : Rank(o, S, x) = Rank(o, S, y) => x = y
           /\ \A n \in 0..(Cardinality(S) - 1) : \E x \in S : Rank(o, S, x) = n
<1> DEFINE under(x) == {j \in S : Precedes(o, j, x)}
           c == Cardinality(S)
<1>1. \A x : Rank(o, S, x) = Cardinality(under(x)) /\ under(x) \in SUBSET S
    BY DEF Rank
<1>2. \A x \in S : x \notin under(x)
    BY ScanOrder
<1>3. \A x, y \in S : Precedes(o, x, y) => under(x) \in SUBSET under(y) /\ x \in under(y)
    <2> SUFFICES ASSUME NEW x \in S, NEW y \in S, Precedes(o, x, y), NEW j \in under(x)
                 PROVE  j \in under(y)
        BY Zenon
    <2>1. j \in Nat /\ x \in Nat /\ y \in Nat /\ Precedes(o, j, x)
        OBVIOUS
    <2>2. Precedes(o, j, y)
        BY <2>1, ScanOrder, Zenon
    <2> QED
        BY <2>2
<1> HIDE DEF under
<1>4. c \in Nat /\ \A x : IsFiniteSet(under(x)) /\ Cardinality(under(x)) \in Nat
    BY <1>1, FS_Subset, FS_CardinalityType
<1>5. \A x \in S : Cardinality(under(x)) < c
    <2> SUFFICES ASSUME NEW x \in S PROVE Cardinality(under(x)) < c
        OBVIOUS
    <2>1. Cardinality(under(x)) <= c /\ (c = Cardinality(under(x)) => S = under(x))
        BY <1>1, FS_Subset
    <2> QED
        BY <1>2, <1>4, <2>1
<1>6. \A x, y \in S : Precedes(o, x, y) => Cardinality(under(x)) < Cardinality(under(y))
    <2> SUFFICES ASSUME NEW x \in S, NEW y \in S, Precedes(o, x, y)
                 PROVE  Cardinality(under(x)) < Cardinality(under(y))
        OBVIOUS
    <2>1. /\ Cardinality(under(x)) <= Cardinality(under(y))
          /\ Cardinality(under(y)) = Cardinality(under(x)) => under(y) = under(x)
        BY <1>3, <1>4, FS_Subset
    <2> QED
        BY <1>2, <1>3, <1>4, <2>1
<1>7. \A x, y \in S : Cardinality(under(x)) = Cardinality(under(y)) => x = y
    <2> SUFFICES ASSUME NEW x \in S, NEW y \in S, Cardinality(under(x)) = Cardinality(under(y)),
                        x # y
                 PROVE  FALSE
        OBVIOUS
    <2>1. x \in Nat /\ y \in Nat
        OBVIOUS
    <2>2. Precedes(o, x, y) \/ Precedes(o, y, x)
        BY <2>1, ScanOrder, Zenon
    <2> QED
        BY <1>4, <1>6, <2>2
<1>8. \A n \in 0..(c - 1) : \E x \in S : Cardinality(under(x)) = n
    <2> DEFINE f == [x \in S |-> Cardinality(under(x))]
    <2>1. f \in Injection(S, 0..(c - 1))
        BY <1>4, <1>5, <1>7 DEF Injection, IsInjective
    <2>2. IsFiniteSet(0..(c - 1)) /\ Cardinality(0..(c - 1)) = c
        <3>1. 0 \in Int /\ c - 1 \in Int
            BY <1>4
        <3>2. /\ IsFiniteSet(0..(c - 1))
              /\ Cardinality(0..(c - 1)) = IF 0 > c - 1 THEN 0 ELSE c - 1 - 0 + 1
            BY <3>1, FS_Interval
        <3> QED
            BY <1>4, <3>2
    <2> HIDE DEF f
    <2>3. f \in Surjection(S, 0..(c - 1))
        BY <2>1, <2>2, FS_Injection
    <2> QED
        BY <2>3, Zenon DEF Surjection, f
<1> HIDE DEF c
<1>9. \A x \in S : Cardinality(under(x)) \in 0..(c - 1)
    BY <1>4, <1>5
<1> QED
    BY <1>1, <1>4, <1>6, <1>7, <1>8, <1>9 DEF c

\* What Sorted gives is in order and has the entries of the set.
LEMMA SortedLists ==
    ASSUME NEW o, NEW S \in SUBSET Nat, IsFiniteSet(S)
    PROVE  /\ Ordered(o, Sorted(o, S)) /\ Range(Sorted(o, S)) = S
           /\ Len(Sorted(o, S)) = Cardinality(S)
           /\ \A n \in 1..Cardinality(S) : Rank(o, S, Sorted(o, S)[n]) = n - 1
<1> DEFINE c == Cardinality(S)
           s == Sorted(o, S)
           R(x) == Rank(o, S, x)
<1>1. /\ c \in Nat
      /\ \A x \in S : R(x) \in 0..(c - 1)
      /\ \A x, y \in S : Precedes(o, x, y) => R(x) < R(y)
      /\ \A x, y \in S : R(x) = R(y) => x = y
      /\ \A n \in 0..(c - 1) : \E x \in S : R(x) = n
    BY Ranks
<1>2. s = [n \in 1..c |-> CHOOSE k \in S : R(k) = n - 1]
    BY DEF Sorted, Rank
<1>3. \A x \in S : x \in Nat
    OBVIOUS
<1> HIDE DEF c, s, R
<1>4. \A n \in 1..c : s[n] \in S /\ R(s[n]) = n - 1
    <2> SUFFICES ASSUME NEW n \in 1..c PROVE s[n] \in S /\ R(s[n]) = n - 1
        OBVIOUS
    <2>1. n - 1 \in 0..(c - 1)
        BY <1>1
    <2>2. \E x \in S : R(x) = n - 1
        BY <1>1, <2>1
    <2>3. s[n] = CHOOSE k \in S : R(k) = n - 1
        BY <1>2
    <2> QED
        BY <2>2, <2>3
<1>5. s \in Seq(Nat) /\ Len(s) = c /\ DOMAIN s = 1..c
    <2>1. s \in [1..c -> Nat]
        BY <1>2, <1>3, <1>4, Zenon
    <2> QED
        BY <1>1, <2>1
<1>6. \A i, j \in 1..c : i < j => Precedes(o, s[i], s[j])
    <2> SUFFICES ASSUME NEW i \in 1..c, NEW j \in 1..c, i < j PROVE Precedes(o, s[i], s[j])
        OBVIOUS
    <2>1. s[i] \in S /\ s[j] \in S /\ R(s[i]) = i - 1 /\ R(s[j]) = j - 1
        BY <1>4
    <2>2. s[i] # s[j] /\ ~(R(s[j]) < R(s[i]))
        BY <1>1, <2>1
    <2>3. Precedes(o, s[i], s[j]) \/ Precedes(o, s[j], s[i])
        BY <1>3, <2>1, <2>2, ScanOrder, Zenon
    <2> QED
        BY <1>1, <2>1, <2>2, <2>3, Zenon
<1>7. \A x \in S : \E i \in 1..c : s[i] = x
    <2> SUFFICES ASSUME NEW x \in S PROVE \E i \in 1..c : s[i] = x
        OBVIOUS
    <2>1. R(x) + 1 \in 1..c /\ R(x) = (R(x) + 1) - 1
        BY <1>1
    <2>2. s[R(x) + 1] \in S /\ R(s[R(x) + 1]) = R(x)
        BY <1>4, <2>1
    <2> QED
        BY <1>1, <2>1, <2>2, Zenon
<1>8. Range(s) = S
    BY <1>4, <1>5, <1>7, Zenon DEF Range
<1> QED
    BY <1>4, <1>5, <1>6, <1>8 DEF Ordered, c, s, R

\* The entry at place i of an ordered sequence has i - 1 entries before it.
LEMMA RankInOrder ==
    ASSUME NEW o, NEW s, Ordered(o, s), NEW i \in 1..Len(s)
    PROVE  Rank(o, Range(s), s[i]) = i - 1
<1> DEFINE U == {j \in Range(s) : Precedes(o, j, s[i])}
           f == [k \in 1..(i - 1) |-> s[k]]
<1>1. s \in Seq(Nat) /\ Len(s) \in Nat /\ DOMAIN s = 1..Len(s) /\ i \in Nat
    BY DEF Ordered
<1>2. \A k \in 1..Len(s) : s[k] \in Nat
    BY <1>1
<1>3. \A j, k \in 1..Len(s) : j < k => Precedes(o, s[j], s[k])
    BY DEF Ordered
<1>4. Range(s) = {s[k] : k \in 1..Len(s)}
    BY <1>1 DEF Range
<1>5. \A k \in 1..(i - 1) : k \in 1..Len(s) /\ k < i
    BY <1>1
<1>6. \A k \in 1..Len(s) : Precedes(o, s[k], s[i]) => k \in 1..(i - 1)
    <2> SUFFICES ASSUME NEW k \in 1..Len(s), Precedes(o, s[k], s[i]), ~(k < i) PROVE FALSE
        BY <1>1
    <2>1. k = i \/ i < k
        BY <1>1
    <2>2. s[k] \in Nat /\ s[i] \in Nat
        BY <1>2
    <2> QED
        BY <1>3, <2>1, <2>2, ScanOrder, Zenon
<1>7. f \in Surjection(1..(i - 1), U)
    <2>1. \A k \in 1..(i - 1) : f[k] \in U
        BY <1>3, <1>4, <1>5
    <2>2. \A x \in U : \E k \in 1..(i - 1) : f[k] = x
        BY <1>4, <1>6
    <2> QED
        BY <2>1, <2>2 DEF Surjection
<1>8. f \in Injection(1..(i - 1), U)
    <2> SUFFICES ASSUME NEW j \in 1..(i - 1), NEW k \in 1..(i - 1), f[j] = f[k], j # k
                 PROVE  FALSE
        BY <1>7, Zenon DEF Surjection, Injection, IsInjective
    <2>1. s[j] = s[k] /\ j \in 1..Len(s) /\ k \in 1..Len(s) /\ (j < k \/ k < j)
        BY <1>1, <1>5
    <2>2. Precedes(o, s[j], s[k]) \/ Precedes(o, s[k], s[j])
        BY <1>3, <2>1
    <2> QED
        BY <1>2, <2>1, <2>2, ScanOrder
<1>9. ExistsBijection(1..(i - 1), U)
    BY <1>7, <1>8 DEF ExistsBijection, Bijection
<1>10. i - 1 \in Nat
    BY <1>1
<1> HIDE DEF U
<1>11. Cardinality(U) = i - 1
    BY <1>9, <1>10, FS_CountingElements
<1> QED
    BY <1>11 DEF Rank, U

\* An ordered sequence is the sorted one of its entries.
LEMMA OrderedIsSorted ==
    ASSUME NEW o, NEW s, Ordered(o, s)
    PROVE  /\ Range(s) \in SUBSET Nat /\ IsFiniteSet(Range(s))
           /\ Cardinality(Range(s)) = Len(s) /\ s = Sorted(o, Range(s))
<1> DEFINE S == Range(s)
           t == Sorted(o, S)
<1>1. s \in Seq(Nat) /\ Len(s) \in Nat /\ DOMAIN s = 1..Len(s)
    BY DEF Ordered
<1>2. \A k \in 1..Len(s) : s[k] \in Nat /\ s[k] \in S
    BY <1>1 DEF Range
<1>3. S = {s[k] : k \in 1..Len(s)}
    BY <1>1 DEF Range
<1>4. S \in SUBSET Nat
    BY <1>2, <1>3
<1>5. s \in Surjection(1..Len(s), S)
    <2>1. s \in [1..Len(s) -> S]
        <3>1. s = [k \in 1..Len(s) |-> s[k]]
            BY <1>1
        <3> HIDE DEF S
        <3> QED
            BY <1>2, <3>1
    <2>2. \A x \in S : \E k \in 1..Len(s) : s[k] = x
        BY <1>3
    <2> HIDE DEF S
    <2> QED
        BY <2>1, <2>2 DEF Surjection
<1>6. s \in Injection(1..Len(s), S)
    <2> SUFFICES ASSUME NEW j \in 1..Len(s), NEW k \in 1..Len(s), s[j] = s[k], j # k
                 PROVE  FALSE
        <3> HIDE DEF S
        <3> QED
            BY <1>5 DEF Surjection, Injection, IsInjective
    <2>1. j < k \/ k < j
        BY <1>1
    <2>2. Precedes(o, s[j], s[k]) \/ Precedes(o, s[k], s[j])
        BY <2>1 DEF Ordered
    <2> QED
        BY <1>2, <2>2, ScanOrder
<1> HIDE DEF S
<1>7. ExistsBijection(1..Len(s), S)
    BY <1>5, <1>6 DEF ExistsBijection, Bijection
<1>8. Cardinality(S) = Len(s) /\ IsFiniteSet(S)
    <2>1. Cardinality(S) = Len(s)
        BY <1>1, <1>7, FS_CountingElements
    <2>2. IsFiniteSet(S)
        BY <1>1, <1>7, FS_NatBijection
    <2> QED
        BY <2>1, <2>2
<1>9. /\ Ordered(o, t) /\ Range(t) = S /\ Len(t) = Len(s)
      /\ \A n \in 1..Len(s) : Rank(o, S, t[n]) = n - 1
    BY <1>4, <1>8, SortedLists
<1>10. \A n \in 1..Len(s) : Rank(o, S, s[n]) = n - 1
    BY RankInOrder, Zenon DEF S
<1>11. t \in Seq(Nat) /\ DOMAIN t = 1..Len(s)
    BY <1>9 DEF Ordered
<1>12. \A n \in 1..Len(s) : t[n] \in S
    BY <1>9, <1>11 DEF Range
<1> HIDE DEF t
<1>13. \A x, y \in S : Rank(o, S, x) = Rank(o, S, y) => x = y
    BY <1>4, <1>8, Ranks, Zenon
<1>14. \A n \in 1..Len(s) : s[n] = t[n]
    BY <1>2, <1>9, <1>10, <1>12, <1>13
<1>15. s = t
    BY <1>1, <1>11, <1>14
<1> QED
    BY <1>4, <1>8, <1>15 DEF S, t

\* A leading part of a set, in order, is a prefix of the whole set in order.
LEMMA LeadingIsPrefix ==
    ASSUME NEW o, NEW s, Ordered(o, s), NEW S \in SUBSET Nat, IsFiniteSet(S),
           Leading(o, Range(s), S)
    PROVE  /\ Len(s) <= Len(Sorted(o, S))
           /\ \A i \in 1..Len(s) : s[i] = Sorted(o, S)[i]
<1> DEFINE T == Range(s)
           t == Sorted(o, S)
<1>1. /\ T \in SUBSET Nat /\ IsFiniteSet(T) /\ Cardinality(T) = Len(s)
    BY OrderedIsSorted
<1>2. /\ Ordered(o, t) /\ Range(t) = S /\ Len(t) = Cardinality(S)
      /\ \A n \in 1..Cardinality(S) : Rank(o, S, t[n]) = n - 1
    BY SortedLists
<1>3. T \in SUBSET S /\ \A x \in T, y \in S : Precedes(o, y, x) => y \in T
    BY DEF Leading
<1>4. s \in Seq(Nat) /\ DOMAIN s = 1..Len(s) /\ t \in Seq(Nat) /\ DOMAIN t = 1..Len(t)
      /\ Len(s) \in Nat /\ Len(t) \in Nat
    BY <1>2 DEF Ordered
<1>5. \A i \in 1..Len(s) : s[i] \in T
    BY <1>4, Zenon DEF Range
<1>6. \A i \in 1..Len(t) : t[i] \in S
    BY <1>2, <1>4, Zenon DEF Range
<1>7. \A i \in 1..Len(s) : Rank(o, T, s[i]) = i - 1
    BY RankInOrder
<1> HIDE DEF T, t
<1>8. Len(s) <= Len(t)
    BY <1>1, <1>2, <1>3, FS_Subset, Zenon
<1>9. \A x \in T : Rank(o, T, x) = Rank(o, S, x)
    <2> SUFFICES ASSUME NEW x \in T
                 PROVE  {j \in T : Precedes(o, j, x)} = {j \in S : Precedes(o, j, x)}
        BY Zenon DEF Rank
    <2> QED
        BY <1>3, Zenon
<1>10. \A x, y \in S : Rank(o, S, x) = Rank(o, S, y) => x = y
    BY Ranks, Zenon
<1>11. \A i \in 1..Len(s) : s[i] = t[i]
    <2> SUFFICES ASSUME NEW i \in 1..Len(s) PROVE s[i] = t[i]
        OBVIOUS
    <2>1. i \in 1..Len(t)
        BY <1>4, <1>8
    <2>2. Rank(o, S, s[i]) = i - 1 /\ Rank(o, S, t[i]) = i - 1
        BY <1>2, <1>5, <1>7, <1>9, <2>1, Zenon
    <2> QED
        BY <1>3, <1>5, <1>6, <1>10, <2>1, <2>2, Zenon
<1> QED
    BY <1>8, <1>11 DEF t

\* The first n entries of an ordered sequence.
LEMMA TakeLeads ==
    ASSUME NEW o, NEW s, Ordered(o, s), NEW n \in Nat
    PROVE  /\ Ordered(o, Take(s, n)) /\ Leading(o, Range(Take(s, n)), Range(s))
           /\ Len(Take(s, n)) = IF n < Len(s) THEN n ELSE Len(s)
           /\ \A i \in 1..Len(Take(s, n)) : Take(s, n)[i] = s[i]
<1> DEFINE t == Take(s, n)
<1>1. s \in Seq(Nat) /\ Len(s) \in Nat /\ DOMAIN s = 1..Len(s)
    BY DEF Ordered
<1>2. \A i, j \in 1..Len(s) : i < j => Precedes(o, s[i], s[j])
    BY DEF Ordered
<1>3. /\ t \in Seq(Nat) /\ Len(t) = IF n < Len(s) THEN n ELSE Len(s)
      /\ \A i \in 1..Len(t) : t[i] = s[i]
    BY <1>1 DEF Take
<1>4. DOMAIN t = 1..Len(t) /\ Len(t) \in Nat /\ Len(t) <= Len(s)
    BY <1>1, <1>3
<1> HIDE DEF t
<1>5. \A i \in 1..Len(t) : i \in 1..Len(s) /\ t[i] = s[i]
    BY <1>1, <1>3, <1>4
<1>6. Ordered(o, t)
    BY <1>2, <1>3, <1>5 DEF Ordered
<1>7. Range(t) = {s[i] : i \in 1..Len(t)} /\ Range(s) = {s[i] : i \in 1..Len(s)}
    BY <1>1, <1>3, <1>4, Zenon DEF Range
<1>8. ASSUME NEW i \in 1..Len(t), NEW j \in 1..Len(s), Precedes(o, s[j], s[i])
      PROVE  j \in 1..Len(t)
    <2>1. s[i] \in Nat /\ s[j] \in Nat /\ i \in 1..Len(s)
        BY <1>1, <1>5
    <2>2. ~(i < j)
        BY <1>2, <1>8, <2>1, ScanOrder, Zenon
    <2> QED
        BY <1>1, <1>4, <2>2
<1>9. Leading(o, Range(t), Range(s))
    BY <1>5, <1>7, <1>8 DEF Leading
<1> QED
    BY <1>3, <1>6, <1>9 DEF t

\* The first entries of what leads W lead W.
LEMMA TakeLeadsOn ==
    ASSUME NEW o, NEW s, NEW W, Ordered(o, s), Leading(o, Range(s), W),
           NEW n \in Nat, Len(s) >= n + 1, NEW t, t = Take(s, n + 1)
    PROVE  Ordered(o, t) /\ Leading(o, Range(t), W) /\ Len(t) > n
<1>1. n + 1 \in Nat /\ Len(s) \in Nat
    BY DEF Ordered
<1>2. /\ Ordered(o, t) /\ Leading(o, Range(t), Range(s))
      /\ Len(t) = IF n + 1 < Len(s) THEN n + 1 ELSE Len(s)
    BY <1>1, TakeLeads
<1>3. Leading(o, Range(t), W)
    BY <1>2, Zenon DEF Leading
<1> QED
    BY <1>1, <1>2, <1>3

\* Two ordered sequences, all of one before all of the other.
LEMMA Concatenated ==
    ASSUME NEW o, NEW s, NEW t, Consecutive(o, s, t)
    PROVE  Ordered(o, s \o t) /\ Range(s \o t) = Range(s) \cup Range(t)
<1> DEFINE u == s \o t
           m == Len(s)
           n == Len(t)
<1> USE DEF Consecutive
<1>1. /\ s \in Seq(Nat) /\ m \in Nat /\ DOMAIN s = 1..m
      /\ t \in Seq(Nat) /\ n \in Nat /\ DOMAIN t = 1..n
    BY DEF Ordered
<1>2. /\ u \in Seq(Nat) /\ Len(u) = m + n /\ DOMAIN u = 1..(m + n)
      /\ \A i \in 1..(m + n) : u[i] = IF i <= m THEN s[i] ELSE t[i - m]
    BY <1>1
<1>3. Range(s) = {s[i] : i \in 1..m} /\ Range(t) = {t[i] : i \in 1..n}
    BY <1>1 DEF Range
<1>4. /\ \A i, j \in 1..m : i < j => Precedes(o, s[i], s[j])
      /\ \A i, j \in 1..n : i < j => Precedes(o, t[i], t[j])
      /\ \A i \in 1..m, j \in 1..n : Precedes(o, s[i], t[j])
    BY <1>3, Zenon DEF Ordered
<1> HIDE DEF u, m, n, Consecutive
<1>5. ASSUME NEW i \in 1..(m + n), NEW j \in 1..(m + n), i < j
      PROVE  Precedes(o, u[i], u[j])
    <2>1. CASE j <= m
        <3>1. i \in 1..m /\ j \in 1..m /\ i <= m
            BY <1>1, <1>5, <2>1
        <3>2. u[i] = s[i] /\ u[j] = s[j]
            BY <1>2, <2>1, <3>1
        <3> QED
            BY <1>4, <1>5, <3>1, <3>2
    <2>2. CASE i <= m /\ ~(j <= m)
        <3>1. i \in 1..m /\ j - m \in 1..n
            BY <1>1, <1>5, <2>2
        <3>2. u[i] = s[i] /\ u[j] = t[j - m]
            BY <1>2, <2>2, Zenon
        <3> QED
            BY <1>4, <3>1, <3>2
    <2>3. CASE ~(i <= m)
        <3>1. i - m \in 1..n /\ j - m \in 1..n /\ i - m < j - m /\ ~(j <= m)
            BY <1>1, <1>5, <2>3
        <3>2. u[i] = t[i - m] /\ u[j] = t[j - m]
            BY <1>2, <2>3, <3>1, Zenon
        <3> QED
            BY <1>4, <3>1, <3>2
    <2> QED
        BY <1>1, <1>5, <2>1, <2>2, <2>3
<1>6. Range(u) = {u[i] : i \in 1..(m + n)}
    BY <1>2, Zenon DEF Range
<1>7. ASSUME NEW x PROVE x \in Range(u) <=> x \in Range(s) \cup Range(t)
    <2>1. ASSUME NEW i \in 1..(m + n) PROVE u[i] \in Range(s) \cup Range(t)
        <3>1. CASE i <= m
            <4>1. i \in 1..m /\ u[i] = s[i]
                BY <1>1, <1>2, <3>1
            <4> QED
                BY <1>3, <4>1
        <3>2. CASE ~(i <= m)
            <4>1. i - m \in 1..n /\ u[i] = t[i - m]
                BY <1>1, <1>2, <3>2
            <4> QED
                BY <1>3, <4>1
        <3> QED
            BY <3>1, <3>2
    <2>2. ASSUME NEW i \in 1..m PROVE s[i] \in Range(u)
        <3>1. i \in 1..(m + n) /\ u[i] = s[i]
            BY <1>1, <1>2
        <3> QED
            BY <1>6, <3>1, Zenon
    <2>3. ASSUME NEW i \in 1..n PROVE t[i] \in Range(u)
        <3>1. i + m \in 1..(m + n) /\ ~(i + m <= m) /\ (i + m) - m = i
            BY <1>1
        <3>2. u[i + m] = t[i]
            BY <1>2, <3>1
        <3> QED
            BY <1>6, <3>1, <3>2
    <2> QED
        BY <1>3, <1>6, <2>1, <2>2, <2>3, Zenon
<1> QED
    BY <1>2, <1>5, <1>7 DEF Ordered, u, m, n

\* An ordered sequence that leads a set, and has all of it or more than n entries,
\* has the set's first n entries, and says whether there are more.
LEMMA PageOfLeading ==
    ASSUME NEW o, NEW s, Ordered(o, s), NEW S \in SUBSET Nat, IsFiniteSet(S), NEW n \in Nat,
           Leading(o, Range(s), S), Range(s) = S \/ Len(s) > n
    PROVE  /\ Take(s, n) = Take(Sorted(o, S), n)
           /\ Len(s) > n <=> Len(Sorted(o, S)) > n
<1> DEFINE t == Sorted(o, S)
<1>1. Len(s) <= Len(t) /\ \A i \in 1..Len(s) : s[i] = t[i]
    BY LeadingIsPrefix, Zenon
<1>2. Range(s) = S => s = t
    BY OrderedIsSorted
<1>3. Ordered(o, t)
    BY SortedLists
<1> HIDE DEF t
<1>4. s \in Seq(Nat) /\ t \in Seq(Nat) /\ Len(s) \in Nat /\ Len(t) \in Nat
    BY <1>3 DEF Ordered
<1>5. CASE s = t
    BY <1>5 DEF t
<1>6. CASE Len(s) > n
    <2>1. Len(t) > n
        BY <1>1, <1>4, <1>6
    <2>2. /\ Take(s, n) \in Seq(Nat) /\ Len(Take(s, n)) = n
          /\ \A i \in 1..n : Take(s, n)[i] = s[i]
        BY <1>4, <1>6 DEF Take
    <2>3. /\ Take(t, n) \in Seq(Nat) /\ Len(Take(t, n)) = n
          /\ \A i \in 1..n : Take(t, n)[i] = t[i]
        BY <1>4, <2>1 DEF Take
    <2>4. \A i \in 1..n : i \in 1..Len(s)
        BY <1>4, <1>6
    <2>5. \A i \in 1..n : Take(s, n)[i] = Take(t, n)[i]
        BY <1>1, <2>2, <2>3, <2>4, Zenon
    <2>6. Take(s, n) = Take(t, n)
        BY <2>2, <2>3, <2>5
    <2> QED
        BY <1>6, <2>1, <2>6 DEF t
<1> QED
    BY <1>2, <1>5, <1>6

\* The first rows of a range, and the range that is left after them.
FirstRows(o, lo, hi, A, rows) ==
    /\ o \in {"Asc", "Desc"} /\ lo \in Nat /\ hi \in Nat
    /\ A \in SUBSET (lo..(hi - 1))
    /\ Ordered(o, rows) /\ rows # <<>> /\ Leading(o, Range(rows), A)

LoLeft(o, lo, rows) == IF o = "Asc" THEN rows[Len(rows)] + 1 ELSE lo
HiLeft(o, hi, rows) == IF o = "Asc" THEN hi ELSE rows[Len(rows)]

\* What the rows of a page leave of their range comes after them.
LEMMA RangeLeft ==
    ASSUME NEW o, NEW lo, NEW hi, NEW A, NEW rows, FirstRows(o, lo, hi, A, rows),
           NEW lo1, lo1 = LoLeft(o, lo, rows), NEW hi1, hi1 = HiLeft(o, hi, rows)
    PROVE  /\ lo1 \in Nat /\ hi1 \in Nat /\ lo1..(hi1 - 1) \in SUBSET (lo..(hi - 1))
           /\ \A e \in A : e \in Range(rows) <=> e \notin lo1..(hi1 - 1)
           /\ \A x \in (lo..(hi - 1)) \ (lo1..(hi1 - 1)), y \in lo1..(hi1 - 1) : Precedes(o, x, y)
<1> DEFINE z == rows[Len(rows)]
           n == Len(rows)
<1>1. /\ rows \in Seq(Nat) /\ n \in Nat \ {0} /\ z = rows[n] /\ n \in 1..n
      /\ DOMAIN rows = 1..n /\ o \in {"Asc", "Desc"} /\ lo \in Nat /\ hi \in Nat
    BY DEF Ordered, FirstRows
<1>2. z \in Range(rows) /\ \A x \in Range(rows) : \E i \in 1..n : x = rows[i]
    BY <1>1 DEF Range
<1> HIDE DEF z, n
<1>3. \A x \in Range(rows) : x = z \/ Precedes(o, x, z)
    <2> SUFFICES ASSUME NEW i \in 1..n PROVE rows[i] = z \/ Precedes(o, rows[i], z)
        BY <1>2
    <2>1. i = n \/ i < n
        BY <1>1
    <2> QED
        BY <1>1, <2>1 DEF Ordered, FirstRows
<1>4. /\ z \in lo..(hi - 1) /\ Range(rows) \in SUBSET A
      /\ \A y \in A : Precedes(o, y, z) => y \in Range(rows)
      /\ A \in SUBSET (lo..(hi - 1))
    BY <1>2, Zenon DEF Leading, FirstRows
<1>5. CASE o = "Asc"
    <2>1. lo1 = z + 1 /\ hi1 = hi
        BY <1>5 DEF z, LoLeft, HiLeft
    <2>2. \A e \in A : e \in Range(rows) <=> e <= z
        <3>1. \A e \in A : e \in Nat /\ z \in Nat
            BY <1>1, <1>4
        <3> QED
            BY <1>2, <1>3, <1>4, <1>5, <3>1 DEF Precedes
    <2> QED
        BY <1>1, <1>4, <1>5, <2>1, <2>2 DEF Precedes
<1>6. CASE o = "Desc"
    <2>1. lo1 = lo /\ hi1 = z
        BY <1>6 DEF z, LoLeft, HiLeft
    <2>2. \A e \in A : e \in Range(rows) <=> z <= e
        <3>1. \A e \in A : e \in Nat /\ z \in Nat
            BY <1>1, <1>4
        <3> QED
            BY <1>2, <1>3, <1>4, <1>6, <3>1 DEF Precedes
    <2> QED
        BY <1>1, <1>4, <1>6, <2>1, <2>2 DEF Precedes
<1> QED
    BY <1>1, <1>5, <1>6, Zenon

\* What a scan has collected of W is all of it outside the range that is left,
\* which comes after it.
Collected(o, lo, hi, W, kvs) ==
    /\ Ordered(o, kvs)
    /\ Range(kvs) = W \ (lo..(hi - 1))
    /\ \A e \in W \ (lo..(hi - 1)), f \in lo..(hi - 1) : Precedes(o, e, f)

\* The rows of a page, and those of them that a scan collects.
More(o, lo, hi, A, rows, W, kvs, new) ==
    /\ FirstRows(o, lo, hi, A, rows) /\ W \in SUBSET Nat /\ W \cap (lo..(hi - 1)) \in SUBSET A
    /\ Collected(o, lo, hi, W, kvs) /\ Ordered(o, new) /\ Range(new) = Range(rows) \cap W

\* A page of rows is added to what a scan has collected: it has then collected all
\* outside the range that is left now, and everything when the rows were the last.
LEMMA RowsCollected ==
    ASSUME NEW o, NEW lo, NEW hi, NEW A, NEW rows, NEW W, NEW kvs, NEW new,
           More(o, lo, hi, A, rows, W, kvs, new),
           NEW lo1, lo1 = LoLeft(o, lo, rows), NEW hi1, hi1 = HiLeft(o, hi, rows)
    PROVE  /\ Collected(o, lo1, hi1, W, kvs \o new)
           /\ Leading(o, Range(kvs \o new), W)
           /\ Range(rows) = A => Range(kvs \o new) = W
           /\ lo1 \in Nat /\ hi1 \in Nat /\ lo1..(hi1 - 1) \in SUBSET (lo..(hi - 1))
<1> DEFINE all == kvs \o new
<1>1. /\ FirstRows(o, lo, hi, A, rows) /\ W \in SUBSET Nat
      /\ W \cap (lo..(hi - 1)) \in SUBSET A
      /\ Collected(o, lo, hi, W, kvs) /\ Ordered(o, new) /\ Range(new) = Range(rows) \cap W
    BY DEF More
<1>2. /\ A \in SUBSET (lo..(hi - 1)) /\ Range(rows) \in SUBSET A
      /\ lo1 \in Nat /\ hi1 \in Nat
      /\ \A e \in A : e \in Range(rows) <=> e \notin lo1..(hi1 - 1)
      /\ lo1..(hi1 - 1) \in SUBSET (lo..(hi - 1))
      /\ \A x \in (lo..(hi - 1)) \ (lo1..(hi1 - 1)), y \in lo1..(hi1 - 1) : Precedes(o, x, y)
    <2>1. A \in SUBSET (lo..(hi - 1)) /\ Range(rows) \in SUBSET A
        BY <1>1, Zenon DEF FirstRows, Leading
    <2>2. /\ lo1 \in Nat /\ hi1 \in Nat /\ lo1..(hi1 - 1) \in SUBSET (lo..(hi - 1))
          /\ \A e \in A : e \in Range(rows) <=> e \notin lo1..(hi1 - 1)
          /\ \A x \in (lo..(hi - 1)) \ (lo1..(hi1 - 1)), y \in lo1..(hi1 - 1) : Precedes(o, x, y)
        BY <1>1, RangeLeft
    <2> QED
        BY <2>1, <2>2, Zenon
<1>3. /\ Ordered(o, kvs) /\ Range(kvs) = W \ (lo..(hi - 1))
      /\ \A e \in W \ (lo..(hi - 1)), f \in lo..(hi - 1) : Precedes(o, e, f)
    BY <1>1 DEF Collected
<1>4. Consecutive(o, kvs, new)
    BY <1>1, <1>2, <1>3, Zenon DEF Consecutive
<1>5. Ordered(o, all) /\ Range(all) = Range(kvs) \cup Range(new)
    BY <1>4, Concatenated
<1> HIDE DEF all
<1>6. Range(all) = W \ (lo1..(hi1 - 1))
    <2>1. \A e \in Range(all) : e \in W \ (lo1..(hi1 - 1))
        BY <1>1, <1>2, <1>3, <1>5, Zenon
    <2>2. \A e \in W \ (lo1..(hi1 - 1)) : e \in Range(all)
        BY <1>1, <1>2, <1>3, <1>5, Zenon
    <2> QED
        BY <2>1, <2>2, Zenon
<1>7. \A e \in W \ (lo1..(hi1 - 1)), f \in lo1..(hi1 - 1) : Precedes(o, e, f)
    BY <1>2, <1>3
<1>8. Leading(o, Range(all), W)
    <2>1. ASSUME NEW x \in Range(all), NEW y \in W, Precedes(o, y, x), y \notin Range(all)
          PROVE  FALSE
        <3>1. Precedes(o, x, y) /\ x \in Nat /\ y \in Nat
            BY <1>1, <1>6, <1>7, <2>1, Zenon
        <3> QED
            BY <2>1, <3>1, ScanOrder, Zenon
    <2> QED
        BY <1>6, <2>1 DEF Leading
<1>9. Range(rows) = A => Range(all) = W
    BY <1>1, <1>2, <1>3, <1>5
<1> QED
    BY <1>2, <1>5, <1>6, <1>7, <1>8, <1>9, Zenon DEF Collected, all

\* A scan of the range from lo up to hi, whose rows are A, with what it has
\* collected before; W is what passes its filters.
Scan(o, lo, hi, A, W, kvs, size) ==
    /\ o \in {"Asc", "Desc"} /\ lo \in Nat /\ hi \in Nat /\ size \in Nat \ {0}
    /\ A \in SUBSET (lo..(hi - 1)) /\ W \in SUBSET Nat /\ W \cap (lo..(hi - 1)) \in SUBSET A
    /\ Collected(o, lo, hi, W, kvs)

\* Its next rows, and all that it has collected with them.
Fetches(o, lo, hi, A, W, kvs, size, rows, all) ==
    /\ Scan(o, lo, hi, A, W, kvs, size)
    /\ rows = Take(Sorted(o, A), size)
    /\ all = kvs \o Sorted(o, Range(rows) \cap W)

\* A scan that fetches rows has collected all outside the range that is left; one
\* that finds none, or fewer than it asked for, has collected everything.
LEMMA RowsFetched ==
    ASSUME NEW o, NEW lo, NEW hi, NEW A, NEW W, NEW kvs, NEW size, NEW rows, NEW all,
           Fetches(o, lo, hi, A, W, kvs, size, rows, all),
           NEW lo1, lo1 = LoLeft(o, lo, rows), NEW hi1, hi1 = HiLeft(o, hi, rows)
    PROVE  /\ rows = <<>> => Range(kvs) = W
           /\ rows # <<>> =>
                 /\ Collected(o, lo1, hi1, W, all) /\ Leading(o, Range(all), W)
                 /\ lo1 \in Nat /\ hi1 \in Nat /\ lo1..(hi1 - 1) \in SUBSET (lo..(hi - 1))
                 /\ Len(rows) < size => Range(all) = W
           /\ Len(rows) \in Nat /\ Range(rows) \in SUBSET A
<1> DEFINE s == Sorted(o, A)
           new == Sorted(o, Range(rows) \cap W)
<1>1. /\ o \in {"Asc", "Desc"} /\ lo \in Nat /\ hi \in Nat /\ size \in Nat \ {0}
      /\ A \in SUBSET (lo..(hi - 1)) /\ W \in SUBSET Nat /\ W \cap (lo..(hi - 1)) \in SUBSET A
      /\ Collected(o, lo, hi, W, kvs)
      /\ rows = Take(s, size) /\ all = kvs \o new
    BY DEF Scan, Fetches
<1>2. A \in SUBSET Nat /\ IsFiniteSet(A)
    <2>1. lo..(hi - 1) \in SUBSET Nat /\ lo \in Int /\ hi - 1 \in Int
        BY <1>1
    <2>2. IsFiniteSet(lo..(hi - 1))
        BY <2>1, FS_Interval
    <2> QED
        BY <1>1, <2>1, <2>2, FS_Subset, Zenon
<1>3. Ordered(o, s) /\ Range(s) = A
    BY <1>2, SortedLists, Zenon
<1>4. /\ Ordered(o, rows) /\ Leading(o, Range(rows), A) /\ Range(rows) \in SUBSET A
      /\ Len(rows) = IF size < Len(s) THEN size ELSE Len(s)
    BY <1>1, <1>3, TakeLeads, Zenon DEF Leading
<1>5. Len(rows) \in Nat /\ Len(s) \in Nat
    BY <1>3, <1>4 DEF Ordered
<1>6. Len(rows) < size => Range(rows) = A
    <2>1. ASSUME Len(rows) < size PROVE ~(size < Len(s))
        BY <1>1, <1>4, <1>5, <2>1
    <2>2. ASSUME ~(size < Len(s)) PROVE rows = s
        BY <1>1, <2>2 DEF Take
    <2> QED
        BY <1>3, <2>1, <2>2, Zenon
<1>7. Ordered(o, new) /\ Range(new) = Range(rows) \cap W
    <2>1. Range(rows) \cap W \in SUBSET A
        BY <1>4
    <2>2. Range(rows) \cap W \in SUBSET Nat /\ IsFiniteSet(Range(rows) \cap W)
        BY <1>2, <2>1, FS_Subset, Zenon
    <2> QED
        BY <2>2, SortedLists, Zenon
<1> HIDE DEF s, new
<1>8. CASE rows = <<>>
    <2>1. Range(rows) = {} /\ Len(rows) = 0
        BY <1>8 DEF Range
    <2>2. A = {}
        BY <1>1, <1>6, <2>1
    <2>3. Range(kvs) = W
        BY <1>1, <2>2 DEF Collected
    <2> QED
        BY <1>4, <1>5, <1>8, <2>3, Zenon
<1>9. CASE rows # <<>>
    <2>1. FirstRows(o, lo, hi, A, rows)
        BY <1>1, <1>4, <1>9, Zenon DEF FirstRows
    <2>2. /\ Collected(o, lo1, hi1, W, kvs \o new)
          /\ Leading(o, Range(kvs \o new), W)
          /\ Range(rows) = A => Range(kvs \o new) = W
          /\ lo1 \in Nat /\ hi1 \in Nat /\ lo1..(hi1 - 1) \in SUBSET (lo..(hi - 1))
        <3>1. More(o, lo, hi, A, rows, W, kvs, new)
            BY <1>1, <1>7, <2>1, Zenon DEF More
        <3> QED
            BY <3>1, RowsCollected
    <2> QED
        BY <1>1, <1>4, <1>5, <1>6, <1>9, <2>2, Zenon
<1> QED
    BY <1>8, <1>9

\* A page pg of F follows the pages of ls, which end at the cursor c, where T is all
\* that there is behind the cursor; nx is the cursor that it answers with, and L2
\* are all pages.
Page(o, c, ls, F, T, n, pg, nx, L2) ==
    /\ L2 = ls \o pg /\ pg = Take(F, n) /\ nx = IF Len(F) > n THEN F[n] ELSE 0
    /\ c \in Nat /\ n \in Nat \ {0} /\ T \in SUBSET (Nat \ {0})
    /\ Ordered(o, ls) /\ (c = 0 => ls = <<>>)
    /\ \A x \in Range(ls) : ~Precedes(o, c, x)
    /\ \A x \in T : c # 0 => Precedes(o, c, x)
    /\ Ordered(o, F) /\ Range(F) \in SUBSET T

\* The pages with one more, and the cursor that the new one answers with: the pages
\* end there, and hold all of T up to there if F leads T.
LEMMA PageAdded ==
    ASSUME NEW o, NEW c, NEW ls, NEW F, NEW T, NEW n, NEW pg, NEW nx, NEW L2,
           Page(o, c, ls, F, T, n, pg, nx, L2)
    PROVE  /\ Ordered(o, L2) /\ Range(L2) = Range(ls) \cup Range(pg) /\ nx \in Nat
           /\ nx # 0 => /\ \A x \in Range(L2) : ~Precedes(o, nx, x)
                        /\ Len(F) > n
                        /\ Leading(o, Range(F), T) =>
                               \A r \in T : ~Precedes(o, nx, r) => r \in Range(pg)
           /\ nx = 0 => pg = F /\ ~(Len(F) > n)
<1>1. /\ c \in Nat /\ n \in Nat \ {0}
      /\ pg = Take(F, n) /\ nx = IF Len(F) > n THEN F[n] ELSE 0
    BY DEF Page
<1>2. /\ Ordered(o, ls) /\ (c = 0 => ls = <<>>)
      /\ \A x \in Range(ls) : ~Precedes(o, c, x)
    BY DEF Page
<1>3. /\ T \in SUBSET (Nat \ {0}) /\ \A x \in T : c # 0 => Precedes(o, c, x)
    BY DEF Page
<1>4. Ordered(o, F) /\ Range(F) \in SUBSET T
    BY DEF Page
<1>5. Len(F) \in Nat /\ F \in Seq(Nat) /\ DOMAIN F = 1..Len(F)
    BY <1>4 DEF Ordered
<1>6. /\ Ordered(o, pg) /\ Leading(o, Range(pg), Range(F))
      /\ Len(pg) = IF n < Len(F) THEN n ELSE Len(F)
      /\ \A i \in 1..Len(pg) : pg[i] = F[i]
    BY <1>1, <1>4, TakeLeads
<1>7. /\ pg \in Seq(Nat) /\ DOMAIN pg = 1..Len(pg) /\ Range(pg) \in SUBSET T
      /\ Range(ls) \in SUBSET Nat /\ (ls = <<>> => Range(ls) = {})
    <2>1. pg \in Seq(Nat) /\ DOMAIN pg = 1..Len(pg)
        BY <1>6 DEF Ordered
    <2>2. Range(pg) \in SUBSET T
        BY <1>4, <1>6, Zenon DEF Leading
    <2>3. Range(ls) \in SUBSET Nat /\ (ls = <<>> => Range(ls) = {})
        BY <1>2 DEF Ordered, Range
    <2> QED
        BY <2>1, <2>2, <2>3, Zenon
<1>8. \A x \in Range(ls), y \in Range(pg) : Precedes(o, x, y)
    <2> SUFFICES ASSUME NEW x \in Range(ls), NEW y \in Range(pg) PROVE Precedes(o, x, y)
        OBVIOUS
    <2>1. x \in Nat /\ y \in Nat /\ y \in T
        BY <1>3, <1>7, Zenon
    <2>2. c # 0
        BY <1>2, <1>7, Zenon
    <2>3. ~Precedes(o, c, x) /\ Precedes(o, c, y)
        BY <1>2, <1>3, <2>1, <2>2
    <2>4. x = c \/ Precedes(o, x, c)
        BY <1>1, <2>1, <2>3, ScanOrder, Zenon
    <2> QED
        BY <1>1, <2>1, <2>3, <2>4, ScanOrder, Zenon
<1>9. Ordered(o, L2) /\ Range(L2) = Range(ls) \cup Range(pg)
    <2>1. Consecutive(o, ls, pg)
        BY <1>2, <1>6, <1>8, Zenon DEF Consecutive
    <2>2. Ordered(o, ls \o pg) /\ Range(ls \o pg) = Range(ls) \cup Range(pg)
        BY <2>1, Concatenated
    <2> QED
        BY <2>2 DEF Page
<1>10. CASE Len(F) > n
    <2>1. Len(pg) = n /\ n \in 1..n
        BY <1>1, <1>5, <1>6, <1>10
    <2>2. nx = pg[n]
        BY <1>1, <1>6, <1>10, <2>1, Zenon
    <2>3. nx \in Range(pg)
        BY <1>7, <2>1, <2>2 DEF Range
    <2>4. nx \in T /\ nx \in Nat /\ nx # 0
        BY <1>3, <1>7, <2>3, Zenon
    <2>5. \A y \in Range(pg) : ~Precedes(o, nx, y)
        <3> SUFFICES ASSUME NEW i \in 1..n PROVE ~Precedes(o, nx, pg[i])
            BY <1>7, <2>1, Zenon DEF Range
        <3>1. i = n \/ i < n
            BY <1>1
        <3>2. i < n => Precedes(o, pg[i], nx)
            BY <1>6, <2>1, <2>2, Zenon DEF Ordered
        <3>3. pg[i] \in Nat
            BY <1>7, <2>1
        <3>4. i = n => pg[i] = nx
            BY <2>2
        <3> QED
            BY <2>4, <3>1, <3>2, <3>3, <3>4, ScanOrder, Zenon
    <2>6. \A x \in Range(ls) : ~Precedes(o, nx, x)
        BY <1>7, <1>8, <2>3, <2>4, ScanOrder, Zenon
    <2>7. ASSUME Leading(o, Range(F), T), NEW r \in T, ~Precedes(o, nx, r)
          PROVE  r \in Range(pg)
        <3>1. r \in Nat
            BY <1>3
        <3>2. r = nx \/ Precedes(o, r, nx)
            BY <2>4, <2>7, <3>1, ScanOrder, Zenon
        <3>3. nx \in Range(F)
            BY <1>6, <2>3 DEF Leading
        <3>4. r \in Range(F)
            BY <2>7, <3>2, <3>3 DEF Leading
        <3> QED
            BY <1>6, <2>3, <3>2, <3>4 DEF Leading
    <2>8. \A x \in Range(L2) : ~Precedes(o, nx, x)
        BY <1>9, <2>5, <2>6, Zenon
    <2> QED
        BY <1>9, <1>10, <2>4, <2>7, <2>8, Zenon
<1>11. CASE ~(Len(F) > n)
    <2>1. nx = 0 /\ pg = F
        BY <1>1, <1>5, <1>11, Zenon DEF Take
    <2> QED
        BY <1>1, <1>9, <1>11, <2>1
<1> QED
    BY <1>10, <1>11
-----------------------------------------------------------------------------
\* The rows of a table, and so the keys of an instance, are bounded.
LEMMA ContentBounded ==
    ASSUME NEW i \in Instance, NEW b \in Node
    PROVE  Content[i][b] \in SUBSET (0..(8 * Span))
<1>1. Span \in Nat \ {0} /\ Output[b] \in SUBSET (1..(Span - 1))
    BY InstancesAssumption, Zenon
<1>2. ASSUME NEW t \in 1..7, NEW r \in Rows(t, b) PROVE Key(t, r) \in 0..(8 * Span)
    <2>1. r = 0 \/ r \in 1..(Span - 1)
        BY <1>1, <1>2, Zenon DEF Rows
    <2>2. \/ t = 1 \/ t = 2 \/ t = 3 \/ t = 4 \/ t = 5 \/ t = 6 \/ t = 7
        OBVIOUS
    <2> QED
        BY <1>1, <2>1, <2>2 DEF Key
<1>3. CursorKey \in 0..(8 * Span)
    BY <1>1 DEF CursorKey
<1>4. Content[i][b] = {CursorKey} \cup UNION {{Key(t, r) : r \in Rows(t, b)} :
                                t \in {u \in 1..7 : GroupOf(u) \in Serves[i]}}
    BY DEF Content
<1> QED
    BY <1>2, <1>3, <1>4

\* A set of keys that is not empty has a first one.
LEMMA FirstOf ==
    ASSUME NEW T \in SUBSET Nat, T # {}
    PROVE  \E m \in T : \A k \in T : m <= k
<1> DEFINE R == {p \in Nat \X Nat : p[1] < p[2]}
<1>1. IsWellFoundedOn(R, Nat)
    BY NatLessThanWellFounded DEF OpToRel
<1>2. PICK m \in T : \A k \in T : <<k, m>> \notin R
    BY <1>1, WFMin, Zenon
<1>3. ASSUME NEW k \in T PROVE m <= k
    <2>1. k \in Nat /\ m \in Nat
        OBVIOUS
    <2>2. <<k, m>> \in R <=> k < m
        BY <2>1
    <2> QED
        BY <1>2, <2>1, <2>2
<1> QED
    BY <1>3

\* The next key after a page is above every key of it.
LEMMA GreatestOf ==
    ASSUME NEW n \in Nat, NEW T \in SUBSET (0..n), T # {}
    PROVE  Max(T) \in T /\ \A k \in T : k <= Max(T)
<1> DEFINE U == {n - k : k \in T}
<1>1. U \in SUBSET Nat /\ U # {}
    <2>1. \A k \in T : n - k \in Nat
        OBVIOUS
    <2> QED
        BY <2>1
<1>2. PICK m \in U : \A k \in U : m <= k
    BY <1>1, FirstOf, Zenon
<1>3. PICK t \in T : m = n - t
    BY <1>2
<1>4. ASSUME NEW k \in T PROVE t >= k
    <2>1. n - k \in U
        OBVIOUS
    <2> HIDE DEF U
    <2> QED
        BY <1>2, <1>3, <2>1
<1>5. \E x \in T : \A y \in T : x >= y
    BY <1>4
<1>6. Max(T) \in T /\ \A y \in T : Max(T) >= y
    BY <1>5, Zenon DEF Max
<1> QED
    BY <1>6

\* A page of a scan has every key up to its last one, is not empty while there
\* are keys, and has one key when one is asked for.
LEMMA PageOfScan ==
    ASSUME NEW m \in Nat, NEW S \in SUBSET (0..m), NEW n \in Nat \ {0}
    PROVE  /\ FirstKeys(S, n) \in SUBSET S
           /\ \A j \in FirstKeys(S, n), k \in S : k <= j => k \in FirstKeys(S, n)
           /\ FirstKeys(S, n) = {} => S = {}
           /\ Cardinality(FirstKeys(S, n)) \in Nat
           /\ n = 1 => Cardinality(FirstKeys(S, n)) <= 1
<1> DEFINE under(k) == {j \in S : j < k}
           first == FirstKeys(S, n)
<1>1. /\ first \in SUBSET S
      /\ \A k \in S : k \in first <=> Cardinality(under(k)) < n
    BY DEF FirstKeys
<1>2. \A k \in S : k \in Nat
    OBVIOUS
<1>3. IsFiniteSet(S)
    <2>1. IsFiniteSet(0..m)
        BY FS_Interval
    <2> QED
        BY <2>1, FS_Subset, Zenon
<1>4. \A k : under(k) \in SUBSET S
    OBVIOUS
<1>5. \A j, k \in S : k <= j => under(k) \in SUBSET under(j)
    <2> SUFFICES ASSUME NEW j \in S, NEW k \in S, k <= j, NEW x \in under(k)
                 PROVE  x \in under(j)
        BY Zenon
    <2>1. x \in S /\ x < k /\ x \in Nat /\ j \in Nat /\ k \in Nat
        BY <1>2
    <2> QED
        BY <2>1
<1>6. \A j, k \in S : k < j => k \in under(j)
    OBVIOUS
<1>7. \A j \in S : under(j) # {} => \E k \in S : k < j
    BY Zenon
<1> HIDE DEF under, first
<1>8. \A k : IsFiniteSet(under(k)) /\ Cardinality(under(k)) \in Nat
    BY <1>3, <1>4, FS_Subset, FS_CardinalityType
<1>9. ASSUME NEW j \in first, NEW k \in S, k <= j PROVE k \in first
    <2>1. Cardinality(under(k)) <= Cardinality(under(j))
        BY <1>1, <1>5, <1>8, <1>9, FS_Subset
    <2>2. Cardinality(under(j)) < n
        BY <1>1
    <2> QED
        BY <1>1, <1>8, <2>1, <2>2
<1>10. ASSUME S # {} PROVE first # {}
    <2>1. S \in SUBSET Nat
        BY <1>2
    <2>2. PICK x \in S : \A k \in S : x <= k
        BY <1>10, <2>1, FirstOf
    <2>3. under(x) = {}
        BY <1>2, <1>7, <2>2
    <2>4. Cardinality(under(x)) = 0
        BY <2>3, FS_EmptySet
    <2> QED
        BY <1>1, <2>2, <2>4
<1>11. IsFiniteSet(first) /\ Cardinality(first) \in Nat
    BY <1>1, <1>3, FS_Subset, FS_CardinalityType, Zenon
<1>12. ASSUME n = 1 PROVE Cardinality(first) <= 1
    <2>1. \A k \in first : under(k) = {}
        <3> SUFFICES ASSUME NEW k \in first PROVE under(k) = {}
            OBVIOUS
        <3>1. Cardinality(under(k)) < 1 /\ Cardinality(under(k)) \in Nat
            BY <1>1, <1>8, <1>12
        <3>2. Cardinality(under(k)) = 0
            BY <3>1
        <3> QED
            BY <1>8, <3>2, FS_EmptySet
    <2>2. \A j, k \in first : j = k
        <3> SUFFICES ASSUME NEW j \in first, NEW k \in first PROVE j = k
            OBVIOUS
        <3>1. j \in S /\ k \in S /\ j \in Nat /\ k \in Nat
            BY <1>1, <1>2, Zenon
        <3> QED
            BY <1>6, <2>1, <3>1
    <2>3. CASE first = {}
        BY <2>3, FS_EmptySet
    <2>4. CASE first # {}
        <3>1. PICK j \in first : first = {j}
            BY <2>2, <2>4
        <3>2. Cardinality({j}) = 1
            BY FS_Singleton, Zenon
        <3> QED
            BY <3>1, <3>2
    <2> QED
        BY <2>3, <2>4
<1> QED
    BY <1>1, <1>9, <1>10, <1>11, <1>12 DEF first
-----------------------------------------------------------------------------
\* The instances and the runs of daw keep their types.
LEMMA KeyspacesStep ==
    ASSUME Keyspaces, daw = DawIdle \/ daw \in Runs, InstanceStep \/ DawStep
    PROVE  Keyspaces'
<1>1. CASE InstanceStep
    <2>1. PICK i \in Instance : Apply(i) \/ Undo(i) \/ Advertise(i) \/ Retire(i)
        BY <1>1, Zenon DEF InstanceStep
    <2>2. ASSUME NEW b \in Block, Commit(i, b) PROVE Keyspaces'
        <3>1. Content[i][b] \in SUBSET (0..(8 * Span))
            BY ContentBounded, Zenon DEF Node
        <3> QED
            BY <2>2, <3>1 DEF Commit, Keyspaces
    <2>3. CASE Apply(i) \/ Undo(i)
        BY <2>2, <2>3 DEF Apply, Undo
    <2>4. CASE Advertise(i) \/ Retire(i)
        BY <2>4, Zenon DEF Advertise, Retire, Keyspaces
    <2> QED
        BY <2>1, <2>3, <2>4
<1>2. CASE DawStep
    BY <1>2 DEF DawStep, DawStart, DawDestroy, DawDelete, DawTooLarge, DawInfo, DawFails,
                DawIdle, Runs, instanceVars, Keyspaces
<1> QED
    BY <1>1, <1>2

\* While daw works, the instances that run leave its keyspace alone.
LEMMA WipedInstanceStep ==
    ASSUME Keyspaces, Wiped, InstanceStep, UNCHANGED daw
    PROVE  Wiped'
<1>1. PICK i \in Instance : Apply(i) \/ Undo(i) \/ Advertise(i) \/ Retire(i)
    BY Zenon DEF InstanceStep
<1>2. records' = records
    BY <1>1 DEF Apply, Undo, Commit, Advertise, Retire
<1>3. \A j \in Instance : ~running[j] => ~running'[j] /\ kv'[j] = kv[j]
    BY <1>1 DEF Apply, Undo, Commit, Advertise, Retire, Keyspaces
<1>4. daw \in Runs => daw.of \in Instance
    BY DEF Runs
<1> QED
    BY <1>2, <1>3, <1>4, Zenon DEF Wiped

\* One transaction of the scan: what it deletes is all there was below the rest.
LEMMA WipedDelete ==
    ASSUME Keyspaces, Wiped, DawDelete \/ DawTooLarge
    PROVE  Wiped'
<1> DEFINE keys == DawFetched
<1>1. daw \in Runs /\ daw.pc = "scan"
    BY DEF Wiped, DawDelete, DawTooLarge, DawIdle
<1>2. /\ daw.of \in Instance /\ daw.size \in Nat \ {0} /\ daw.from \in Nat
      /\ Span \in Nat \ {0} /\ DawFits \in Nat \ {0}
    BY <1>1, InstancesAssumption, DawAssumption, Zenon DEF Runs
<1>3. DawAhead \in SUBSET (0..(8 * Span)) /\ DawAhead \in SUBSET kv[daw.of]
    BY <1>2 DEF Keyspaces, DawAhead
<1>4. /\ keys \in SUBSET DawAhead
      /\ \A j \in keys, k \in DawAhead : k <= j => k \in keys
      /\ keys = {} => DawAhead = {}
      /\ Cardinality(keys) \in Nat
      /\ daw.size = 1 => Cardinality(keys) <= 1
    <2>1. 8 * Span \in Nat
        BY <1>2
    <2> QED
        BY <1>2, <1>3, <2>1, PageOfScan, Zenon DEF DawFetched
<1>5. daw.opt.force => DawAhead = kv[daw.of]
    BY <1>1, <1>2, <1>3 DEF Wiped, DawAhead, Keyspaces
<1> HIDE DEF keys
<1>6. CASE DawTooLarge
    <2>1. daw' = [daw EXCEPT !.size = @ \div 2] /\ Cardinality(keys) > DawFits
          /\ UNCHANGED <<kv, records, running>>
        BY <1>6 DEF DawTooLarge, instanceVars, keys
    <2>2. daw.size \div 2 \in Nat \ {0}
        BY <1>2, <1>4, <2>1
    <2> QED
        BY <1>1, <2>1, <2>2 DEF Wiped, Runs
<1>7. CASE DawDelete /\ keys = {}
    <2>1. daw' = [daw EXCEPT !.pc = "info"] /\ UNCHANGED <<kv, records, running>>
        BY <1>7, Zenon DEF DawDelete, keys
    <2> QED
        BY <1>1, <1>4, <1>5, <1>7, <2>1 DEF Wiped, Runs
<1>8. CASE DawDelete /\ keys # {}
    <2>1. /\ daw' = [daw EXCEPT !.from = DawRemaining(keys)]
          /\ kv' = IF daw.opt.force THEN [kv EXCEPT ![daw.of] = @ \ keys] ELSE kv
          /\ UNCHANGED <<records, running>>
        BY <1>8 DEF DawDelete, keys
    <2>2. keys \in SUBSET (0..(8 * Span)) /\ 8 * Span \in Nat
        BY <1>2, <1>3, <1>4
    <2>3. Max(keys) \in keys /\ \A k \in keys : k <= Max(keys)
        BY <1>8, <2>2, GreatestOf, Zenon
    <2>4. /\ \A k \in DawAhead : k \in Nat
          /\ Max(keys) \in Nat /\ DawRemaining(keys) = Max(keys) + 1
        <3>1. \A k \in 0..(8 * Span) : k \in Nat
            BY <2>2
        <3>2. \A k \in DawAhead : k \in Nat
            BY <1>3, <3>1
        <3> QED
            BY <1>4, <2>3, <3>2 DEF DawRemaining
    <2>5. daw.opt.force => \A k \in kv[daw.of] \ keys : DawRemaining(keys) <= k
        <3> SUFFICES ASSUME daw.opt.force, NEW k \in DawAhead \ keys
                     PROVE  Max(keys) + 1 <= k
            BY <1>5, <2>4
        <3>1. ~(k <= Max(keys))
            BY <1>4, <2>3
        <3>2. k \in Nat /\ Max(keys) \in Nat
            BY <2>4
        <3> QED
            BY <3>1, <3>2
    <2>6. daw.opt.force => kv'[daw.of] = kv[daw.of] \ keys
        BY <1>2, <2>1 DEF Keyspaces
    <2>7. /\ daw' \in Runs /\ daw'.from = DawRemaining(keys) /\ daw'.pc = "scan"
          /\ daw'.opt = daw.opt /\ daw'.of = daw.of
        BY <1>1, <2>1, <2>4 DEF Runs
    <2> QED
        BY <1>1, <2>1, <2>5, <2>6, <2>7 DEF Wiped
<1> QED
    BY <1>6, <1>7, <1>8

\* The other steps of a run.
LEMMA WipedDawStep ==
    ASSUME Keyspaces, Wiped, DawStep
    PROVE  Wiped'
<1>1. CASE \E i \in Instance : DawStart(i)
    <2>1. PICK i \in Instance, o \in Options :
              /\ ~running[i]
              /\ records' = IF o.force THEN records \ {<<i, "timestamps">>} ELSE records
              /\ daw' = [pc   |-> IF o.tsOnly THEN "done" ELSE
                                  IF o.destroy THEN "destroy" ELSE "scan",
                         of   |-> i, opt |-> o, from |-> 0, size |-> DawScanSize]
              /\ kv' = kv /\ running' = running
        BY <1>1, Zenon DEF DawStart
    <2>2. o \in Flags /\ DawScanSize \in Nat \ {0}
        BY DawAssumption DEF Flags
    <2>3. \A k \in kv[i] : 0 <= k
        BY InstancesAssumption DEF Keyspaces
    <2>4. daw' \in Runs
        BY <2>1, <2>2, Zenon DEF Runs
    <2>5. /\ daw'.of = i /\ daw'.opt = o /\ daw'.from = 0
          /\ daw'.pc \in {"done", "destroy", "scan"} /\ (daw'.pc = "done" => o.tsOnly)
        BY <2>1, <2>2 DEF Flags
    <2> QED
        BY <2>1, <2>3, <2>4, <2>5, Zenon DEF Wiped
<1>2. CASE DawDestroy
    <2>1. daw \in Runs
        BY <1>2 DEF Wiped, DawDestroy, DawIdle
    <2> QED
        BY <1>2, <2>1 DEF DawDestroy, Wiped, Runs, Keyspaces
<1>3. CASE DawInfo
    <2>1. daw \in Runs
        BY <1>3 DEF Wiped, DawInfo, DawIdle
    <2> QED
        BY <1>3, <2>1 DEF DawInfo, Wiped, Runs
<1>4. CASE DawFails
    BY <1>4, Zenon DEF DawFails, Wiped, Runs, DawIdle, instanceVars
<1> QED
    BY <1>1, <1>2, <1>3, <1>4, WipedDelete DEF DawStep
-----------------------------------------------------------------------------
(* What a snapshot has.                                                     *)

\* Tables and rows have different keys.
LEMMA KeysDiffer ==
    ASSUME NEW t \in 1..7, NEW u \in 1..7, NEW r \in 0..(Span - 1), NEW s \in 0..(Span - 1),
           Key(t, r) = Key(u, s)
    PROVE  t = u /\ r = s
<1>1. Span \in Nat \ {0}
    BY InstancesAssumption
<1>2. t * Span + r = u * Span + s
    BY Zenon DEF Key
<1>3. ASSUME NEW x \in 1..7, NEW y \in 1..7, x < y PROVE x * Span + Span <= y * Span
    <2>1. y = x + 1 \/ y = x + 2 \/ y = x + 3 \/ y = x + 4 \/ y = x + 5 \/ y = x + 6
        BY <1>3
    <2> QED
        BY <1>1, <2>1
<1>4. t = u
    <2>1. ~(t < u)
        BY <1>1, <1>2, <1>3
    <2>2. ~(u < t)
        BY <1>1, <1>2, <1>3
    <2> QED
        BY <2>1, <2>2
<1> QED
    BY <1>1, <1>2, <1>4

\* A keyspace has exactly the rows of its block, in the tables it serves.
LEMMA RowsOfContent ==
    ASSUME NEW i \in Instance, NEW b \in Node, NEW t \in 2..7, GroupOf(t) \in Serves[i],
           NEW r \in 0..(Span - 1)
    PROVE  Key(t, r) \in Content[i][b] <=> r \in Rows(t, b)
<1>1. Span \in Nat \ {0} /\ Output[b] \in SUBSET (1..(Span - 1))
    BY InstancesAssumption
<1>2. \A u : Rows(u, b) \in SUBSET (0..(Span - 1))
    BY <1>1 DEF Rows
<1>3. Content[i][b] = {CursorKey} \cup UNION {{Key(u, s) : s \in Rows(u, b)} :
                                u \in {v \in 1..7 : GroupOf(v) \in Serves[i]}}
    BY DEF Content
<1>4. Key(t, r) # CursorKey
    <2>1. 2 * Span <= t * Span
        <3>1. t = 2 \/ t = 3 \/ t = 4 \/ t = 5 \/ t = 6 \/ t = 7
            OBVIOUS
        <3> QED
            BY <1>1, <3>1
    <2> QED
        BY <1>1, <2>1 DEF Key, CursorKey
<1>5. ASSUME Key(t, r) \in Content[i][b] PROVE r \in Rows(t, b)
    <2>1. PICK u \in 1..7 : \E s \in Rows(u, b) : Key(t, r) = Key(u, s)
        BY <1>3, <1>4, <1>5
    <2>2. PICK s \in Rows(u, b) : Key(t, r) = Key(u, s)
        BY <2>1
    <2>3. s \in 0..(Span - 1) /\ t \in 1..7
        BY <1>2
    <2>4. t = u /\ r = s
        BY <2>2, <2>3, KeysDiffer
    <2> QED
        BY <2>2, <2>4
<1>6. ASSUME r \in Rows(t, b) PROVE Key(t, r) \in Content[i][b]
    <2>1. t \in {v \in 1..7 : GroupOf(v) \in Serves[i]}
        OBVIOUS
    <2>2. Key(t, r) \in {Key(t, s) : s \in Rows(t, b)}
        BY <1>6
    <2> QED
        BY <1>3, <2>1, <2>2
<1> QED
    BY <1>5, <1>6

\* The cursor is the first key of a keyspace.
LEMMA CursorFirst ==
    ASSUME NEW i \in Instance, NEW b \in Node, NEW k \in Content[i][b]
    PROVE  CursorKey <= k
<1>1. Span \in Nat \ {0} /\ Output[b] \in SUBSET (1..(Span - 1))
    BY InstancesAssumption
<1>2. ASSUME NEW t \in 1..7, NEW r \in Rows(t, b) PROVE CursorKey <= Key(t, r)
    <2>1. r = 0 \/ r \in 1..(Span - 1)
        BY <1>1, <1>2 DEF Rows
    <2>2. \/ t = 1 \/ t = 2 \/ t = 3 \/ t = 4 \/ t = 5 \/ t = 6 \/ t = 7
        OBVIOUS
    <2> QED
        BY <1>1, <2>1, <2>2 DEF Key, CursorKey
<1>3. CursorKey <= CursorKey
    BY DEF CursorKey
<1>4. Content[i][b] = {CursorKey} \cup UNION {{Key(t, r) : r \in Rows(t, b)} :
                                t \in {u \in 1..7 : GroupOf(u) \in Serves[i]}}
    BY Zenon DEF Content
<1> QED
    BY <1>2, <1>3, <1>4

\* A page of keys that daw deletes has the cursor, if the keyspace has it.
LEMMA WholeDelete ==
    ASSUME Keyspaces, Wiped, Whole(kv, at), DawDelete
    PROVE  Whole(kv', at')
<1> DEFINE keys == DawFetched
           of == daw.of
<1>1. daw \in Runs /\ daw.pc = "scan"
    BY DEF Wiped, DawDelete, DawIdle
<1>2. of \in Instance /\ daw.size \in Nat \ {0} /\ daw.from \in Nat /\ 8 * Span \in Nat
    BY <1>1, InstancesAssumption DEF Runs
<1>3. DawAhead \in SUBSET (0..(8 * Span))
    BY <1>2 DEF Keyspaces, DawAhead
<1>4. /\ keys \in SUBSET DawAhead
      /\ \A j \in keys, k \in DawAhead : k <= j => k \in keys
    BY <1>2, <1>3, PageOfScan, ZenonT(30) DEF DawFetched
<1>5. daw.opt.force => DawAhead = kv[of]
    BY <1>1, <1>2 DEF Wiped, DawAhead, Keyspaces
<1>6. at' = at /\ (kv' = kv \/ (daw.opt.force /\ keys # {} /\ kv' = [kv EXCEPT ![of] = @ \ keys]))
    BY DEF DawDelete
<1> HIDE DEF keys
<1>7. CASE daw.opt.force /\ keys # {} /\ kv' = [kv EXCEPT ![of] = @ \ keys]
    <2>1. /\ kv'[of] = kv[of] \ keys
          /\ \A i \in Instance \ {of} : kv'[i] = kv[i]
        BY <1>2, <1>7 DEF Keyspaces
    <2>2. ASSUME CursorKey \in kv[of] PROVE CursorKey \in keys
        <3>1. kv[of] = Content[of][at[of]] /\ at[of] \in Node
            BY <1>2, <2>2 DEF Whole, Keyspaces, Node
        <3>2. PICK j \in keys : TRUE
            BY <1>7
        <3>3. j \in kv[of]
            BY <1>4, <1>5, <1>7
        <3>4. CursorKey <= j
            BY <1>2, <3>1, <3>3, CursorFirst
        <3> QED
            BY <1>4, <1>5, <1>7, <2>2, <3>4
    <2>3. CursorKey \notin kv'[of]
        BY <2>1, <2>2
    <2> QED
        BY <1>6, <2>1, <2>3, <1>2, Zenon DEF Whole
<1> QED
    BY <1>6, <1>7

\* A step of the instances or of daw leaves every keyspace whole, or without a
\* cursor.
LEMMA WholeStep ==
    ASSUME Keyspaces, Wiped, Whole(kv, at), InstanceStep \/ DawStep
    PROVE  Whole(kv', at')
<1>1. ASSUME NEW i \in Instance, NEW b \in Block, Commit(i, b) PROVE Whole(kv', at')
    <2>1. /\ at'[i] = b /\ kv'[i] = Content[i][b]
          /\ \A j \in Instance \ {i} : at'[j] = at[j] /\ kv'[j] = kv[j]
        BY <1>1 DEF Commit, Keyspaces
    <2> QED
        BY <2>1 DEF Whole
<1>2. CASE InstanceStep
    <2>1. PICK i \in Instance : Apply(i) \/ Undo(i) \/ Advertise(i) \/ Retire(i)
        BY <1>2 DEF InstanceStep
    <2>2. CASE Apply(i) \/ Undo(i)
        BY <1>1, <2>2, Zenon DEF Apply, Undo
    <2>3. CASE Advertise(i) \/ Retire(i)
        BY <2>3 DEF Advertise, Retire
    <2> QED
        BY <2>1, <2>2, <2>3
<1>3. CASE DawDestroy
    <2>1. daw.of \in Instance
        BY <1>3 DEF Wiped, DawDestroy, DawIdle, Runs
    <2>2. /\ at' = at /\ kv'[daw.of] = {}
          /\ \A j \in Instance \ {daw.of} : kv'[j] = kv[j]
        BY <1>3, <2>1 DEF DawDestroy, Keyspaces
    <2> QED
        BY <2>1, <2>2 DEF Whole
<1>4. CASE (\E i \in Instance : DawStart(i)) \/ DawTooLarge \/ DawInfo \/ DawFails
    <2>1. UNCHANGED <<at, kv>>
        BY <1>4 DEF DawStart, DawTooLarge, DawInfo, DawFails, instanceVars
    <2> QED
        BY <2>1
<1> QED
    BY <1>2, <1>3, <1>4, WholeDelete DEF DawStep

\* So do scores remain those of instances that serve the group.
LEMMA ScoredStep ==
    ASSUME Keyspaces, Scored, InstanceStep \/ DawStep
    PROVE  Scored'
<1>1. CASE DawStep
    <2>1. score' = score
        BY <1>1 DEF DawStep, DawStart, DawDestroy, DawDelete, DawTooLarge, DawInfo, DawFails,
                    instanceVars
    <2> QED
        BY <2>1 DEF Scored
<1>2. CASE InstanceStep
    <2>1. PICK i \in Instance : Apply(i) \/ Undo(i) \/ Advertise(i) \/ Retire(i)
        BY <1>2 DEF InstanceStep
    <2>2. CASE Apply(i) \/ Undo(i)
        BY <2>2, Zenon DEF Apply, Undo, Commit, Scored
    <2>3. CASE Retire(i)
        BY <2>3 DEF Retire, Scored
    <2>4. CASE Advertise(i)
        <3>1. Height[at[i]] \in Nat
            BY TreeAssumption DEF Keyspaces, Node
        <3> QED
            BY <2>4, <3>1 DEF Advertise, Scored
    <2> QED
        BY <2>1, <2>2, <2>3, <2>4
<1> QED
    BY <1>1, <1>2
=============================================================================
