-------------------------- MODULE RaidSolverProofs --------------------------
(***************************************************************************)
(* What is proved of Raid.get_best_matched_disks, for every table of drives *)
(* and every request: the loops stay within the tables they search, a       *)
(* number of disks is called invalid exactly when it is one, and under      *)
(* Python 3 the solution returned is one that no array of the drives beats. *)
(***************************************************************************)
EXTENDS RaidSolver, RaidUtilsProofs, SequenceTheorems

\* The uniform disks that stand for "any disks whatever".
Uniform(n) == [d \in 1..n |-> [capacity |-> 9, media |-> "hdd"]]

----------------------------------------------------------------------------
(* Uniform disks.                                                           *)

\* n uniform disks make an array exactly when some number of spans divides
\* them into spans of a legal size.
LEMMA UniformSolutions ==
    ASSUME NEW level \in DOMAIN RAID_SETTINGS, NEW n \in Nat, n # 0
    PROVE  LegalSolutions(Uniform(n), level, 1, 1..n, n) # {}
                <=> \E m \in Spans(level) : LegalCount(level, m, n)
<1>1. IsFiniteSet(1..n) /\ Cardinality(1..n) = n
    BY FS_Interval
<1>2. ASSUME LegalSolutions(Uniform(n), level, 1, 1..n, n) # {}
      PROVE  \E m \in Spans(level) : LegalCount(level, m, n)
    <2>1. PICK s \in [span : Spans(level), disks : (SUBSET (1..n)) \ {{}}] :
            /\ LegalCount(level, s.span, Cardinality(s.disks))
            /\ n # AutoCount => Cardinality(s.disks) = n
        BY <1>2 DEF LegalSolutions
    <2>2. Cardinality(s.disks) = n
        BY <2>1 DEF AutoCount
    <2> QED BY <2>1, <2>2
<1>3. ASSUME NEW sp \in Spans(level), LegalCount(level, sp, n)
      PROVE  LegalSolutions(Uniform(n), level, 1, 1..n, n) # {}
    <2> DEFINE s == [span |-> sp, disks |-> 1..n]
    <2>1. s \in [span : Spans(level), disks : (SUBSET (1..n)) \ {{}}]
        <3>1. 1 \in 1..n
            OBVIOUS
        <3> QED BY <3>1
    <2>2. Cardinality({Uniform(n)[d].media : d \in s.disks}) = 1
        <3>1. {Uniform(n)[d].media : d \in s.disks} = {"hdd"}
            <4>1. 1 \in 1..n
                OBVIOUS
            <4>2. \A d \in 1..n : Uniform(n)[d].media = "hdd"
                BY DEF Uniform
            <4> QED BY <4>1, <4>2
        <3> QED BY <3>1, FS_Singleton
    <2>3. ArrayCapacity(Uniform(n), level, sp, 1..n) >= 1
        <3>1. Smallest(Uniform(n), 1..n) = 9
            <4>1. {Uniform(n)[d].capacity : d \in 1..n} = {9}
                <5>1. 1 \in 1..n
                    OBVIOUS
                <5>2. \A d \in 1..n : Uniform(n)[d].capacity = 9
                    BY DEF Uniform
                <5> QED BY <5>1, <5>2
            <4>2. Min({9}) = 9
                BY DEF Min
            <4> QED BY <4>1, <4>2 DEF Smallest
        <3> DEFINE m == n - Overhead(level, sp)
        <3>2. m \in Int /\ m >= 1
            BY <1>3, LegalLeavesRoom
        <3>3. ArrayCapacity(Uniform(n), level, sp, 1..n) = 9 * m
            BY <1>1, <3>1 DEF ArrayCapacity
        <3> HIDE DEF m
        <3>4. 9 * m >= 1
            BY <3>2
        <3> QED BY <3>3, <3>4
    <2>4. s \in LegalSolutions(Uniform(n), level, 1, 1..n, n)
        <3>1. s.span = sp /\ s.disks = 1..n
            OBVIOUS
        <3>2. s \in [span : Spans(level), disks : (SUBSET (1..n)) \ {{}}]
            BY <2>1
        <3> HIDE DEF s
        <3>3. /\ Cardinality({Uniform(n)[d].media : d \in s.disks}) = 1
              /\ LegalCount(level, s.span, Cardinality(s.disks))
              /\ Cardinality(s.disks) = n
              /\ ArrayCapacity(Uniform(n), level, s.span, s.disks) >= 1
            BY <1>1, <1>3, <2>2, <2>3, <3>1
        <3> QED BY <3>2, <3>3 DEF LegalSolutions
    <2> QED BY <2>4
<1> QED BY <1>2, <1>3

----------------------------------------------------------------------------
(* sorted().                                                                *)

\* The order is strict and total.
LEMMA PrecedesIsTotal ==
    ASSUME NEW drives, NEW ds, ds \subseteq Int, \A d \in ds : drives[d].capacity \in Nat
    PROVE  \A a, b, c \in ds :
            /\ ~ Precedes(drives, a, a)
            /\ a # b => Precedes(drives, a, b) \/ Precedes(drives, b, a)
            /\ Precedes(drives, a, b) /\ Precedes(drives, b, c) => Precedes(drives, a, c)
<1> SUFFICES ASSUME NEW a \in ds, NEW b \in ds, NEW c \in ds
             PROVE  /\ ~ Precedes(drives, a, a)
                    /\ a # b => Precedes(drives, a, b) \/ Precedes(drives, b, a)
                    /\ Precedes(drives, a, b) /\ Precedes(drives, b, c) => Precedes(drives, a, c)
    OBVIOUS
<1>1. PICK x \in Nat : x = drives[a].capacity
    OBVIOUS
<1>2. PICK y \in Nat : y = drives[b].capacity
    OBVIOUS
<1>3. PICK z \in Nat : z = drives[c].capacity
    OBVIOUS
<1>4. a \in Int /\ b \in Int /\ c \in Int
    OBVIOUS
<1> QED BY <1>1, <1>2, <1>3, <1>4 DEF Precedes

\* The sorted disks are all the disks, each once, in that order.
LEMMA SortedIsInOrder ==
    ASSUME NEW drives, NEW ds, IsFiniteSet(ds), ds \subseteq Int,
           \A d \in ds : drives[d].capacity \in Nat
    PROVE  /\ SortedByCapacity(drives, ds) \in [1..Cardinality(ds) -> ds]
           /\ \A i, j \in 1..Cardinality(ds) : i < j =>
                Precedes(drives, SortedByCapacity(drives, ds)[i], SortedByCapacity(drives, ds)[j])
           /\ \A d \in ds : \E i \in 1..Cardinality(ds) : SortedByCapacity(drives, ds)[i] = d
<1> DEFINE n == Cardinality(ds)
           before(d) == {e \in ds : Precedes(drives, e, d)}
           place == [d \in ds |-> Cardinality(before(d)) + 1]
           sorted == SortedByCapacity(drives, ds)
<1>1. n \in Nat
    BY FS_CardinalityType
<1>2. ASSUME NEW d \in ds PROVE place[d] \in 1..n
    <2>1. IsFiniteSet(ds \ {d}) /\ Cardinality(ds \ {d}) = n - 1
        BY FS_RemoveElement
    <2>2. before(d) \subseteq ds \ {d}
        BY PrecedesIsTotal
    <2>3. IsFiniteSet(before(d)) /\ Cardinality(before(d)) <= n - 1
        BY <2>1, <2>2, FS_Subset
    <2>4. Cardinality(before(d)) \in Nat
        BY <2>3, FS_CardinalityType
    <2> HIDE DEF before
    <2> QED BY <1>1, <2>3, <2>4
<1>3. ASSUME NEW d \in ds, NEW e \in ds, Precedes(drives, d, e)
      PROVE  place[d] < place[e]
    <2>1. before(d) \subseteq before(e) /\ d \in before(e) /\ d \notin before(d)
        BY <1>3, PrecedesIsTotal
    <2>2. IsFiniteSet(before(d)) /\ IsFiniteSet(before(e))
        BY FS_Subset
    <2>3. Cardinality(before(d)) \in Nat /\ Cardinality(before(e)) \in Nat
        BY <2>2, FS_CardinalityType
    <2> HIDE DEF before
    <2>4. Cardinality(before(d)) <= Cardinality(before(e)) /\ Cardinality(before(d)) # Cardinality(before(e))
        BY <2>1, <2>2, FS_Subset
    <2> QED BY <2>3, <2>4
<1>4. place \in Injection(ds, 1..n)
    <2>1. place \in [ds -> 1..n]
        <3> HIDE DEF n
        <3> QED BY <1>2
    <2>2. ASSUME NEW d \in ds, NEW e \in ds, place[d] = place[e] PROVE d = e
        <3>1. place[d] \in Int
            BY <1>1, <1>2
        <3>2. d # e => Precedes(drives, d, e) \/ Precedes(drives, e, d)
            BY PrecedesIsTotal
        <3>3. ~ (place[d] < place[e]) /\ ~ (place[e] < place[d])
            <4> HIDE DEF place
            <4> QED BY <2>2, <3>1
        <3> HIDE DEF place
        <3> QED BY <1>3, <3>2, <3>3
    <2> HIDE DEF place, n
    <2> QED BY <2>1, <2>2 DEF Injection, IsInjective
<1>5. \A i \in 1..n : \E d \in ds : place[d] = i
    <2>1. IsFiniteSet(1..n) /\ Cardinality(1..n) = n
        BY <1>1, FS_Interval
    <2>2. place \in Surjection(ds, 1..n)
        <3> HIDE DEF place
        <3> QED BY <1>4, <2>1, FS_Injection
    <2> HIDE DEF place, n
    <2> QED BY <2>2 DEF Surjection
<1>6. ASSUME NEW i \in 1..n PROVE sorted[i] \in ds /\ place[sorted[i]] = i
    <2>1. PICK d \in ds : place[d] = i
        BY <1>5
    <2>2. Cardinality(before(d)) \in Nat
        <3>1. IsFiniteSet(before(d))
            BY FS_Subset
        <3> QED BY <3>1, FS_CardinalityType
    <2>3. Cardinality(before(d)) = i - 1
        <3>1. place[d] = Cardinality(before(d)) + 1
            OBVIOUS
        <3> HIDE DEF before, place
        <3> QED BY <1>1, <2>1, <2>2, <3>1
    <2>4. sorted[i] = CHOOSE e \in ds : Cardinality(before(e)) = i - 1
        BY Zenon DEF SortedByCapacity
    <2>5. sorted[i] \in ds /\ Cardinality(before(sorted[i])) = i - 1
        <3> HIDE DEF before, sorted
        <3> QED BY <2>3, <2>4
    <2>6. place[sorted[i]] = Cardinality(before(sorted[i])) + 1
        <3> HIDE DEF before, sorted
        <3> QED BY <2>5
    <2> HIDE DEF before, sorted, place
    <2> QED BY <1>1, <2>5, <2>6
<1>7. sorted \in [1..n -> ds]
    <2>1. sorted = [i \in 1..n |-> sorted[i]]
        BY DEF SortedByCapacity
    <2> HIDE DEF sorted, n
    <2> QED BY <1>6, <2>1
<1>8. ASSUME NEW i \in 1..n, NEW j \in 1..n, i < j
      PROVE  Precedes(drives, sorted[i], sorted[j])
    <2> HIDE DEF sorted, place
    <2>1. /\ sorted[i] \in ds /\ sorted[j] \in ds
          /\ place[sorted[i]] = i /\ place[sorted[j]] = j
        BY <1>6
    <2>2. ~ Precedes(drives, sorted[j], sorted[i]) /\ sorted[i] # sorted[j]
        <3>1. i \in Int /\ j \in Int /\ ~ (j < i) /\ i # j
            BY <1>1, <1>8
        <3> QED BY <1>3, <2>1, <3>1
    <2> QED BY <2>1, <2>2, PrecedesIsTotal
<1>9. ASSUME NEW d \in ds PROVE \E i \in 1..n : sorted[i] = d
    <2> HIDE DEF sorted, place
    <2>1. place[d] \in 1..n
        BY <1>2
    <2>2. sorted[place[d]] \in ds /\ place[sorted[place[d]]] = place[d]
        BY <1>6, <2>1
    <2>3. sorted[place[d]] = d
        BY <1>4, <2>2 DEF Injection, IsInjective
    <2> QED BY <2>1, <2>3
<1> HIDE DEF sorted, n
<1>10. QED
    <2>1. n = Cardinality(ds) /\ sorted = SortedByCapacity(drives, ds)
        BY DEF n, sorted
    <2> QED BY <1>7, <1>8, <1>9, <2>1

----------------------------------------------------------------------------
(* Windows.                                                                 *)

\* The disks of a window of n disks, as a set.
WindowSet(drives, ds, i, n) == {SortedByCapacity(drives, ds)[k] : k \in i..(i + n - 1)}

\* A disk that is no larger than the others is the smallest.
LEMMA SmallestIs ==
    ASSUME NEW drives, NEW S, \A d \in S : drives[d].capacity \in Nat,
           NEW x \in S, \A d \in S : drives[x].capacity <= drives[d].capacity
    PROVE  Smallest(drives, S) = drives[x].capacity
<1> DEFINE C == {drives[d].capacity : d \in S}
           m == drives[x].capacity
<1>1. m \in C /\ C \subseteq Nat /\ \A c \in C : m <= c
    OBVIOUS
<1> HIDE DEF C, m
<1>2. Min(C) = m
    <2>1. \A c \in C : (\A b \in C : c <= b) => c = m
        BY <1>1
    <2> QED BY <1>1, <2>1 DEF Min
<1> QED BY <1>2 DEF Smallest, C, m

\* Later disks are no smaller.
LEMMA SortedIsMonotone ==
    ASSUME NEW drives, NEW ds, IsFiniteSet(ds), ds \subseteq Int,
           \A d \in ds : drives[d].capacity \in Nat,
           NEW i \in 1..Cardinality(ds), NEW j \in 1..Cardinality(ds), i <= j
    PROVE  drives[SortedByCapacity(drives, ds)[i]].capacity
            <= drives[SortedByCapacity(drives, ds)[j]].capacity
<1> DEFINE s == SortedByCapacity(drives, ds)
           n == Cardinality(ds)
<1>1. s \in [1..n -> ds] /\ \A k, l \in 1..n : k < l => Precedes(drives, s[k], s[l])
    BY SortedIsInOrder, Zenon
<1>2. n \in Nat
    BY FS_CardinalityType
<1> HIDE DEF s, n
<1>3. i \in 1..n /\ j \in 1..n
    BY DEF n
<1>4. drives[s[i]].capacity <= drives[s[j]].capacity
    <2>1. PICK x \in Nat : x = drives[s[i]].capacity
        BY <1>1, <1>3
    <2>2. PICK y \in Nat : y = drives[s[j]].capacity
        BY <1>1, <1>3
    <2>3. CASE i = j
        BY <2>1, <2>3
    <2>4. CASE i < j
        <3>1. Precedes(drives, s[i], s[j])
            BY <1>1, <1>3, <2>4
        <3> QED BY <2>1, <2>2, <3>1 DEF Precedes
    <2> QED BY <1>2, <1>3, <2>3, <2>4
<1> QED BY <1>4 DEF s

\* What is true of every window.
WindowHolds(drives, ds, i, n) ==
    LET W == WindowSet(drives, ds, i, n)
        s == SortedByCapacity(drives, ds)
    IN  /\ W \subseteq ds /\ s[i] \in W
        /\ IsFiniteSet(W) /\ Cardinality(W) = n
        /\ Smallest(drives, W) = drives[s[i]].capacity
        /\ \A d \in W : drives[d].capacity <= drives[s[i + n - 1]].capacity

\* A window has n disks, the first of which is the smallest.
LEMMA WindowFacts ==
    ASSUME NEW drives, NEW ds, IsFiniteSet(ds), ds \subseteq Int,
           \A d \in ds : drives[d].capacity \in Nat,
           NEW n \in Nat \ {0}, NEW i \in Nat \ {0}, i + n - 1 <= Cardinality(ds)
    PROVE  WindowHolds(drives, ds, i, n)
<1> DEFINE s == SortedByCapacity(drives, ds)
           N == Cardinality(ds)
           I == i..(i + n - 1)
           W == WindowSet(drives, ds, i, n)
<1>1. /\ s \in [1..N -> ds]
      /\ \A k, l \in 1..N : k < l => Precedes(drives, s[k], s[l])
    BY SortedIsInOrder, Zenon
<1>2. N \in Nat
    BY FS_CardinalityType
<1>3. \A k, l \in 1..N : k <= l => drives[s[k]].capacity <= drives[s[l]].capacity
    BY SortedIsMonotone
<1>4. W = {s[k] : k \in I}
    BY DEF WindowSet
<1> HIDE DEF s, W
<1>5. i + n - 1 <= N
    OBVIOUS
<1> HIDE DEF N
<1>6. I \subseteq 1..N /\ i \in I /\ i + n - 1 \in I
    BY <1>2, <1>5
<1>7. W \subseteq ds /\ s[i] \in W
    BY <1>1, <1>4, <1>6
<1>8. IsFiniteSet(W) /\ Cardinality(W) = n
    <2>1. IsFiniteSet(I) /\ Cardinality(I) = n
        BY FS_Interval
    <2> DEFINE f == [k \in I |-> s[k]]
    <2>2. ASSUME NEW k \in I, NEW l \in I, s[k] = s[l] PROVE k = l
        <3>1. k \in Int /\ l \in Int /\ k \in 1..N /\ l \in 1..N
            BY <1>6
        <3>2. ~ Precedes(drives, s[k], s[k])
            BY <1>1, <3>1, PrecedesIsTotal
        <3>3. ~ (k < l) /\ ~ (l < k)
            BY <1>1, <2>2, <3>1, <3>2
        <3> QED BY <3>1, <3>3
    <2>3. f \in Bijection(I, W)
        <3> HIDE DEF I
        <3>1. f \in [I -> W]
            BY <1>4
        <3>2. IsInjective(f)
            BY <2>2 DEF IsInjective
        <3>3. \A w \in W : \E k \in I : f[k] = w
            BY <1>4
        <3> QED BY <3>1, <3>2, <3>3 DEF Bijection, Injection, Surjection
    <2> HIDE DEF f, I
    <2> QED BY <2>1, <2>3, FS_Bijection DEF ExistsBijection
<1>9. ASSUME NEW d \in W
      PROVE  drives[s[i]].capacity <= drives[d].capacity /\ drives[d].capacity <= drives[s[i + n - 1]].capacity
    <2>1. PICK k \in I : d = s[k]
        BY <1>4
    <2>2. k \in 1..N /\ i \in 1..N /\ i + n - 1 \in 1..N /\ i <= k /\ k <= i + n - 1
        BY <1>6
    <2> QED BY <1>3, <2>1, <2>2
<1>10. Smallest(drives, W) = drives[s[i]].capacity
    BY <1>7, <1>9, SmallestIs
<1> QED BY <1>7, <1>8, <1>9, <1>10 DEF W, s, WindowHolds

\* Every disk is somewhere in the order.
HasAll(drives, ds) ==
    /\ SortedByCapacity(drives, ds) \in [1..Cardinality(ds) -> ds]
    /\ \A d \in ds : \E k \in 1..Cardinality(ds) : SortedByCapacity(drives, ds)[k] = d

LEMMA SortedHasAll ==
    ASSUME NEW drives, NEW ds, IsFiniteSet(ds), ds \subseteq Int,
           \A d \in ds : drives[d].capacity \in Nat
    PROVE  HasAll(drives, ds)
BY SortedIsInOrder DEF HasAll

\* Of the sets of at least n disks that start at the i-th, none has a smaller
\* total or a smaller waste than the window there.
LEMMA WindowIsLeast ==
    ASSUME NEW drives, NEW ds, IsFiniteSet(ds), ds \subseteq Int,
           \A d \in ds : drives[d].capacity \in Nat,
           NEW n \in Nat \ {0}, NEW i \in Nat \ {0}, i + n - 1 <= Cardinality(ds),
           NEW t \in SUBSET ds, Cardinality(t) >= n,
           SortedByCapacity(drives, ds)[i] \in t,
           \A k \in 1..(i - 1) : SortedByCapacity(drives, ds)[k] \notin t
    PROVE  /\ Smallest(drives, t) = Smallest(drives, WindowSet(drives, ds, i, n))
           /\ DisksTotal(drives, WindowSet(drives, ds, i, n)) <= DisksTotal(drives, t)
           /\ Waste(drives, WindowSet(drives, ds, i, n)) <= Waste(drives, t)
<1>0. WindowHolds(drives, ds, i, n) /\ HasAll(drives, ds)
    BY WindowFacts, SortedHasAll
<1> DEFINE s == SortedByCapacity(drives, ds)
           N == Cardinality(ds)
           W == WindowSet(drives, ds, i, n)
           A == W \ t
           B == t \ W
           C == W \cap t
<1>1. /\ s \in [1..N -> ds]
      /\ \A d \in ds : \E k \in 1..N : s[k] = d
    BY <1>0 DEF HasAll
<1>2. N \in Nat
    BY FS_CardinalityType
<1>3. \A k, l \in 1..N : k <= l => drives[s[k]].capacity <= drives[s[l]].capacity
    BY SortedIsMonotone
<1>4. /\ W \subseteq ds /\ IsFiniteSet(W) /\ Cardinality(W) = n
      /\ Smallest(drives, W) = drives[s[i]].capacity
      /\ \A d \in W : drives[d].capacity <= drives[s[i + n - 1]].capacity
    BY <1>0 DEF WindowHolds
<1>5. W = {s[k] : k \in i..(i + n - 1)}
    BY DEF WindowSet
<1>6. /\ i \in 1..N /\ i + n - 1 \in 1..N
      /\ s[i] \in t /\ \A k \in 1..(i - 1) : s[k] \notin t
    BY <1>2
<1> HIDE DEF s, W, N
<1>7. \A d \in t : \E k \in 1..N : s[k] = d /\ k >= i
    <2> SUFFICES ASSUME NEW d \in t PROVE \E k \in 1..N : s[k] = d /\ k >= i
        OBVIOUS
    <2>1. PICK k \in 1..N : s[k] = d
        BY <1>1
    <2>2. k \notin 1..(i - 1)
        BY <1>6, <2>1
    <2> QED BY <1>2, <2>1, <2>2
<1>8. Smallest(drives, t) = drives[s[i]].capacity
    <2>1. \A d \in t : drives[s[i]].capacity <= drives[d].capacity
        BY <1>3, <1>6, <1>7
    <2> QED BY <1>6, <2>1, SmallestIs
<1>9. \A d \in B : drives[d].capacity >= drives[s[i + n - 1]].capacity
    <2> SUFFICES ASSUME NEW d \in B PROVE drives[d].capacity >= drives[s[i + n - 1]].capacity
        OBVIOUS
    <2>1. PICK k \in 1..N : s[k] = d /\ k >= i
        BY <1>7
    <2>2. k \notin i..(i + n - 1)
        BY <1>5, <2>1
    <2>3. k \in Int /\ i + n - 1 <= k
        BY <1>2, <2>1, <2>2
    <2>4. drives[s[i + n - 1]].capacity <= drives[s[k]].capacity
        BY <1>3, <1>6, <2>1, <2>3
    <2>5. drives[d].capacity \in Nat /\ drives[s[i + n - 1]].capacity \in Nat
        BY <1>1, <1>6
    <2> QED BY <2>1, <2>4, <2>5
<1>10. IsFiniteSet(t) /\ IsFiniteSet(A) /\ IsFiniteSet(B) /\ IsFiniteSet(C)
    BY <1>4, FS_Subset
<1>11. W = C \cup A /\ t = C \cup B /\ C \cap A = {} /\ C \cap B = {}
    OBVIOUS
<1>12. PICK c \in Nat : c = drives[s[i + n - 1]].capacity
    BY <1>1, <1>6
<1>13. PICK x \in Nat : x = drives[s[i]].capacity
    BY <1>1, <1>6
<1>14. x <= c
    BY <1>3, <1>6, <1>12, <1>13
<1>15. PICK a \in Nat, b \in Nat, e \in Nat :
            a = Cardinality(A) /\ b = Cardinality(B) /\ e = Cardinality(C)
    BY <1>10, FS_CardinalityType
<1>16. n = e + a /\ Cardinality(t) = e + b
    <2>1. Cardinality(C \cup A) = e + a /\ Cardinality(C \cup B) = e + b
        <3>1. Cardinality(C \cup A) = Cardinality(C) + Cardinality(A) - Cardinality(C \cap A)
            BY <1>10, FS_Union
        <3>2. Cardinality(C \cup B) = Cardinality(C) + Cardinality(B) - Cardinality(C \cap B)
            BY <1>10, FS_Union
        <3>3. Cardinality(C \cap A) = 0 /\ Cardinality(C \cap B) = 0
            BY <1>11, FS_EmptySet
        <3> HIDE DEF A, B, C
        <3> QED BY <1>15, <3>1, <3>2, <3>3
    <2>2. Cardinality(W) = Cardinality(C \cup A) /\ Cardinality(t) = Cardinality(C \cup B)
        BY <1>11
    <2> QED BY <1>4, <2>1, <2>2
<1>17. PICK y \in Nat, z \in Nat, w \in Nat :
            /\ y = DisksTotal(drives, A) /\ z = DisksTotal(drives, B) /\ w = DisksTotal(drives, C)
            /\ y <= c * a /\ z >= c * b
    <2>1. /\ DisksTotal(drives, A) \in Nat /\ DisksTotal(drives, B) \in Nat
          /\ DisksTotal(drives, C) \in Nat
        <3>1. /\ \A d \in A : drives[d].capacity \in Nat
              /\ \A d \in B : drives[d].capacity \in Nat
              /\ \A d \in C : drives[d].capacity \in Nat
            BY <1>4
        <3> HIDE DEF A, B, C
        <3> QED BY <1>10, <3>1, TotalTakesOut
    <2>2. DisksTotal(drives, A) <= c * Cardinality(A)
        <3>1. \A d \in A : drives[d].capacity \in Nat /\ drives[d].capacity <= c
            BY <1>4, <1>12
        <3> HIDE DEF A
        <3> QED BY <1>10, <3>1, TotalIsBetween
    <2>3. DisksTotal(drives, B) >= c * Cardinality(B)
        <3>1. \A d \in B : drives[d].capacity \in Nat /\ drives[d].capacity >= c
            BY <1>9, <1>12
        <3> HIDE DEF B
        <3> QED BY <1>10, <3>1, TotalIsBetween
    <2> HIDE DEF A, B, C
    <2> QED BY <1>15, <2>1, <2>2, <2>3
<1>18. DisksTotal(drives, W) = w + y /\ DisksTotal(drives, t) = w + z
    <2>1. DisksTotal(drives, C \cup A) = DisksTotal(drives, C) + DisksTotal(drives, A)
        <3>1. \A d \in C \cup A : drives[d].capacity \in Nat
            BY <1>4
        <3> HIDE DEF A, C
        <3> QED BY <1>10, <1>11, <3>1, TotalSplits
    <2>2. DisksTotal(drives, C \cup B) = DisksTotal(drives, C) + DisksTotal(drives, B)
        <3>1. \A d \in C \cup B : drives[d].capacity \in Nat
            BY <1>4
        <3> HIDE DEF B, C
        <3> QED BY <1>10, <1>11, <3>1, TotalSplits
    <2>3. /\ DisksTotal(drives, W) = DisksTotal(drives, C \cup A)
          /\ DisksTotal(drives, t) = DisksTotal(drives, C \cup B)
        BY <1>11
    <2> HIDE DEF A, B, C
    <2> QED BY <1>17, <2>1, <2>2, <2>3
<1>19. b >= a
    BY <1>15, <1>16
<1>20. y <= z /\ (w + y) - x * (e + a) <= (w + z) - x * (e + b)
    <2> HIDE DEF A, B, C
    <2>1. PICK r \in Nat : b = a + r
        <3>1. b - a \in Nat /\ b = a + (b - a)
            BY <1>19
        <3> QED BY <3>1
    <2>2. c * b = c * a + c * r /\ x * (e + b) = x * (e + a) + x * r
        BY <2>1
    <2>3. x * r <= c * r
        BY <1>14
    <2>4. PICK ca \in Nat, cr \in Nat, xr \in Nat, xea \in Nat :
            ca = c * a /\ cr = c * r /\ xr = x * r /\ xea = x * (e + a)
        OBVIOUS
    <2>5. y <= ca /\ z >= ca + cr /\ xr <= cr
        BY <1>17, <2>2, <2>3, <2>4
    <2>6. y <= z /\ (w + y) - xea <= (w + z) - (xea + xr)
        BY <2>5
    <2> QED BY <2>2, <2>4, <2>6
<1>21. DisksTotal(drives, W) <= DisksTotal(drives, t)
    BY <1>18, <1>20
<1>22. Waste(drives, W) <= Waste(drives, t)
    <2>1. Waste(drives, W) = (w + y) - x * (e + a)
        BY <1>4, <1>13, <1>16, <1>18 DEF Waste
    <2>2. Waste(drives, t) = (w + z) - x * (e + b)
        BY <1>8, <1>13, <1>16, <1>18 DEF Waste
    <2> QED BY <1>20, <2>1, <2>2
<1> QED BY <1>4, <1>8, <1>21, <1>22 DEF W

----------------------------------------------------------------------------
(* Comparing solutions.                                                     *)

\* A rank is four numbers.
IsRank(r) == r[1] \in Int /\ r[2] \in Int /\ r[3] \in Int /\ r[4] \in Int

\* Before is their lexicographic order.
Lex(r, q) == \/ r[1] < q[1]
             \/ r[1] = q[1] /\ r[2] < q[2]
             \/ r[1] = q[1] /\ r[2] = q[2] /\ r[3] < q[3]
             \/ r[1] = q[1] /\ r[2] = q[2] /\ r[3] = q[3] /\ r[4] < q[4]

LEMMA BeforeIsLex ==
    ASSUME NEW r, NEW q, IsRank(r), IsRank(q)
    PROVE  Before(r, q) <=> Lex(r, q)
<1> DEFINE Less(i) == r[i] < q[i] /\ \A j \in 1..(i - 1) : r[j] = q[j]
<1>1. Before(r, q) <=> \E i \in {1, 2, 3, 4} : Less(i)
    <2>1. 1..4 = {1, 2, 3, 4}
        OBVIOUS
    <2> QED BY <2>1 DEF Before
<1>2. 1..0 = {} /\ 1..1 = {1} /\ 1..2 = {1, 2} /\ 1..3 = {1, 2, 3}
    OBVIOUS
<1>3. /\ Less(1) <=> r[1] < q[1]
      /\ Less(2) <=> r[1] = q[1] /\ r[2] < q[2]
      /\ Less(3) <=> r[1] = q[1] /\ r[2] = q[2] /\ r[3] < q[3]
      /\ Less(4) <=> r[1] = q[1] /\ r[2] = q[2] /\ r[3] = q[3] /\ r[4] < q[4]
    BY <1>2
<1> HIDE DEF Less
<1>4. (\E i \in {1, 2, 3, 4} : Less(i)) <=> Less(1) \/ Less(2) \/ Less(3) \/ Less(4)
    OBVIOUS
<1> QED BY <1>1, <1>3, <1>4 DEF Lex

\* What does not beat is a total order of ranks.
LEMMA RanksAreOrdered ==
    ASSUME NEW r, NEW q, NEW p, IsRank(r), IsRank(q), IsRank(p)
    PROVE  /\ ~ Before(r, r)
           /\ Before(r, q) => ~ Before(q, r)
           /\ ~ Before(q, r) /\ ~ Before(p, q) => ~ Before(p, r)
<1>1. /\ ~ Lex(r, r)
      /\ Lex(r, q) => ~ Lex(q, r)
      /\ ~ Lex(q, r) /\ ~ Lex(p, q) => ~ Lex(p, r)
    <2>1. PICK r1 \in Int, r2 \in Int, r3 \in Int, r4 \in Int :
            r1 = r[1] /\ r2 = r[2] /\ r3 = r[3] /\ r4 = r[4]
        BY DEF IsRank
    <2>2. PICK q1 \in Int, q2 \in Int, q3 \in Int, q4 \in Int :
            q1 = q[1] /\ q2 = q[2] /\ q3 = q[3] /\ q4 = q[4]
        BY DEF IsRank
    <2>3. PICK p1 \in Int, p2 \in Int, p3 \in Int, p4 \in Int :
            p1 = p[1] /\ p2 = p[2] /\ p3 = p[3] /\ p4 = p[4]
        BY DEF IsRank
    <2> QED BY <2>1, <2>2, <2>3 DEF Lex
<1>2. /\ Before(r, r) <=> Lex(r, r)
      /\ Before(r, q) <=> Lex(r, q)
      /\ Before(q, r) <=> Lex(q, r)
      /\ Before(p, q) <=> Lex(p, q)
      /\ Before(p, r) <=> Lex(p, r)
    BY BeforeIsLex
<1> QED BY <1>1, <1>2

\* Disks in the order of sorted(), once each.
InOrder(drives, disks) ==
    /\ Len(disks) \in Nat \ {0}
    /\ disks \in [1..Len(disks) -> DOMAIN drives]
    /\ \A i, j \in 1..Len(disks) : i < j => Precedes(drives, disks[i], disks[j])

\* Drives as the solver gets them.
AreDrives(drives) ==
    /\ IsFiniteSet(DOMAIN drives) /\ DOMAIN drives \subseteq Int
    /\ \A d \in DOMAIN drives : drives[d].capacity \in Nat

\* The disks in order are as many as the sequence is long, and its first is
\* the smallest.
LEMMA InOrderFacts ==
    ASSUME NEW drives, AreDrives(drives), NEW disks, InOrder(drives, disks)
    PROVE  /\ ToSet(disks) \subseteq DOMAIN drives /\ ToSet(disks) # {}
           /\ IsFiniteSet(ToSet(disks)) /\ Cardinality(ToSet(disks)) = Len(disks)
           /\ Smallest(drives, ToSet(disks)) = drives[disks[1]].capacity
           /\ IsInjective(disks) /\ DOMAIN disks = 1..Len(disks)
           /\ \A i, j \in 1..Len(disks) :
                i < j => drives[disks[i]].capacity <= drives[disks[j]].capacity
<1> DEFINE n == Len(disks)
           S == ToSet(disks)
<1>1. /\ n \in Nat /\ n >= 1 /\ disks \in [1..n -> DOMAIN drives]
      /\ \A i, j \in 1..n : i < j => Precedes(drives, disks[i], disks[j])
    BY DEF InOrder
<1> HIDE DEF n
<1>2. S = {disks[i] : i \in 1..n}
    BY <1>1 DEF ToSet
<1> HIDE DEF S
<1>3. S \subseteq DOMAIN drives /\ 1 \in 1..n /\ disks[1] \in S
    BY <1>1, <1>2
<1>4. IsFiniteSet(S)
    BY <1>3, FS_Subset DEF AreDrives
<1>5. ASSUME NEW i \in 1..n, NEW j \in 1..n, disks[i] = disks[j] PROVE i = j
    <2>1. i \in Int /\ j \in Int
        OBVIOUS
    <2>2. ~ Precedes(drives, disks[i], disks[i])
        BY <1>1, PrecedesIsTotal DEF AreDrives
    <2>3. ~ (i < j) /\ ~ (j < i)
        BY <1>1, <1>5, <2>2
    <2> QED BY <2>1, <2>3
<1>6. IsInjective(disks)
    BY <1>1, <1>5 DEF IsInjective
<1>7. Cardinality(S) = n
    <2>1. IsFiniteSet(1..n) /\ Cardinality(1..n) = n
        BY <1>1, FS_Interval
    <2>2. disks \in [1..n -> S]
        BY <1>1, <1>2
    <2>3. disks \in Bijection(1..n, S)
        BY <1>2, <1>6, <2>2 DEF Bijection, Injection, Surjection
    <2> QED BY <2>1, <2>3, FS_Bijection DEF ExistsBijection
<1>8. ASSUME NEW i \in 1..n, NEW j \in 1..n, i < j
      PROVE  drives[disks[i]].capacity <= drives[disks[j]].capacity
    <2>1. PICK x \in Nat : x = drives[disks[i]].capacity
        BY <1>1 DEF AreDrives
    <2>2. PICK y \in Nat : y = drives[disks[j]].capacity
        BY <1>1 DEF AreDrives
    <2>3. Precedes(drives, disks[i], disks[j])
        BY <1>1, <1>8
    <2> QED BY <2>1, <2>2, <2>3 DEF Precedes
<1>9. \A d \in S : drives[disks[1]].capacity <= drives[d].capacity
    <2> SUFFICES ASSUME NEW d \in S PROVE drives[disks[1]].capacity <= drives[d].capacity
        OBVIOUS
    <2>1. PICK i \in 1..n : d = disks[i]
        BY <1>2
    <2>2. CASE i = 1
        <3>1. drives[d].capacity \in Nat
            BY <1>3 DEF AreDrives
        <3> QED BY <2>1, <2>2, <3>1
    <2>3. CASE i # 1
        <3>1. 1 < i
            BY <2>1, <2>3
        <3> QED BY <1>3, <1>8, <2>1, <3>1
    <2> QED BY <2>2, <2>3
<1>10. Smallest(drives, S) = drives[disks[1]].capacity
    <2>1. \A d \in S : drives[d].capacity \in Nat
        BY <1>3 DEF AreDrives
    <2> QED BY <1>3, <1>9, <2>1, SmallestIs
<1>11. DOMAIN disks = 1..n
    BY <1>1
<1> QED BY <1>3, <1>4, <1>6, <1>7, <1>8, <1>10, <1>11 DEF n, S

\* What RaidSolution computes of its list of disks is what an array of them has.
LEMMA SolutionAttributes ==
    ASSUME NEW drives, AreDrives(drives), NEW level, NEW s, InOrder(drives, s.disks)
    PROVE  /\ disks_total_bytes(drives, s) = DisksTotal(drives, AsSolution(s).disks)
           /\ disks_waste_bytes(drives, s) = Waste(drives, AsSolution(s).disks)
           /\ Len(s.disks) = Cardinality(AsSolution(s).disks)
           /\ raid_total_bytes(drives, level, s)
                = ArrayCapacity(drives, level, AsSolution(s).span, AsSolution(s).disks)
<1>1. /\ Cardinality(ToSet(s.disks)) = Len(s.disks)
      /\ Smallest(drives, ToSet(s.disks)) = drives[s.disks[1]].capacity
    BY InOrderFacts
<1>2. AsSolution(s).disks = ToSet(s.disks) /\ AsSolution(s).span = s.span
    BY DEF AsSolution
<1>3. disks_min_bytes(drives, s) = Smallest(drives, ToSet(s.disks))
    BY <1>1 DEF disks_min_bytes
<1>4. disks_total_bytes(drives, s) = DisksTotal(drives, ToSet(s.disks))
    BY DEF disks_total_bytes
<1>5. disks_waste_bytes(drives, s) = Waste(drives, ToSet(s.disks))
    BY <1>1, <1>3, <1>4, Zenon DEF disks_waste_bytes, Waste
<1>6. raid_total_bytes(drives, level, s) = ArrayCapacity(drives, level, s.span, ToSet(s.disks))
    BY <1>1, <1>3, Zenon DEF raid_total_bytes, ArrayCapacity
<1> QED BY <1>1, <1>2, <1>4, <1>5, <1>6

\* The rank of an array is four numbers.
LEMMA RankIsRank ==
    ASSUME NEW drives, AreDrives(drives), NEW level \in DOMAIN RAID_SETTINGS, NEW target, NEW t,
           t.span \in Spans(level), t.disks \subseteq DOMAIN drives, t.disks # {}
    PROVE  /\ IsRank(Rank(drives, level, target, t))
           /\ Rank(drives, level, target, t)[1] =
                IF target = MAX_CAPACITY THEN - ArrayCapacity(drives, level, t.span, t.disks) ELSE 0
           /\ Rank(drives, level, target, t)[2] = Waste(drives, t.disks)
           /\ Rank(drives, level, target, t)[3] = DisksTotal(drives, t.disks)
           /\ Rank(drives, level, target, t)[4] = Cardinality(t.disks)
<1>1. IsFiniteSet(t.disks) /\ \A d \in t.disks : drives[d].capacity \in Nat
    BY FS_Subset DEF AreDrives
<1>2. PICK small \in Nat : small = Smallest(drives, t.disks)
    BY <1>1, SmallestIsOne
<1>3. PICK n \in Nat : n = Cardinality(t.disks)
    BY <1>1, FS_CardinalityType
<1>4. PICK sum \in Nat : sum = DisksTotal(drives, t.disks)
    BY <1>1, TotalTakesOut
<1>5. PICK size \in Int : size = ArrayCapacity(drives, level, t.span, t.disks)
    BY <1>1, CapacityIsInt
<1>6. PICK w \in Int : w = Waste(drives, t.disks)
    BY <1>2, <1>3, <1>4 DEF Waste
<1>7. PICK f \in Int : f = IF target = MAX_CAPACITY THEN - ArrayCapacity(drives, level, t.span, t.disks) ELSE 0
    BY <1>5
<1>8. Rank(drives, level, target, t) = <<f, w, sum, n>>
    BY <1>3, <1>4, <1>6, <1>7, Zenon DEF Rank
<1>9. IsRank(<<f, w, sum, n>>)
    BY DEF IsRank
<1> QED BY <1>3, <1>4, <1>6, <1>7, <1>8, <1>9

\* waste_less_than compares the waste, then the total, then the number of disks.
LEMMA WasteLess ==
    ASSUME NEW drives, NEW s, NEW o,
           NEW w \in Int, w = disks_waste_bytes(drives, s),
           NEW v \in Int, v = disks_waste_bytes(drives, o),
           NEW t \in Int, t = disks_total_bytes(drives, s),
           NEW u \in Int, u = disks_total_bytes(drives, o),
           NEW n \in Int, n = Len(s.disks), NEW m \in Int, m = Len(o.disks)
    PROVE  waste_less_than(drives, s, o)
            <=> w < v \/ (w = v /\ t < u) \/ (w = v /\ t = u /\ n < m)
<1> DEFINE key(a) == <<disks_waste_bytes(drives, a), disks_total_bytes(drives, a), Len(a.disks)>>
           Less(i) == key(s)[i] < key(o)[i] /\ \A j \in 1..(i - 1) : key(s)[j] = key(o)[j]
<1>1. waste_less_than(drives, s, o) <=> \E i \in {1, 2, 3} : Less(i)
    <2>1. 1..3 = {1, 2, 3}
        OBVIOUS
    <2> QED BY <2>1 DEF waste_less_than
<1>2. 1..0 = {} /\ 1..1 = {1} /\ 1..2 = {1, 2}
    OBVIOUS
<1>3. /\ key(s)[1] = w /\ key(s)[2] = t /\ key(s)[3] = n
      /\ key(o)[1] = v /\ key(o)[2] = u /\ key(o)[3] = m
    OBVIOUS
<1> HIDE DEF key
<1>4. /\ Less(1) <=> w < v
      /\ Less(2) <=> w = v /\ t < u
      /\ Less(3) <=> w = v /\ t = u /\ n < m
    BY <1>2, <1>3
<1> HIDE DEF Less
<1>5. (\E i \in {1, 2, 3} : Less(i)) <=> Less(1) \/ Less(2) \/ Less(3)
    OBVIOUS
<1> QED BY <1>1, <1>4, <1>5

\* A better solution is one of a lower rank.
LEMMA BetterIsBefore ==
    ASSUME NEW drives, AreDrives(drives), NEW level \in DOMAIN RAID_SETTINGS,
           NEW target \in Nat \cup {MAX_CAPACITY},
           NEW s, s.span \in Spans(level), InOrder(drives, s.disks),
           NEW o, o # None => o.span \in Spans(level) /\ InOrder(drives, o.disks)
    PROVE  is_better_than(drives, level, target, s, o)
            <=> /\ target # 0
                /\ \/ o = None
                   \/ Before(Rank(drives, level, target, AsSolution(s)),
                             Rank(drives, level, target, AsSolution(o)))
<1>0. target \in Int /\ (target > 0 \/ target = 0 \/ target = MAX_CAPACITY) /\ MAX_CAPACITY = -1
    BY DEF MAX_CAPACITY
<1>1. CASE o = None
    BY <1>0, <1>1 DEF is_better_than
<1>2. CASE o # None
    <2> DEFINE a == AsSolution(s)
               b == AsSolution(o)
               r == Rank(drives, level, target, a)
               q == Rank(drives, level, target, b)
    <2>1. /\ a.span \in Spans(level) /\ a.disks \subseteq DOMAIN drives /\ a.disks # {}
          /\ b.span \in Spans(level) /\ b.disks \subseteq DOMAIN drives /\ b.disks # {}
        BY <1>2, InOrderFacts DEF AsSolution
    <2> HIDE DEF a, b
    <2>2. /\ IsRank(r) /\ IsRank(q)
          /\ r[1] = (IF target = MAX_CAPACITY THEN - ArrayCapacity(drives, level, a.span, a.disks) ELSE 0)
          /\ q[1] = (IF target = MAX_CAPACITY THEN - ArrayCapacity(drives, level, b.span, b.disks) ELSE 0)
          /\ r[2] = Waste(drives, a.disks) /\ q[2] = Waste(drives, b.disks)
          /\ r[3] = DisksTotal(drives, a.disks) /\ q[3] = DisksTotal(drives, b.disks)
          /\ r[4] = Cardinality(a.disks) /\ q[4] = Cardinality(b.disks)
        BY <2>1, RankIsRank
    <2>3. PICK x \in Int : x = ArrayCapacity(drives, level, a.span, a.disks)
        <3>1. IsFiniteSet(a.disks) /\ \A d \in a.disks : drives[d].capacity \in Nat
            BY <2>1, FS_Subset DEF AreDrives
        <3> QED BY <2>1, <3>1, CapacityIsInt
    <2>4. PICK y \in Int : y = ArrayCapacity(drives, level, b.span, b.disks)
        <3>1. IsFiniteSet(b.disks) /\ \A d \in b.disks : drives[d].capacity \in Nat
            BY <2>1, FS_Subset DEF AreDrives
        <3> QED BY <2>1, <3>1, CapacityIsInt
    <2>5. /\ raid_total_bytes(drives, level, s) = x
          /\ disks_waste_bytes(drives, s) = r[2]
          /\ disks_total_bytes(drives, s) = r[3]
          /\ Len(s.disks) = r[4]
        BY <2>2, <2>3, SolutionAttributes DEF a
    <2>6. /\ raid_total_bytes(drives, level, o) = y
          /\ disks_waste_bytes(drives, o) = q[2]
          /\ disks_total_bytes(drives, o) = q[3]
          /\ Len(o.disks) = q[4]
        BY <1>2, <2>2, <2>4, SolutionAttributes DEF b
    <2>7. Before(r, q) <=> Lex(r, q)
        BY <2>2, BeforeIsLex
    <2>8. waste_less_than(drives, s, o)
            <=> r[2] < q[2] \/ (r[2] = q[2] /\ r[3] < q[3])
                    \/ (r[2] = q[2] /\ r[3] = q[3] /\ r[4] < q[4])
        <3>1. /\ r[2] \in Int /\ r[3] \in Int /\ r[4] \in Int
              /\ q[2] \in Int /\ q[3] \in Int /\ q[4] \in Int
            BY <2>2 DEF IsRank
        <3> HIDE DEF r, q
        <3> QED BY <2>5, <2>6, <3>1, WasteLess
    <2> HIDE DEF r, q
    <2>9. CASE target = MAX_CAPACITY
        <3>1. r[1] = - x /\ q[1] = - y
            BY <2>2, <2>3, <2>4, <2>9
        <3>2. (r[1] < q[1] <=> x > y) /\ (r[1] = q[1] <=> x = y)
            BY <3>1
        <3>3. raid_capacity_great_than(drives, level, s, o)
                <=> x > y \/ (x = y /\ waste_less_than(drives, s, o))
            BY <2>5, <2>6 DEF raid_capacity_great_than
        <3>4. raid_capacity_great_than(drives, level, s, o) <=> Lex(r, q)
            BY <2>8, <3>2, <3>3, Zenon DEF Lex
        <3>5. is_better_than(drives, level, target, s, o) <=> raid_capacity_great_than(drives, level, s, o)
            BY <1>0, <1>2, <2>9 DEF is_better_than
        <3>6. target # 0
            BY <1>0, <2>9
        <3> QED BY <1>2, <2>7, <3>4, <3>5, <3>6, Zenon DEF r, q, a, b
    <2>10. CASE target # MAX_CAPACITY
        <3>1. r[1] = 0 /\ q[1] = 0
            BY <2>2, <2>10
        <3>2. ~ (r[1] < q[1]) /\ r[1] = q[1]
            BY <3>1
        <3>3. waste_less_than(drives, s, o) <=> Lex(r, q)
            BY <2>8, <3>2, Zenon DEF Lex
        <3>4. is_better_than(drives, level, target, s, o) <=> target # 0 /\ waste_less_than(drives, s, o)
            BY <1>0, <1>2, <2>10 DEF is_better_than
        <3> QED BY <1>2, <2>7, <3>3, <3>4, Zenon DEF r, q, a, b
    <2> QED BY <2>9, <2>10
<1> QED BY <1>1, <1>2

----------------------------------------------------------------------------
(* Numbers of disks.                                                        *)

\* A legal number of disks is a multiple of the number of spans, in limits.
LEMMA LegalCountIs ==
    ASSUME NEW level \in DOMAIN RAID_SETTINGS, NEW span0 \in Spans(level), NEW n \in Nat
    PROVE  LegalCount(level, span0, n)
            <=> /\ n % span0 = 0
                /\ n >= RAID_SETTINGS[level].min_disks * span0
                /\ n <= RAID_SETTINGS[level].max_disks * span0
<1>1. PICK low \in Nat, high \in Nat, k \in Nat \ {0} :
        low = RAID_SETTINGS[level].min_disks /\ high = RAID_SETTINGS[level].max_disks /\ k = span0
    BY LevelFacts
<1>2. CASE n % k = 0
    <2>1. PICK j \in Nat : j = n \div k
        OBVIOUS
    <2>2. n = k * j
        BY <1>2, <2>1
    <2>3. (n >= low * k <=> j >= low) /\ (n <= high * k <=> j <= high)
        <3>1. j >= low => k * j >= k * low
            OBVIOUS
        <3>2. j < low => k * j < k * low
            <4> SUFFICES ASSUME j < low PROVE k * j < k * low
                OBVIOUS
            <4>1. j + 1 <= low
                OBVIOUS
            <4>2. k * (j + 1) <= k * low /\ k * (j + 1) = k * j + k
                BY <4>1
            <4> QED BY <4>2
        <3>3. j <= high => k * j <= k * high
            OBVIOUS
        <3>4. j > high => k * j > k * high
            <4> SUFFICES ASSUME j > high PROVE k * j > k * high
                OBVIOUS
            <4>1. high + 1 <= j
                OBVIOUS
            <4>2. k * (high + 1) <= k * j /\ k * (high + 1) = k * high + k
                BY <4>1
            <4> QED BY <4>2
        <3>5. low * k = k * low /\ high * k = k * high
            OBVIOUS
        <3>6. PICK kj \in Nat, kl \in Nat, kh \in Nat :
                kj = k * j /\ kl = k * low /\ kh = k * high
            OBVIOUS
        <3> QED BY <2>2, <3>1, <3>2, <3>3, <3>4, <3>5, <3>6
    <2>4. LegalCount(level, span0, n) <=> j >= low /\ j <= high
        BY <1>1, <1>2, <2>1 DEF LegalCount
    <2> QED BY <1>1, <1>2, <2>3, <2>4
<1>3. CASE n % k # 0
    BY <1>1, <1>3 DEF LegalCount
<1> QED BY <1>2, <1>3

\* The next multiple.
LEMMA NextMultiple ==
    ASSUME NEW k \in Nat \ {0}, NEW n \in Nat, n % k = 0
    PROVE  /\ (n + k) % k = 0
           /\ \A m \in Nat : m % k = 0 /\ m > n => m >= n + k
<1>1. PICK a \in Nat : n = k * a
    <2>1. n \div k \in Nat /\ n = k * (n \div k)
        OBVIOUS
    <2> QED BY <2>1
<1>2. n + k = k * (a + 1)
    BY <1>1
<1>3. (k * (a + 1)) % k = 0
    OBVIOUS
<1>4. ASSUME NEW m \in Nat, m % k = 0, m > n PROVE m >= n + k
    <2>1. PICK b \in Nat : m = k * b
        <3>1. m \div k \in Nat /\ m = k * (m \div k)
            BY <1>4
        <3> QED BY <3>1
    <2>2. b > a
        <3> SUFFICES ASSUME b <= a PROVE FALSE
            OBVIOUS
        <3>1. k * b <= k * a
            OBVIOUS
        <3> QED BY <1>1, <1>4, <2>1, <3>1
    <2>3. k * b >= k * (a + 1)
        BY <2>2
    <2> QED BY <1>2, <2>1, <2>3
<1> QED BY <1>2, <1>3, <1>4

\* math.ceil: disks of the required capacity, and no others, give the target.
LEMMA RequiredIsEnough ==
    ASSUME Python = 3, NEW target \in Int, NEW n \in Nat \ {0}, NEW c \in Nat
    PROVE  /\ required_capacity(target, n) \in Int
           /\ c >= required_capacity(target, n) <=> c * n >= target
<1> DEFINE x == (- target) \div n
<1>1. x \in Int /\ n * x <= - target /\ - target < n * x + n
    OBVIOUS
<1>2. required_capacity(target, n) = - x
    BY DEF required_capacity
<1> HIDE DEF x
<1>3. c >= - x => c * n >= target
    <2> SUFFICES ASSUME c >= - x PROVE c * n >= target
        OBVIOUS
    <2>1. c + x >= 0
        BY <1>1
    <2>2. n * (c + x) >= 0 /\ n * (c + x) = c * n + n * x
        BY <1>1, <2>1
    <2>3. PICK p \in Int, r \in Int : p = c * n /\ r = n * x
        BY <1>1
    <2> QED BY <1>1, <2>2, <2>3
<1>4. c < - x => c * n < target
    <2> SUFFICES ASSUME c < - x PROVE c * n < target
        OBVIOUS
    <2>1. c + x + 1 <= 0
        BY <1>1
    <2>2. n * (c + x + 1) <= 0 /\ n * (c + x + 1) = c * n + n * x + n
        BY <1>1, <2>1
    <2>3. PICK p \in Int, r \in Int : p = c * n /\ r = n * x
        BY <1>1
    <2> QED BY <1>1, <2>2, <2>3
<1>5. c * n \in Int
    OBVIOUS
<1> QED BY <1>1, <1>2, <1>3, <1>4, <1>5

----------------------------------------------------------------------------
(* The inductive invariant.                                                 *)

\* The groups of disks of one media type.
MediaGroups ==
    {{e \in DOMAIN request.drives : request.drives[e].media = request.drives[d].media} :
        d \in DOMAIN request.drives}

InLoops == pc \in {"span", "count", "window"}
InSpan == pc \in {"count", "window"}

\* Where the loops are.
LoopInv ==
    /\ request \in [drives : Hardware, level : Levels, target : Targets, count : Counts]
    /\ pc \in {"media", "span", "count", "window", "done"}
    /\ groups \subseteq MediaGroups
    /\ disks_by_media_type \in MediaGroups \cup {{}}
    /\ InLoops => disks_by_media_type \in MediaGroups \ groups
    /\ span \in Nat /\ required_disk_count \in Nat /\ start \in Nat
    /\ pc = "span" => span \in Spans(request.level) \/ \A s \in Spans(request.level) : s < span
    /\ InSpan => /\ span \in Spans(request.level) /\ suits_span
                 /\ required_disk_count % span = 0 /\ required_disk_count >= min_disks
    /\ pc = "window" => required_disk_count <= max_disk_count /\ start \in 1..(cases + 1)
    /\ pc = "done" => groups = {}

\* Some number of spans suits the number of disks asked for.
SomeSpanSuits ==
    \E s \in Spans(request.level) : LegalCount(request.level, s, request.count)

\* The flag is set by the first number of spans that suits; nothing sets it
\* when the number is 0.
FlagInv ==
    /\ is_specified_disk_count_legal \in BOOLEAN
    /\ InSpan => is_specified_disk_count_legal \/ request.count = 0
    /\ is_specified_disk_count_legal => request.count # 0 /\ (given => SomeSpanSuits)
    /\ ~ is_specified_disk_count_legal =>
        /\ request.count # AutoCount
        /\ pc = "span" => \A s \in Spans(request.level) :
                            s < span => ~ LegalCount(request.level, s, request.count)
        /\ ~ InLoops /\ groups # MediaGroups => ~ SomeSpanSuits

\* A window: a list of disks in order of capacity, once each.
IsWindow(s) ==
    /\ s = [span |-> s.span, disks |-> s.disks]
    /\ s.span \in Spans(request.level)
    /\ InOrder(request.drives, s.disks)

\* What has been found, and what is answered.
BestInv ==
    /\ best_solution # None =>
        IsWindow(best_solution) /\ (is_specified_disk_count_legal \/ request.count = 0)
    /\ answer = IF pc # "done" THEN Pending
                ELSE IF ~ is_specified_disk_count_legal
                THEN [result |-> "InvalidPhysicalDiskNumber", solution |-> None]
                ELSE [result |-> IF best_solution = None THEN "none" ELSE "found",
                      solution |-> best_solution]

SearchInv == LoopInv /\ FlagInv /\ BestInv

----------------------------------------------------------------------------
(* Requests and groups.                                                     *)

LEMMA RequestFacts ==
    ASSUME request \in [drives : Hardware, level : Levels, target : Targets, count : Counts]
    PROVE  /\ AreDrives(request.drives)
           /\ request.drives # <<>> => DOMAIN request.drives # {}
           /\ request.level \in DOMAIN RAID_SETTINGS
           /\ request.target \in Nat \cup {MAX_CAPACITY}
           /\ request.count \in Nat \cup {AutoCount}
<1> DEFINE drives == request.drives
<1>1. /\ drives \in Hardware /\ request.level \in Levels
      /\ request.target \in Targets /\ request.count \in Counts
    OBVIOUS
<1> HIDE DEF drives
<1>2. PICK n \in Nat : /\ drives = [d \in 1..n |-> drives[d]]
                       /\ \A d \in 1..n : drives[d].capacity \in Nat
    BY <1>1, RaidSolverAssumption
<1>3. DOMAIN drives = 1..n
    BY <1>2
<1>4. AreDrives(drives)
    BY <1>2, <1>3, FS_Interval DEF AreDrives
<1>5. drives # <<>> => DOMAIN drives # {}
    <2> SUFFICES ASSUME DOMAIN drives = {} PROVE drives = <<>>
        OBVIOUS
    <2>1. n = 0
        BY <1>3
    <2> QED BY <1>2, <2>1
<1> QED BY <1>1, <1>4, <1>5, RaidSolverAssumption DEF drives

\* The groups are the disks, parted by media type.
LEMMA GroupFacts ==
    ASSUME AreDrives(request.drives)
    PROVE  /\ \A ds \in MediaGroups :
                /\ ds \subseteq DOMAIN request.drives /\ ds # {}
                /\ \A d, e \in ds : request.drives[d].media = request.drives[e].media
           /\ \A ds \in MediaGroups \cup {{}} :
                /\ IsFiniteSet(ds) /\ ds \subseteq Int
                /\ \A d \in ds : request.drives[d].capacity \in Nat
           /\ DOMAIN request.drives # {} => MediaGroups # {}
<1>1. \A ds \in MediaGroups :
                /\ ds \subseteq DOMAIN request.drives /\ ds # {}
                /\ \A d, e \in ds : request.drives[d].media = request.drives[e].media
    BY DEF MediaGroups
<1>2. \A ds \in MediaGroups \cup {{}} :
                /\ IsFiniteSet(ds) /\ ds \subseteq Int
                /\ \A d \in ds : request.drives[d].capacity \in Nat
    <2> SUFFICES ASSUME NEW ds \in MediaGroups \cup {{}}
                 PROVE  /\ IsFiniteSet(ds) /\ ds \subseteq Int
                        /\ \A d \in ds : request.drives[d].capacity \in Nat
        OBVIOUS
    <2>1. ds \subseteq DOMAIN request.drives
        BY <1>1
    <2> QED BY <2>1, FS_Subset DEF AreDrives
<1>3. DOMAIN request.drives # {} => MediaGroups # {}
    <2> SUFFICES ASSUME NEW d \in DOMAIN request.drives PROVE MediaGroups # {}
        OBVIOUS
    <2>1. {e \in DOMAIN request.drives : request.drives[e].media = request.drives[d].media}
            \in MediaGroups
        BY DEF MediaGroups
    <2> QED BY <2>1
<1> QED BY <1>1, <1>2, <1>3

LEMMA MinOfTwo ==
    ASSUME NEW a \in Int, NEW b \in Int
    PROVE  /\ Min({a, b}) \in Int
           /\ \A n \in Int : n <= Min({a, b}) <=> n <= a /\ n <= b
<1>1. CASE a <= b
    <2>1. Min({a, b}) = a
        BY <1>1 DEF Min
    <2> QED BY <1>1, <2>1
<1>2. CASE b < a
    <2>1. Min({a, b}) = b
        BY <1>2 DEF Min
    <2> QED BY <1>2, <2>1
<1> QED BY <1>1, <1>2

\* The numbers of spans follow each other.
LEMMA SpansFollow ==
    ASSUME NEW level \in DOMAIN RAID_SETTINGS
    PROVE  /\ Min(Spans(level)) \in Spans(level)
           /\ \A s \in Spans(level) : Min(Spans(level)) <= s
           /\ \A s \in Spans(level) :
                s + 1 \in Spans(level) \/ \A t \in Spans(level) : t < s + 1
<1>1. Spans(level) \subseteq Nat /\ Spans(level) # {}
    BY LevelFacts DEF Spans
<1>2. Min(Spans(level)) \in Spans(level) /\ \A s \in Spans(level) : Min(Spans(level)) <= s
    <2>1. PICK m \in Spans(level) : \A s \in Spans(level) : m <= s
        BY <1>1, LeastNumber
    <2> DEFINE S == Spans(level)
    <2> HIDE DEF S
    <2>2. m \in S /\ \A s \in S : m <= s
        BY <2>1 DEF S
    <2>3. Min(S) \in S /\ \A s \in S : Min(S) <= s
        BY <2>2, Zenon DEF Min
    <2> QED BY <2>3 DEF S
<1>3. \A s \in Spans(level) : s + 1 \in Spans(level) \/ \A t \in Spans(level) : t < s + 1
    BY DEF Spans
<1> QED BY <1>2, <1>3

\* The numbers of disks to try.
LEMMA DiskNumbers ==
    ASSUME NEW n \in Nat, LoopInv
    PROVE  /\ min_disks \in Nat /\ max_disks \in Nat
           /\ span \in Spans(request.level) => span \in Nat \ {0}
           /\ IsFiniteSet(disks_by_media_type) /\ disks_by_media_type \subseteq Int
           /\ \A d \in disks_by_media_type : request.drives[d].capacity \in Nat
           /\ Cardinality(disks_by_media_type) \in Nat
           /\ n <= max_disk_count <=> n <= max_disks /\ n <= Cardinality(disks_by_media_type)
           /\ IsFiniteSet(matched_disks) /\ matched_disks \subseteq disks_by_media_type
           /\ Cardinality(matched_disks) \in Nat
<1>1. /\ AreDrives(request.drives) /\ request.level \in DOMAIN RAID_SETTINGS
      /\ request.count \in Nat \cup {AutoCount} /\ span \in Nat
      /\ disks_by_media_type \in MediaGroups \cup {{}}
    BY RequestFacts DEF LoopInv
<1>2. /\ IsFiniteSet(disks_by_media_type) /\ disks_by_media_type \subseteq Int
      /\ \A d \in disks_by_media_type : request.drives[d].capacity \in Nat
    BY <1>1, GroupFacts
<1>3. Cardinality(disks_by_media_type) \in Nat
    BY <1>2, FS_CardinalityType
<1>4. min_disks \in Nat /\ max_disks \in Nat
    <2>1. PICK low \in Nat, high \in Nat : low = limits.min_disks /\ high = limits.max_disks
        BY <1>1, LevelFacts DEF limits
    <2>2. low * span \in Nat /\ high * span \in Nat
        BY <1>1
    <2> QED BY <1>1, <2>1, <2>2 DEF min_disks, max_disks, given, AutoCount
<1>5. n <= max_disk_count <=> n <= max_disks /\ n <= Cardinality(disks_by_media_type)
    BY <1>3, <1>4, MinOfTwo DEF max_disk_count
<1>6. matched_disks \subseteq disks_by_media_type
    BY DEF matched_disks
<1>7. IsFiniteSet(matched_disks) /\ Cardinality(matched_disks) \in Nat
    BY <1>2, <1>6, FS_Subset, FS_CardinalityType
<1>8. span \in Spans(request.level) => span \in Nat \ {0}
    BY <1>1, LevelFacts
<1> QED BY <1>2, <1>3, <1>4, <1>5, <1>6, <1>7, <1>8

----------------------------------------------------------------------------
(* The loops.                                                               *)

LEMMA InitSearchInv == Init => SearchInv
<1> SUFFICES ASSUME Init PROVE SearchInv
    OBVIOUS
<1>1. groups = MediaGroups
    BY DEF Init, MediaGroups
<1>2. LoopInv
    BY <1>1 DEF Init, LoopInv, InLoops, InSpan
<1>3. FlagInv
    <2>1. /\ is_specified_disk_count_legal = (request.count = AutoCount)
          /\ pc = "media" /\ groups = MediaGroups
        BY <1>1 DEF Init
    <2>2. CASE request.count = AutoCount
        <3>1. is_specified_disk_count_legal = TRUE /\ ~ given /\ request.count # 0
            <4>1. is_specified_disk_count_legal = TRUE
                BY <2>1, <2>2
            <4>2. ~ given /\ request.count # 0
                BY <2>2 DEF given, AutoCount
            <4> QED BY <4>1, <4>2
        <3> QED BY <2>1, <3>1 DEF FlagInv, InLoops, InSpan
    <2>3. CASE request.count # AutoCount
        <3>1. is_specified_disk_count_legal = FALSE
            BY <2>1, <2>3
        <3> QED BY <2>1, <2>3, <3>1 DEF FlagInv, InLoops, InSpan
    <2> QED BY <2>2, <2>3
<1>4. BestInv
    BY DEF Init, BestInv
<1> QED BY <1>2, <1>3, <1>4 DEF SearchInv

\* A turn that stays in the loops over the numbers of disks keeps them.
LEMMA LoopsStay ==
    ASSUME request' = request, disks_by_media_type' = disks_by_media_type, span' = span
    PROVE  /\ MediaGroups' = MediaGroups /\ given' = given
           /\ min_disks' = min_disks /\ max_disks' = max_disks
           /\ max_disk_count' = max_disk_count /\ suits_span' = suits_span
           /\ required_disk_count' = required_disk_count =>
                matched_disks' = matched_disks /\ cases' = cases
<1>1. MediaGroups' = MediaGroups /\ (given' <=> given) /\ limits' = limits
    BY DEF MediaGroups, given, limits
<1>2. min_disks' = min_disks /\ max_disks' = max_disks
    BY <1>1 DEF min_disks, max_disks
<1>3. max_disk_count' = max_disk_count
    BY <1>2 DEF max_disk_count
<1>4. suits_span' <=> suits_span
    BY <1>1 DEF suits_span
<1>5. required_disk_count' = required_disk_count => matched_disks' = matched_disks
    BY DEF matched_disks
<1>6. required_disk_count' = required_disk_count => cases' = cases
    BY <1>5 DEF cases
<1> QED BY <1>1, <1>2, <1>3, <1>4, <1>5, <1>6 DEF given, suits_span

\* The turns of the loops, by what they do to where the loops are.
LEMMA MediaTurns ==
    ASSUME LoopInv, NextMediaType \/ Return \/ SpansEnd \/ SkipSpan \/ TooFewDisks
    PROVE  LoopInv'
<1>0. /\ request \in [drives : Hardware, level : Levels, target : Targets, count : Counts]
      /\ request.level \in DOMAIN RAID_SETTINGS
    BY RequestFacts DEF LoopInv
<1>1. CASE NextMediaType
    <2>1. PICK ds \in groups : disks_by_media_type' = ds /\ groups' = groups \ {ds}
        BY <1>1 DEF NextMediaType
    <2>2. /\ request' = request /\ pc' = "span" /\ span' = Min(Spans(request.level))
          /\ required_disk_count' = required_disk_count /\ start' = start
        BY <1>1 DEF NextMediaType
    <2>3. MediaGroups' = MediaGroups
        BY <2>2 DEF MediaGroups
    <2>4. span' \in Spans(request'.level) /\ span' \in Nat
        BY <1>0, <2>2, SpansFollow, LevelFacts
    <2>5. ds \in MediaGroups /\ groups' \subseteq MediaGroups /\ ds \notin groups'
        BY <2>1 DEF LoopInv
    <2> QED BY <1>0, <2>1, <2>2, <2>3, <2>4, <2>5 DEF LoopInv, InLoops, InSpan
<1>2. CASE Return
    <2>1. MediaGroups' = MediaGroups
        BY <1>2 DEF Return, MediaGroups
    <2> QED BY <1>2, <2>1 DEF Return, loops, LoopInv, InLoops, InSpan
<1>3. CASE SpansEnd
    <2>1. MediaGroups' = MediaGroups
        BY <1>3 DEF SpansEnd, MediaGroups
    <2> QED BY <1>3, <2>1 DEF SpansEnd, loops, LoopInv, InLoops, InSpan
<1>4. CASE SkipSpan
    <2>1. MediaGroups' = MediaGroups
        BY <1>4 DEF SkipSpan, MediaGroups
    <2>2. span + 1 \in Spans(request.level) \/ \A t \in Spans(request.level) : t < span + 1
        BY <1>0, <1>4, SpansFollow DEF SkipSpan
    <2> QED BY <1>4, <2>1, <2>2 DEF SkipSpan, LoopInv, InLoops, InSpan
<1>5. CASE TooFewDisks
    <2>1. MediaGroups' = MediaGroups
        BY <1>5 DEF TooFewDisks, MediaGroups
    <2> QED BY <1>5, <2>1 DEF TooFewDisks, loops, LoopInv, InLoops, InSpan
<1> QED BY <1>1, <1>2, <1>3, <1>4, <1>5

\* The next number of disks is one more in each span.
LEMMA NextCountStays ==
    ASSUME LoopInv, InSpan, NextCount,
           UNCHANGED <<request, groups, disks_by_media_type, found, answer>>
    PROVE  LoopInv'
<1>1. /\ request' = request /\ disks_by_media_type' = disks_by_media_type /\ span' = span
      /\ groups' = groups /\ start' = start /\ pc' = "count"
      /\ required_disk_count' = required_disk_count + span
    BY DEF NextCount
<1>2. /\ MediaGroups' = MediaGroups /\ min_disks' = min_disks /\ suits_span' = suits_span
    BY <1>1, LoopsStay
<1>3. /\ span \in Nat \ {0} /\ min_disks \in Nat
    BY DiskNumbers DEF LoopInv
<1>4. /\ required_disk_count % span = 0 /\ required_disk_count >= min_disks
      /\ required_disk_count \in Nat /\ suits_span /\ span \in Spans(request.level)
      /\ disks_by_media_type \in MediaGroups \ groups
    BY DEF LoopInv, InSpan, InLoops
<1>5. (required_disk_count + span) % span = 0
    BY <1>3, <1>4, NextMultiple
<1>6. required_disk_count + span \in Nat /\ required_disk_count + span >= min_disks
    BY <1>3, <1>4
<1> QED BY <1>1, <1>2, <1>3, <1>4, <1>5, <1>6 DEF LoopInv, InLoops, InSpan

LEMMA NextSpanStays ==
    ASSUME LoopInv, InSpan, NextSpan,
           UNCHANGED <<request, groups, disks_by_media_type, found, answer>>
    PROVE  LoopInv'
<1>1. /\ request' = request /\ disks_by_media_type' = disks_by_media_type /\ span' = span + 1
      /\ groups' = groups /\ start' = start /\ pc' = "span"
      /\ required_disk_count' = required_disk_count
    BY DEF NextSpan
<1>2. MediaGroups' = MediaGroups
    BY <1>1 DEF MediaGroups
<1>3. span + 1 \in Spans(request.level) \/ \A t \in Spans(request.level) : t < span + 1
    BY RequestFacts, SpansFollow DEF LoopInv
<1> QED BY <1>1, <1>2, <1>3 DEF LoopInv, InLoops, InSpan

LEMMA CountTurns ==
    ASSUME LoopInv, TrySpan \/ CountsEnd \/ NotEnoughMatch \/ TryCount \/ TryWindow \/ WindowsEnd
    PROVE  LoopInv'
<1>0. /\ request.level \in DOMAIN RAID_SETTINGS /\ request.count \in Nat \cup {AutoCount}
    BY RequestFacts DEF LoopInv
<1>1. CASE TrySpan
    <2>1. /\ request' = request /\ disks_by_media_type' = disks_by_media_type /\ span' = span
          /\ groups' = groups /\ start' = start /\ pc' = "count" /\ pc = "span"
          /\ required_disk_count' = min_disks /\ span \in Spans(request.level) /\ suits_span
        BY <1>1 DEF TrySpan
    <2>2. MediaGroups' = MediaGroups /\ min_disks' = min_disks /\ suits_span' = suits_span
        BY <2>1, LoopsStay
    <2>3. span \in Nat \ {0} /\ min_disks \in Nat
        BY <2>1, DiskNumbers
    <2>4. min_disks % span = 0
        <3>1. CASE given
            BY <2>1, <3>1 DEF suits_span, LegalCount, min_disks
        <3>2. CASE ~ given
            <4>1. PICK low \in Nat : low = limits.min_disks
                BY <1>0, LevelFacts DEF limits
            <4>2. (span * low) % span = 0
                BY <2>3
            <4>3. min_disks = span * low
                BY <2>3, <3>2, <4>1 DEF min_disks
            <4> QED BY <4>2, <4>3
        <3> QED BY <3>1, <3>2
    <2> QED BY <2>1, <2>2, <2>3, <2>4 DEF LoopInv, InLoops, InSpan
<1>2. CASE CountsEnd
    BY <1>2, NextSpanStays DEF CountsEnd, InSpan
<1>3. CASE NotEnoughMatch
    BY <1>3, NextCountStays DEF NotEnoughMatch, InSpan
<1>4. CASE TryCount
    <2>1. /\ request' = request /\ disks_by_media_type' = disks_by_media_type /\ span' = span
          /\ groups' = groups /\ start' = 1 /\ pc' = "window" /\ pc = "count"
          /\ required_disk_count' = required_disk_count
          /\ required_disk_count <= max_disk_count
          /\ Cardinality(matched_disks) >= required_disk_count
        BY <1>4 DEF TryCount
    <2>2. /\ MediaGroups' = MediaGroups /\ min_disks' = min_disks /\ suits_span' = suits_span
          /\ max_disk_count' = max_disk_count /\ cases' = cases
        BY <2>1, LoopsStay
    <2>3. 1 \in 1..(cases + 1)
        <3>1. Cardinality(matched_disks) \in Nat /\ required_disk_count \in Nat
            BY DiskNumbers DEF LoopInv
        <3> QED BY <2>1, <3>1 DEF cases
    <2> QED BY <2>1, <2>2, <2>3 DEF LoopInv, InLoops, InSpan
<1>5. CASE TryWindow
    <2>1. /\ request' = request /\ disks_by_media_type' = disks_by_media_type /\ span' = span
          /\ groups' = groups /\ start' = start + 1 /\ pc' = "window" /\ pc = "window"
          /\ required_disk_count' = required_disk_count /\ start <= cases
        BY <1>5 DEF TryWindow
    <2>2. /\ MediaGroups' = MediaGroups /\ min_disks' = min_disks /\ suits_span' = suits_span
          /\ max_disk_count' = max_disk_count /\ cases' = cases
        BY <2>1, LoopsStay
    <2>3. start + 1 \in 1..(cases + 1) /\ start + 1 \in Nat
        <3>1. Cardinality(matched_disks) \in Nat /\ required_disk_count \in Nat /\ start \in Nat
            BY DiskNumbers DEF LoopInv
        <3>2. cases \in Int
            BY <3>1 DEF cases
        <3> QED BY <2>1, <3>1, <3>2
    <2> QED BY <2>1, <2>2, <2>3 DEF LoopInv, InLoops, InSpan
<1>6. CASE WindowsEnd
    <2>1. InSpan /\ UNCHANGED <<request, groups, disks_by_media_type, found, answer>>
        BY <1>6 DEF WindowsEnd, InSpan
    <2>2. NextSpan \/ NextCount
        BY <1>6 DEF WindowsEnd
    <2> QED BY <2>1, <2>2, NextSpanStays, NextCountStays
<1> QED BY <1>1, <1>2, <1>3, <1>4, <1>5, <1>6

LEMMA LoopsStep == LoopInv /\ [Next]_vars => LoopInv'
<1> SUFFICES ASSUME LoopInv, [Next]_vars PROVE LoopInv'
    OBVIOUS
<1>1. CASE Next
    BY <1>1, MediaTurns, CountTurns DEF Next
<1>2. CASE UNCHANGED vars
    <2>1. /\ request' = request /\ pc' = pc /\ groups' = groups
          /\ disks_by_media_type' = disks_by_media_type /\ span' = span
          /\ required_disk_count' = required_disk_count /\ start' = start
        BY <1>2 DEF vars, loops
    <2>2. /\ MediaGroups' = MediaGroups /\ min_disks' = min_disks /\ suits_span' = suits_span
          /\ max_disk_count' = max_disk_count /\ cases' = cases
        BY <2>1, LoopsStay
    <2> QED BY <2>1, <2>2 DEF LoopInv, InLoops, InSpan
<1> QED BY <1>1, <1>2

\* The window compared is a window.
LEMMA WindowIsWindow ==
    ASSUME LoopInv, pc = "window", start <= cases
    PROVE  /\ IsWindow(window) /\ window.span = span
           /\ Len(window.disks) = required_disk_count
           /\ ToSet(window.disks) =
                WindowSet(request.drives, matched_disks, start, required_disk_count)
           /\ required_disk_count \in Nat \ {0} /\ start \in Nat \ {0}
           /\ start + required_disk_count - 1 <= Cardinality(matched_disks)
<1> DEFINE n == required_disk_count
           M == matched_disks
           s == sorted_matched_disks
           w == window.disks
           N == Cardinality(M)
<1>1. AreDrives(request.drives) /\ request.level \in DOMAIN RAID_SETTINGS
    BY RequestFacts DEF LoopInv
<1>2. /\ IsFiniteSet(M) /\ M \subseteq disks_by_media_type /\ N \in Nat
      /\ \A d \in M : request.drives[d].capacity \in Nat
      /\ span \in Nat \ {0} /\ min_disks \in Nat
    BY DiskNumbers DEF LoopInv, InSpan
<1>3. M \subseteq DOMAIN request.drives /\ M \subseteq Int
    <2>1. disks_by_media_type \in MediaGroups
        BY DEF LoopInv, InLoops
    <2> QED BY <1>1, <1>2, <2>1, GroupFacts DEF AreDrives
<1>4. /\ s \in [1..N -> M]
      /\ \A i, j \in 1..N : i < j => Precedes(request.drives, s[i], s[j])
    BY <1>2, <1>3, SortedIsInOrder DEF sorted_matched_disks
<1>5. n \in Nat /\ n >= min_disks /\ span \in Spans(request.level) /\ suits_span
    BY DEF LoopInv, InSpan
<1>6. n >= 1
    <2>1. min_disks >= 1
        <3>1. CASE given
            <4>1. LegalCount(request.level, span, request.count) /\ request.count \in Nat
                BY <1>5, <3>1, RequestFacts DEF suits_span, LoopInv, given, AutoCount
            <4>2. /\ Overhead(request.level, span) \in Nat
                  /\ request.count - Overhead(request.level, span) >= 1
                BY <1>1, <1>5, <4>1, LegalLeavesRoom
            <4> QED BY <3>1, <4>1, <4>2 DEF min_disks
        <3>2. CASE ~ given
            <4>1. PICK low \in Nat : low = limits.min_disks /\ low >= 1
                BY <1>1, LevelFacts DEF limits
            <4>2. low * span >= 1
                BY <1>2, <4>1
            <4> QED BY <3>2, <4>1, <4>2 DEF min_disks
        <3> QED BY <3>1, <3>2
    <2> QED BY <1>2, <1>5, <2>1
<1>7. start \in Nat /\ start >= 1 /\ start + n - 1 <= N
    <2>1. start \in Nat /\ start >= 1 /\ start <= N - n + 1
        BY <1>2, <1>5 DEF LoopInv, cases
    <2> HIDE DEF N, n
    <2> QED BY <1>2, <1>5, <2>1
<1>8. window = [span |-> span, disks |-> w] /\ window.span = span
    BY DEF window
<1>9. w = SubSeq(s, start, start + n - 1)
    BY DEF window
<1> HIDE DEF n, M, N, s, w
<1>10. /\ w \in Seq(M) /\ Len(w) = n
       /\ \A i \in 1..n : w[i] = s[start + i - 1]
    <2>1. start \in Int /\ start + n - 1 \in Int
        BY <1>5, <1>7
    <2>2. PICK last \in Int : last = start + n - 1
        BY <2>1
    <2>3. \A i \in start..last : i \in 1..N /\ s[i] \in M
        <3>1. \A i \in start..last : i \in 1..N
            BY <1>2, <1>5, <1>7, <2>2
        <3> QED BY <1>4, <3>1
    <2>4. start <= last /\ last - start + 1 = n
        BY <1>5, <1>6, <1>7, <2>2
    <2>5. /\ SubSeq(s, start, last) \in Seq(M)
          /\ Len(SubSeq(s, start, last)) = last - start + 1
          /\ \A i \in 1..(last - start + 1) : SubSeq(s, start, last)[i] = s[start + i - 1]
        BY <2>1, <2>3, <2>4, SubSeqProperties
    <2>6. w = SubSeq(s, start, last)
        BY <1>9, <2>2
    <2> QED BY <2>4, <2>5, <2>6
<1>11. \A i \in 1..n : start + i - 1 \in 1..N
    BY <1>2, <1>5, <1>7
<1>12. InOrder(request.drives, w)
    <2>1. w \in [1..n -> DOMAIN request.drives]
        <3>1. w \in [1..n -> M]
            BY <1>10
        <3> QED BY <1>3, <3>1
    <2>2. ASSUME NEW i \in 1..n, NEW j \in 1..n, i < j
          PROVE  Precedes(request.drives, w[i], w[j])
        <3>1. start + i - 1 < start + j - 1
            BY <1>5, <1>7, <2>2
        <3> QED BY <1>4, <1>10, <1>11, <3>1
    <2> QED BY <1>5, <1>6, <1>10, <2>1, <2>2 DEF InOrder
<1>13. ToSet(w) = WindowSet(request.drives, M, start, n)
    <2>1. ToSet(w) = {w[i] : i \in 1..n}
        BY <1>10 DEF ToSet
    <2>2. WindowSet(request.drives, M, start, n) = {s[k] : k \in start..(start + n - 1)}
        BY DEF WindowSet, s, sorted_matched_disks, M
    <2>3. \A i \in 1..n : start + i - 1 \in start..(start + n - 1)
        BY <1>5, <1>7
    <2>4. \A k \in start..(start + n - 1) :
            k - start + 1 \in 1..n /\ w[k - start + 1] = s[k]
        <3> SUFFICES ASSUME NEW k \in start..(start + n - 1)
                     PROVE  k - start + 1 \in 1..n /\ w[k - start + 1] = s[k]
            OBVIOUS
        <3>1. k - start + 1 \in 1..n
            BY <1>5, <1>7
        <3>2. start + (k - start + 1) - 1 = k
            BY <1>5, <1>7
        <3> QED BY <1>10, <3>1, <3>2
    <2>5. \A i \in 1..n : \E k \in start..(start + n - 1) : w[i] = s[k]
        BY <1>10, <2>3
    <2>6. \A k \in start..(start + n - 1) : \E i \in 1..n : s[k] = w[i]
        BY <2>4
    <2>7. {w[i] : i \in 1..n} = {s[k] : k \in start..(start + n - 1)}
        BY <2>5, <2>6
    <2> QED BY <2>1, <2>2, <2>7
<1>14. IsWindow(window)
    <2>1. window.disks = w
        BY DEF w
    <2> QED BY <1>5, <1>8, <1>12, <2>1, Zenon DEF IsWindow
<1>15. n \in Nat \ {0} /\ start \in Nat \ {0}
    BY <1>5, <1>6, <1>7
<1> QED BY <1>7, <1>8, <1>10, <1>13, <1>14, <1>15 DEF n, M, w, N

\* 0 disks are no array.
LEMMA NoneIsIllegal ==
    ASSUME NEW level \in DOMAIN RAID_SETTINGS, NEW s \in Spans(level)
    PROVE  ~ LegalCount(level, s, 0)
<1>1. PICK low \in Nat, m \in Nat \ {0} :
        low = RAID_SETTINGS[level].min_disks /\ low >= 1 /\ m = s
    BY LevelFacts
<1>2. 0 \div m = 0
    BY <1>1
<1> QED BY <1>1, <1>2 DEF LegalCount

\* Once up, the flag says what it should.
LEMMA FlagUpStays ==
    ASSUME is_specified_disk_count_legal' = TRUE, request' = request,
           request.count # 0, given => SomeSpanSuits
    PROVE  FlagInv'
BY DEF FlagInv, given, SomeSpanSuits

LEMMA FlagStep == LoopInv /\ FlagInv /\ [Next]_vars => FlagInv'
<1> SUFFICES ASSUME LoopInv, FlagInv, [Next]_vars PROVE FlagInv'
    OBVIOUS
<1>0. request' = request /\ MediaGroups' = MediaGroups /\ (given' <=> given)
      /\ (SomeSpanSuits' <=> SomeSpanSuits)
    <2>1. request' = request
        BY DEF Next, NextMediaType, Return, SpansEnd, SkipSpan, TooFewDisks, TrySpan, CountsEnd,
               NotEnoughMatch, TryCount, TryWindow, WindowsEnd, vars
    <2> QED BY <2>1 DEF MediaGroups, given, SomeSpanSuits
<1>00. request.count \in Nat \cup {AutoCount}
    BY RequestFacts DEF LoopInv
<1>1. request.level \in DOMAIN RAID_SETTINGS
    BY RequestFacts DEF LoopInv
<1>2. CASE NextMediaType
    <2>1. /\ is_specified_disk_count_legal' = is_specified_disk_count_legal
          /\ pc' = "span" /\ span' = Min(Spans(request.level))
        BY <1>2 DEF NextMediaType, found
    <2>2. \A s \in Spans(request.level) : ~ (s < span')
        <3>1. /\ \A s \in Spans(request.level) : Min(Spans(request.level)) <= s
              /\ Min(Spans(request.level)) \in Spans(request.level)
              /\ Spans(request.level) \subseteq Int
            BY <1>1, SpansFollow, LevelFacts
        <3> DEFINE m == Min(Spans(request.level))
        <3> HIDE DEF m
        <3>2. m \in Int /\ \A s \in Spans(request.level) : s \in Int /\ m <= s
            BY <3>1 DEF m
        <3> QED BY <2>1, <3>2 DEF m
    <2> QED BY <1>0, <2>1, <2>2 DEF FlagInv, InLoops, InSpan
<1>3. CASE Return
    <2>1. /\ is_specified_disk_count_legal' = is_specified_disk_count_legal
          /\ pc' = "done" /\ pc = "media" /\ groups' = groups
        BY <1>3 DEF Return, found, loops
    <2> QED BY <1>0, <2>1 DEF FlagInv, InLoops, InSpan
<1>4. CASE SpansEnd
    <2>1. /\ is_specified_disk_count_legal' = is_specified_disk_count_legal
          /\ pc' = "media" /\ pc = "span" /\ groups' = groups
          /\ \A s \in Spans(request.level) : s < span
        BY <1>4 DEF SpansEnd, found, loops, LoopInv
    <2>2. ~ is_specified_disk_count_legal => ~ SomeSpanSuits
        BY <2>1 DEF FlagInv, SomeSpanSuits
    <2> QED BY <1>0, <2>1, <2>2 DEF FlagInv, InLoops, InSpan
<1>5. CASE SkipSpan
    <2>1. /\ is_specified_disk_count_legal' = is_specified_disk_count_legal
          /\ pc' = "span" /\ pc = "span" /\ span' = span + 1 /\ span \in Spans(request.level)
          /\ given /\ ~ LegalCount(request.level, span, request.count)
        BY <1>5 DEF SkipSpan, found, suits_span
    <2>2. ~ is_specified_disk_count_legal =>
            \A s \in Spans(request.level) : s < span' => ~ LegalCount(request.level, s, request.count)
        <3> SUFFICES ASSUME ~ is_specified_disk_count_legal,
                            NEW s \in Spans(request.level), s < span'
                     PROVE  ~ LegalCount(request.level, s, request.count)
            OBVIOUS
        <3>1. s \in Int /\ span \in Int
            BY <1>1, <2>1, LevelFacts
        <3>2. s < span \/ s = span
            BY <2>1, <3>1
        <3> QED BY <2>1, <3>2 DEF FlagInv
    <2> QED BY <1>0, <2>1, <2>2 DEF FlagInv, InLoops, InSpan
<1>6. CASE TooFewDisks \/ TrySpan
    <2>1. /\ is_specified_disk_count_legal' = (given \/ is_specified_disk_count_legal)
          /\ span \in Spans(request.level) /\ suits_span
        BY <1>6 DEF TooFewDisks, TrySpan
    <2>2. CASE given
        <3>1. SomeSpanSuits /\ request.count # 0
            BY <2>1, <2>2 DEF suits_span, SomeSpanSuits, given
        <3> QED BY <1>0, <2>1, <2>2, <3>1, FlagUpStays
    <2>3. CASE ~ given /\ is_specified_disk_count_legal
        BY <1>0, <2>1, <2>3, FlagUpStays DEF FlagInv
    <2>4. CASE ~ given /\ ~ is_specified_disk_count_legal
        <3>1. request.count = 0
            BY <1>00, <2>4 DEF FlagInv, given, AutoCount
        <3>2. \A s \in Spans(request.level) : ~ LegalCount(request.level, s, request.count)
            BY <1>1, <3>1, NoneIsIllegal
        <3>3. is_specified_disk_count_legal' = FALSE
            BY <2>1, <2>4
        <3> QED BY <1>0, <1>00, <3>1, <3>2, <3>3 DEF FlagInv, SomeSpanSuits, AutoCount
    <2> QED BY <2>2, <2>3, <2>4
<1>7. CASE CountsEnd \/ NotEnoughMatch \/ TryCount \/ TryWindow \/ WindowsEnd
    <2>1. /\ InSpan /\ is_specified_disk_count_legal' = is_specified_disk_count_legal
        BY <1>7 DEF CountsEnd, NotEnoughMatch, TryCount, TryWindow, WindowsEnd, InSpan, found
    <2>2. CASE is_specified_disk_count_legal
        BY <1>0, <2>1, <2>2, FlagUpStays DEF FlagInv
    <2>3. CASE ~ is_specified_disk_count_legal
        <3>1. request.count = 0
            BY <2>1, <2>3 DEF FlagInv
        <3>2. \A s \in Spans(request.level) : ~ LegalCount(request.level, s, request.count)
            BY <1>1, <3>1, NoneIsIllegal
        <3> QED BY <1>0, <2>1, <2>3, <3>1, <3>2 DEF FlagInv, SomeSpanSuits, AutoCount
    <2> QED BY <2>2, <2>3
<1>8. CASE UNCHANGED vars
    <2>1. /\ is_specified_disk_count_legal' = is_specified_disk_count_legal
          /\ pc' = pc /\ groups' = groups /\ span' = span
        BY <1>8 DEF vars, loops, found
    <2> QED BY <1>0, <2>1 DEF FlagInv, InLoops, InSpan
<1> QED BY <1>2, <1>3, <1>4, <1>5, <1>6, <1>7, <1>8 DEF Next

LEMMA BestStep == LoopInv /\ FlagInv /\ BestInv /\ [Next]_vars => BestInv'
<1> SUFFICES ASSUME LoopInv, FlagInv, BestInv, [Next]_vars PROVE BestInv'
    OBVIOUS
<1>0. request' = request
    BY DEF Next, NextMediaType, Return, SpansEnd, SkipSpan, TooFewDisks, TrySpan, CountsEnd,
           NotEnoughMatch, TryCount, TryWindow, WindowsEnd, vars
<1>1. CASE Return
    BY <1>0, <1>1 DEF Return, found, loops, BestInv, IsWindow
<1>2. CASE TryWindow
    <2>1. /\ best_solution' = best_solution \/ best_solution' = window
          /\ pc' = pc /\ pc = "window" /\ start <= cases /\ answer' = answer
          /\ is_specified_disk_count_legal' = is_specified_disk_count_legal
        BY <1>2 DEF TryWindow
    <2>2. IsWindow(window) /\ (is_specified_disk_count_legal \/ request.count = 0)
        BY <2>1, WindowIsWindow DEF FlagInv, InSpan
    <2> QED BY <1>0, <2>1, <2>2 DEF BestInv, IsWindow
<1>3. CASE TooFewDisks \/ TrySpan
    BY <1>0, <1>3 DEF TooFewDisks, TrySpan, found, BestInv, IsWindow
<1>4. CASE NextMediaType \/ SpansEnd \/ SkipSpan \/ CountsEnd \/ NotEnoughMatch \/ TryCount
            \/ WindowsEnd
    <2>1. /\ pc # "done" /\ pc' # "done" /\ answer' = answer
          /\ best_solution' = best_solution
          /\ is_specified_disk_count_legal' = is_specified_disk_count_legal
        BY <1>4 DEF NextMediaType, SpansEnd, SkipSpan, CountsEnd, NotEnoughMatch, TryCount,
                    WindowsEnd, NextSpan, NextCount, found
    <2> QED BY <1>0, <2>1 DEF BestInv, IsWindow
<1>5. CASE UNCHANGED vars
    BY <1>0, <1>5 DEF vars, found, BestInv, IsWindow
<1> QED BY <1>1, <1>2, <1>3, <1>4, <1>5 DEF Next

LEMMA SearchIsOrderly == Spec => []SearchInv
<1>1. SearchInv /\ [Next]_vars => SearchInv'
    BY LoopsStep, FlagStep, BestStep DEF SearchInv
<1> QED BY <1>1, InitSearchInv, PTL DEF Spec

\* TypeOK: the loops of get_best_matched_disks work on disks that exist, and
\* it answers one of the kinds its callers handle, a solution of disks that
\* exist, once each, in order of capacity.
THEOREM SearchTypesAreRight == Spec => []TypeOK
<1>1. SearchInv => TypeOK
    <2> SUFFICES ASSUME SearchInv PROVE TypeOK
        OBVIOUS
    <2>1. LoopInv /\ FlagInv /\ BestInv
        BY DEF SearchInv
    <2>2. AreDrives(request.drives)
        BY <2>1, RequestFacts DEF LoopInv
    <2>3. \A ds \in groups \cup {disks_by_media_type} : ds \subseteq DOMAIN request.drives
        <3>1. \A ds \in groups \cup {disks_by_media_type} : ds \in MediaGroups \cup {{}}
            BY <2>1 DEF LoopInv
        <3> QED BY <2>2, <3>1, GroupFacts
    <2>4. IsSolution(best_solution)
        <3>1. CASE best_solution = None
            <4>1. best_solution.disks = <<>>
                BY <3>1 DEF None
            <4>2. ToSet(<<>>) = {} /\ DOMAIN <<>> = {} /\ IsInjective(<<>>)
                BY DEF ToSet, IsInjective
            <4> QED BY <4>1, <4>2 DEF IsSolution
        <3>2. CASE best_solution # None
            <4>1. InOrder(request.drives, best_solution.disks)
                BY <2>1, <3>2 DEF BestInv, IsWindow
            <4> QED BY <2>2, <4>1, InOrderFacts DEF IsSolution
        <3> QED BY <3>1, <3>2
    <2>5. /\ answer.result \in {"pending", "InvalidPhysicalDiskNumber", "none", "found"}
          /\ answer.result = "pending" <=> pc # "done"
          /\ answer.result = "found" <=> answer.solution # None
          /\ answer.solution \in {None, best_solution}
        BY <2>1 DEF BestInv, Pending
    <2>6. /\ pc \in {"media", "span", "count", "window", "done"}
          /\ span \in Nat /\ required_disk_count \in Nat /\ start \in Nat
          /\ is_specified_disk_count_legal \in BOOLEAN
        BY <2>1 DEF LoopInv, FlagInv
    <2> QED BY <2>3, <2>4, <2>5, <2>6 DEF TypeOK
<1> QED BY <1>1, SearchIsOrderly, PTL

----------------------------------------------------------------------------
(* The number of disks asked for.                                           *)

\* InvalidNumberIsInvalid: get_best_matched_disks says that a number of disks
\* is invalid exactly when no disks whatever could make such an array, for
\* every table of drives.
THEOREM InvalidIsInvalid == Spec => []InvalidNumberIsInvalid
<1>1. SearchInv => InvalidNumberIsInvalid
    <2> SUFFICES ASSUME SearchInv, answer # Pending, request.drives # <<>>
                 PROVE  InvalidNumberIsInvalid
        BY DEF InvalidNumberIsInvalid
    <2> DEFINE n == request.count
    <2>1. LoopInv /\ FlagInv /\ BestInv
        BY DEF SearchInv
    <2>2. /\ request.level \in DOMAIN RAID_SETTINGS /\ n \in Nat \cup {AutoCount}
          /\ MediaGroups # {}
        BY <2>1, RequestFacts, GroupFacts DEF LoopInv
    <2>3. answer.result = "InvalidPhysicalDiskNumber" <=> ~ is_specified_disk_count_legal
        BY <2>1 DEF BestInv
    <2>4. pc = "done" /\ groups = {}
        BY <2>1 DEF BestInv, LoopInv
    <2>5. ~ is_specified_disk_count_legal <=> n # AutoCount /\ ~ (given /\ SomeSpanSuits)
        BY <2>1, <2>2, <2>4 DEF FlagInv, InLoops, given, AutoCount
    <2>6. DOMAIN Uniform(n) = 1..n
        BY DEF Uniform
    <2>7. given => (LegalSolutions(Uniform(n), request.level, 1, DOMAIN Uniform(n), n) # {}
                        <=> SomeSpanSuits)
        BY <2>2, <2>6, UniformSolutions DEF given, AutoCount, SomeSpanSuits
    <2>9. n = 0 => LegalSolutions(Uniform(n), request.level, 1, DOMAIN Uniform(n), n) = {}
        <3>1. 1 .. 0 = {}
            OBVIOUS
        <3> QED BY <2>6, <3>1, Zenon DEF LegalSolutions
    <2>8. answer.result = "InvalidPhysicalDiskNumber"
            <=> /\ n # AutoCount
                /\ LegalSolutions(Uniform(n), request.level, 1, DOMAIN Uniform(n), n) = {}
        BY <2>2, <2>3, <2>5, <2>7, <2>9 DEF given, AutoCount
    <2> QED BY <2>8 DEF InvalidNumberIsInvalid, Uniform
<1> QED BY <1>1, SearchIsOrderly, PTL

----------------------------------------------------------------------------
(* The best solution.                                                       *)

\* The arrays that could be made.
Solutions ==
    LegalSolutions(request.drives, request.level, request.target, DOMAIN request.drives,
                   request.count)
Beats(s, t) ==
    Before(Rank(request.drives, request.level, request.target, s),
           Rank(request.drives, request.level, request.target, t))

\* The windows compared so far are those of the groups, numbers of spans and
\* numbers of disks before the present ones, and those that start earlier.
\* Every array starts at the place of its smallest disk.
Passed(t) ==
    \E ds \in MediaGroups \ groups :
        /\ t.disks \subseteq ds
        /\ \/ ~ InLoops
           \/ ds # disks_by_media_type
           \/ t.span < span
           \/ InSpan /\ t.span = span /\ Cardinality(t.disks) < required_disk_count
           \/ /\ pc = "window" /\ t.span = span /\ Cardinality(t.disks) = required_disk_count
              /\ \E i \in 1..(start - 1) : sorted_matched_disks[i] \in t.disks

\* The best solution is one of the arrays, and no array that the loops have
\* passed beats it.
FindInv ==
    /\ best_solution # None => AsSolution(best_solution) \in Solutions
    /\ \A t \in Solutions :
        Passed(t) => best_solution # None /\ ~ Beats(t, AsSolution(best_solution))

\* An array that could be made has legal disks, of one group.
LEMMA SolutionFacts ==
    ASSUME LoopInv, NEW t \in Solutions
    PROVE  /\ t = [span |-> t.span, disks |-> t.disks]
           /\ t.span \in Spans(request.level)
           /\ t.disks \subseteq DOMAIN request.drives /\ t.disks # {}
           /\ IsFiniteSet(t.disks) /\ Cardinality(t.disks) \in Nat
           /\ LegalCount(request.level, t.span, Cardinality(t.disks))
           /\ given => Cardinality(t.disks) = request.count
           /\ request.target # 0 /\ request.count # 0
           /\ ArrayCapacity(request.drives, request.level, t.span, t.disks) >= request.target
           /\ \E ds \in MediaGroups : t.disks \subseteq ds
<1>1. AreDrives(request.drives)
    BY RequestFacts DEF LoopInv
<1>2. /\ t \in [span : Spans(request.level), disks : (SUBSET DOMAIN request.drives) \ {{}}]
      /\ LegalCount(request.level, t.span, Cardinality(t.disks))
      /\ given => Cardinality(t.disks) = request.count
      /\ request.count = 0 => Cardinality(t.disks) = 0
      /\ request.target # 0
      /\ ArrayCapacity(request.drives, request.level, t.span, t.disks) >= request.target
      /\ Cardinality({request.drives[d].media : d \in t.disks}) = 1
    BY DEF Solutions, LegalSolutions, given, AutoCount
<1>3. /\ t = [span |-> t.span, disks |-> t.disks]
      /\ t.span \in Spans(request.level)
      /\ t.disks \subseteq DOMAIN request.drives /\ t.disks # {}
    BY <1>2
<1>4. IsFiniteSet(t.disks) /\ Cardinality(t.disks) \in Nat
    BY <1>1, <1>3, FS_Subset, FS_CardinalityType DEF AreDrives
<1>6. request.count # 0
    BY <1>2, <1>3, <1>4, FS_EmptySet
<1>5. \E ds \in MediaGroups : t.disks \subseteq ds
    <2> DEFINE kinds == {request.drives[d].media : d \in t.disks}
    <2>1. IsFiniteSet(kinds)
        <3> DEFINE f == [d \in t.disks |-> request.drives[d].media]
        <3>1. f \in Surjection(t.disks, kinds)
            BY DEF Surjection
        <3> HIDE DEF f, kinds
        <3> QED BY <1>4, <3>1, FS_Surjection
    <2>2. PICK m : kinds = {m}
        <3> HIDE DEF kinds
        <3>1. Cardinality(kinds) = 1
            BY <1>2 DEF kinds
        <3> QED BY <2>1, <3>1, FS_Singleton
    <2>3. \A d \in t.disks : request.drives[d].media = m
        BY <2>2
    <2>4. PICK d \in t.disks : TRUE
        BY <1>3
    <2> DEFINE ds == {e \in DOMAIN request.drives : request.drives[e].media = request.drives[d].media}
    <2>5. ds \in MediaGroups
        BY <1>3, <2>4 DEF MediaGroups
    <2>6. t.disks \subseteq ds
        BY <1>3, <2>3, <2>4
    <2> QED BY <2>5, <2>6
<1> QED BY <1>2, <1>3, <1>4, <1>5, <1>6

\* Arrays are ranked, and what does not beat is a total order of them.
LEMMA BeatsIsAnOrder ==
    ASSUME LoopInv, NEW s \in Solutions, NEW t \in Solutions, NEW u \in Solutions
    PROVE  /\ ~ Beats(s, s)
           /\ Beats(s, t) => ~ Beats(t, s)
           /\ ~ Beats(t, s) /\ ~ Beats(u, t) => ~ Beats(u, s)
<1> DEFINE rank(a) == Rank(request.drives, request.level, request.target, a)
<1>1. AreDrives(request.drives) /\ request.level \in DOMAIN RAID_SETTINGS
    BY RequestFacts DEF LoopInv
<1>2. \A a \in Solutions : IsRank(rank(a))
    <2> SUFFICES ASSUME NEW a \in Solutions PROVE IsRank(rank(a))
        OBVIOUS
    <2>1. a.span \in Spans(request.level) /\ a.disks \subseteq DOMAIN request.drives /\ a.disks # {}
        BY SolutionFacts
    <2> QED BY <1>1, <2>1, RankIsRank
<1>3. \A a, b : Beats(a, b) <=> Before(rank(a), rank(b))
    BY DEF Beats
<1> HIDE DEF rank
<1>4. IsRank(rank(s)) /\ IsRank(rank(t)) /\ IsRank(rank(u))
    BY <1>2
<1>5. /\ ~ Before(rank(s), rank(s))
      /\ Before(rank(s), rank(t)) => ~ Before(rank(t), rank(s))
      /\ ~ Before(rank(t), rank(s)) /\ ~ Before(rank(u), rank(t)) => ~ Before(rank(u), rank(s))
    BY <1>4, RanksAreOrdered
<1> QED BY <1>3, <1>5

\* A number of disks that the loops try is legal.
LEMMA TriedIsLegal ==
    ASSUME LoopInv, pc = "window"
    PROVE  /\ LegalCount(request.level, span, required_disk_count)
           /\ given => required_disk_count = request.count
           /\ required_disk_count - Overhead(request.level, span) \in Nat \ {0}
           /\ Overhead(request.level, span) \in Nat
<1>1. /\ request.level \in DOMAIN RAID_SETTINGS /\ request.count \in Nat \cup {AutoCount}
      /\ span \in Spans(request.level) /\ suits_span
      /\ required_disk_count \in Nat /\ required_disk_count % span = 0
      /\ required_disk_count >= min_disks /\ required_disk_count <= max_disk_count
    BY RequestFacts DEF LoopInv, InSpan
<1>2. required_disk_count <= max_disks
    BY <1>1, DiskNumbers
<1>3. given => required_disk_count = request.count
    BY <1>1, <1>2 DEF min_disks, max_disks, given, AutoCount
<1>4. LegalCount(request.level, span, required_disk_count)
    <2>1. CASE given
        BY <1>1, <1>3, <2>1 DEF suits_span
    <2>2. CASE ~ given
        <3>1. /\ required_disk_count >= RAID_SETTINGS[request.level].min_disks * span
              /\ required_disk_count <= RAID_SETTINGS[request.level].max_disks * span
            BY <1>1, <1>2, <2>2 DEF min_disks, max_disks, limits
        <3> QED BY <1>1, <3>1, LegalCountIs
    <2> QED BY <2>1, <2>2
<1>5. /\ Overhead(request.level, span) \in Nat
      /\ required_disk_count - Overhead(request.level, span) >= 1
    BY <1>1, <1>4, LegalLeavesRoom
<1> QED BY <1>1, <1>3, <1>4, <1>5

\* The array of the i-th window.
WindowArray(i) ==
    [span |-> span,
     disks |-> WindowSet(request.drives, matched_disks, i, required_disk_count)]

\* What the lemmas about windows need to know.
LEMMA WindowContext ==
    ASSUME LoopInv, pc = "window", NEW i \in 1..cases
    PROVE  /\ IsFiniteSet(matched_disks) /\ matched_disks \subseteq Int
           /\ matched_disks \subseteq disks_by_media_type
           /\ \A d \in matched_disks : request.drives[d].capacity \in Nat
           /\ required_disk_count \in Nat \ {0} /\ i \in Nat \ {0}
           /\ i + required_disk_count - 1 <= Cardinality(matched_disks)
           /\ WindowHolds(request.drives, matched_disks, i, required_disk_count)
<1>1. /\ IsFiniteSet(matched_disks) /\ matched_disks \subseteq disks_by_media_type
      /\ disks_by_media_type \subseteq Int
      /\ \A d \in disks_by_media_type : request.drives[d].capacity \in Nat
      /\ Cardinality(matched_disks) \in Nat /\ required_disk_count \in Nat
    BY DiskNumbers DEF LoopInv
<1>2. required_disk_count # 0
    BY <1>1, TriedIsLegal
<1>3. i \in Nat \ {0} /\ i + required_disk_count - 1 <= Cardinality(matched_disks)
    BY <1>1 DEF cases
<1>4. matched_disks \subseteq Int /\ \A d \in matched_disks : request.drives[d].capacity \in Nat
    BY <1>1
<1>5. required_disk_count \in Nat \ {0}
    BY <1>1, <1>2
<1>6. WindowHolds(request.drives, matched_disks, i, required_disk_count)
    BY <1>1, <1>3, <1>4, <1>5, WindowFacts
<1> QED BY <1>1, <1>3, <1>4, <1>5, <1>6

\* Every window is an array that could be made.
LEMMA WindowIsSolution ==
    ASSUME Python = 3, LoopInv, pc = "window", request.target # 0, request.count # 0, NEW i \in 1..cases
    PROVE  /\ WindowArray(i) \in Solutions
           /\ WindowArray(i).span = span
           /\ WindowArray(i).disks \subseteq disks_by_media_type
           /\ Cardinality(WindowArray(i).disks) = required_disk_count
           /\ sorted_matched_disks[i] \in WindowArray(i).disks
<1>0. request.count \in Nat \cup {AutoCount}
    BY RequestFacts DEF LoopInv
<1> DEFINE n == required_disk_count
           W == WindowSet(request.drives, matched_disks, i, n)
           over == Overhead(request.level, span)
<1>1. /\ AreDrives(request.drives) /\ request.target \in Int
      /\ disks_by_media_type \in MediaGroups /\ span \in Spans(request.level)
    BY RequestFacts DEF LoopInv, InLoops, InSpan, MAX_CAPACITY
<1>2. /\ matched_disks \subseteq disks_by_media_type
      /\ W \subseteq matched_disks /\ sorted_matched_disks[i] \in W
      /\ IsFiniteSet(W) /\ Cardinality(W) = n
      /\ n \in Nat \ {0}
    BY WindowContext DEF WindowHolds, sorted_matched_disks
<1>3. /\ disks_by_media_type \subseteq DOMAIN request.drives
      /\ \A d, e \in disks_by_media_type : request.drives[d].media = request.drives[e].media
      /\ \A d \in disks_by_media_type : request.drives[d].capacity \in Nat
    BY <1>1, GroupFacts
<1>4. /\ LegalCount(request.level, span, n)
      /\ given => n = request.count
      /\ n - over \in Nat \ {0}
    BY TriedIsLegal
<1> HIDE DEF W
<1>5. W \in (SUBSET DOMAIN request.drives) \ {{}}
    BY <1>2, <1>3
<1>6. Cardinality({request.drives[d].media : d \in W}) = 1
    <2>1. PICK d \in W : TRUE
        BY <1>2
    <2>2. {request.drives[e].media : e \in W} = {request.drives[d].media}
        BY <1>2, <1>3, <2>1
    <2> QED BY <2>2, FS_Singleton
<1>7. ArrayCapacity(request.drives, request.level, span, W) >= request.target
    <2>1. PICK d \in W : Smallest(request.drives, W) = request.drives[d].capacity
        BY <1>2, <1>3, SmallestIsOne
    <2>2. PICK c \in Nat : c = request.drives[d].capacity
        BY <1>2, <1>3, <2>1
    <2>3. c >= required_capacity(request.target, n - over)
        BY <1>2, <2>1, <2>2 DEF matched_disks
    <2>4. c * (n - over) >= request.target
        <3> HIDE DEF n, over
        <3>1. PICK m \in Nat \ {0} : m = n - over
            BY <1>4
        <3> QED BY <1>1, <2>3, <3>1, RequiredIsEnough
    <2> QED BY <1>2, <2>1, <2>2, <2>4 DEF ArrayCapacity
<1>8. WindowArray(i) = [span |-> span, disks |-> W]
    BY DEF WindowArray, W
<1>9. WindowArray(i) \in Solutions
    <2> DEFINE a == WindowArray(i)
    <2>1. a.span = span /\ a.disks = W
        BY <1>8
    <2>2. a \in [span : Spans(request.level), disks : (SUBSET DOMAIN request.drives) \ {{}}]
        BY <1>1, <1>5, <1>8
    <2> HIDE DEF a
    <2>3. /\ Cardinality({request.drives[d].media : d \in a.disks}) = 1
          /\ LegalCount(request.level, a.span, Cardinality(a.disks))
          /\ request.count # AutoCount => Cardinality(a.disks) = request.count
          /\ ArrayCapacity(request.drives, request.level, a.span, a.disks) >= request.target
        BY <1>0, <1>2, <1>4, <1>6, <1>7, <2>1 DEF given, AutoCount
    <2>4. a \in Solutions
        BY <2>2, <2>3 DEF Solutions, LegalSolutions
    <2> QED BY <2>4 DEF a
<1> QED BY <1>2, <1>8, <1>9

\* The disks of an array of the present size are large enough to match.
LEMMA SolutionMatches ==
    ASSUME Python = 3, LoopInv, InSpan, NEW t \in Solutions, t.span = span,
           t.disks \subseteq disks_by_media_type, Cardinality(t.disks) = required_disk_count
    PROVE  t.disks \subseteq matched_disks
<1> DEFINE n == required_disk_count
           over == Overhead(request.level, span)
<1>1. /\ request.level \in DOMAIN RAID_SETTINGS /\ request.target \in Int
    BY RequestFacts DEF LoopInv, MAX_CAPACITY
<1>2. /\ t.disks # {} /\ n \in Nat /\ LegalCount(request.level, span, n)
      /\ span \in Spans(request.level)
      /\ ArrayCapacity(request.drives, request.level, span, t.disks) >= request.target
    BY SolutionFacts
<1>3. n - over \in Nat \ {0}
    BY <1>1, <1>2, LegalLeavesRoom
<1>4. \A d \in t.disks : request.drives[d].capacity \in Nat
    BY DiskNumbers
<1>5. PICK c \in Nat : c = Smallest(request.drives, t.disks)
    BY <1>2, <1>4, SmallestIsOne
<1>6. c * (n - over) >= request.target
    BY <1>2, <1>5 DEF ArrayCapacity
<1>7. c >= required_capacity(request.target, n - over) /\ required_capacity(request.target, n - over) \in Int
    <2> HIDE DEF n, over
    <2>1. PICK m \in Nat \ {0} : m = n - over
        BY <1>3
    <2> QED BY <1>1, <1>6, <2>1, RequiredIsEnough
<1>8. \A d \in t.disks : request.drives[d].capacity >= c
    <2> DEFINE C == {request.drives[d].capacity : d \in t.disks}
    <2>1. C \subseteq Nat /\ C # {}
        BY <1>2, <1>4
    <2>2. \A x \in C : Min(C) <= x
        <3> HIDE DEF C
        <3>1. PICK m \in C : \A x \in C : m <= x
            BY <2>1, LeastNumber
        <3> QED BY <3>1, Zenon DEF Min
    <2>3. Min(C) = c
        BY <1>5 DEF Smallest
    <2>4. \A d \in t.disks : request.drives[d].capacity \in C
        OBVIOUS
    <2> HIDE DEF C
    <2> QED BY <1>4, <2>2, <2>3, <2>4
<1>9. \A d \in t.disks : request.drives[d].capacity >= required_capacity(request.target, n - over)
    BY <1>4, <1>7, <1>8
<1> QED BY <1>9 DEF matched_disks

\* The first place where an array of matched disks has one, and what is left
\* from there.
LEMMA FirstPlace ==
    ASSUME LoopInv, NEW t, t \subseteq matched_disks, t # {}
    PROVE  \E i \in 1..Cardinality(matched_disks) :
            /\ sorted_matched_disks[i] \in t
            /\ \A k \in 1..(i - 1) : sorted_matched_disks[k] \notin t
            /\ i + Cardinality(t) - 1 <= Cardinality(matched_disks)
<1> DEFINE M == matched_disks
           N == Cardinality(M)
           s == sorted_matched_disks
           P == {i \in 1..N : s[i] \in t}
<1>1. /\ IsFiniteSet(M) /\ M \subseteq Int /\ N \in Nat
      /\ \A d \in M : request.drives[d].capacity \in Nat
    BY DiskNumbers DEF LoopInv
<1>2. s \in [1..N -> M] /\ \A d \in M : \E i \in 1..N : s[i] = d
    BY <1>1, SortedIsInOrder DEF sorted_matched_disks
<1> HIDE DEF s, M, N
<1>3. t \subseteq M
    BY DEF M
<1>4. P # {} /\ P \subseteq Nat
    BY <1>2, <1>3
<1>5. PICK i \in P : \A k \in P : i <= k
    <2> HIDE DEF P
    <2> QED BY <1>4, LeastNumber
<1>6. i \in 1..N /\ s[i] \in t /\ \A k \in 1..(i - 1) : s[k] \notin t
    <2>1. i \in 1..N /\ s[i] \in t
        BY <1>5
    <2>2. ASSUME NEW k \in 1..(i - 1), s[k] \in t PROVE FALSE
        <3>1. k \in 1..N /\ k < i
            BY <1>1, <2>1
        <3>2. k \in P
            BY <2>2, <3>1
        <3> QED BY <1>5, <3>1, <3>2
    <2> QED BY <2>1, <2>2
<1>7. Cardinality(t) <= N - i + 1
    <2> DEFINE I == i..N
               L == {s[k] : k \in I}
               f == [k \in I |-> s[k]]
    <2>1. IsFiniteSet(I) /\ Cardinality(I) = N - i + 1
        <3>1. i \in Int /\ N \in Int /\ i <= N
            BY <1>1, <1>6
        <3> QED BY <3>1, FS_Interval
    <2>2. f \in Surjection(I, L)
        <3> HIDE DEF I
        <3> QED BY DEF Surjection
    <2>3. IsFiniteSet(L) /\ Cardinality(L) <= N - i + 1
        <3> HIDE DEF I, L, f
        <3> QED BY <2>1, <2>2, FS_Surjection
    <2>4. t \subseteq L
        <3> SUFFICES ASSUME NEW d \in t PROVE d \in L
            OBVIOUS
        <3>1. PICK k \in 1..N : s[k] = d
            BY <1>2, <1>3
        <3>2. k \in P
            BY <3>1
        <3>3. k \in I
            BY <1>1, <1>5, <1>6, <3>1, <3>2
        <3> QED BY <3>1, <3>3
    <2>5. Cardinality(t) <= Cardinality(L) /\ IsFiniteSet(t)
        <3> HIDE DEF L
        <3> QED BY <2>3, <2>4, FS_Subset
    <2>6. Cardinality(t) \in Nat /\ Cardinality(L) \in Nat
        BY <2>3, <2>5, FS_CardinalityType
    <2> HIDE DEF L, I
    <2> QED BY <1>1, <1>6, <2>3, <2>5, <2>6
<1>8. i + Cardinality(t) - 1 <= N
    <2>1. IsFiniteSet(t)
        BY <1>1, <1>3, FS_Subset
    <2>2. Cardinality(t) \in Nat
        BY <2>1, FS_CardinalityType
    <2> QED BY <1>1, <1>6, <1>7, <2>2
<1> QED BY <1>6, <1>8 DEF s, M, N

\* No array that starts where a window starts, and has as many disks, or more
\* where size is not what counts, beats the window.
LEMMA WindowIsUnbeaten ==
    ASSUME Python = 3, LoopInv, pc = "window", NEW i \in 1..cases,
           NEW t \in Solutions, t.span = span, t.disks \subseteq matched_disks,
           Cardinality(t.disks) >= required_disk_count,
           Cardinality(t.disks) = required_disk_count \/ request.target # MAX_CAPACITY,
           sorted_matched_disks[i] \in t.disks,
           \A k \in 1..(i - 1) : sorted_matched_disks[k] \notin t.disks
    PROVE  ~ Beats(t, WindowArray(i))
<1> DEFINE drives == request.drives
           n == required_disk_count
           a == WindowArray(i)
           W == WindowSet(drives, matched_disks, i, n)
           rank(b) == Rank(drives, request.level, request.target, b)
<1>1. AreDrives(drives) /\ request.level \in DOMAIN RAID_SETTINGS
    BY RequestFacts DEF LoopInv
<1>2. request.target # 0 /\ request.count # 0 /\ t.span \in Spans(request.level)
      /\ t.disks \subseteq DOMAIN drives /\ t.disks # {} /\ Cardinality(t.disks) \in Nat
    BY SolutionFacts
<1>3. a \in Solutions /\ a.span = span /\ Cardinality(a.disks) = n
    BY <1>2, WindowIsSolution
<1>4. a.span \in Spans(request.level) /\ a.disks \subseteq DOMAIN drives /\ a.disks # {}
    BY <1>3, SolutionFacts
<1>5. /\ Smallest(drives, t.disks) = Smallest(drives, W)
      /\ DisksTotal(drives, W) <= DisksTotal(drives, t.disks)
      /\ Waste(drives, W) <= Waste(drives, t.disks)
    BY WindowContext, WindowIsLeast DEF sorted_matched_disks
<1>6. a.disks = W
    BY DEF WindowArray
<1> HIDE DEF a, W
<1>7. /\ IsRank(rank(t)) /\ IsRank(rank(a))
      /\ rank(t)[1] = (IF request.target = MAX_CAPACITY
                       THEN - ArrayCapacity(drives, request.level, t.span, t.disks) ELSE 0)
      /\ rank(a)[1] = (IF request.target = MAX_CAPACITY
                       THEN - ArrayCapacity(drives, request.level, a.span, a.disks) ELSE 0)
      /\ rank(t)[2] = Waste(drives, t.disks) /\ rank(a)[2] = Waste(drives, a.disks)
      /\ rank(t)[3] = DisksTotal(drives, t.disks) /\ rank(a)[3] = DisksTotal(drives, a.disks)
      /\ rank(t)[4] = Cardinality(t.disks) /\ rank(a)[4] = Cardinality(a.disks)
    BY <1>1, <1>2, <1>4, RankIsRank
<1>8. rank(t)[1] = rank(a)[1]
    <2>1. CASE request.target = MAX_CAPACITY
        <3>1. Cardinality(t.disks) = Cardinality(a.disks)
            BY <1>3, <2>1
        <3>2. ArrayCapacity(drives, request.level, t.span, t.disks)
                = ArrayCapacity(drives, request.level, a.span, a.disks)
            BY <1>3, <1>5, <1>6, <3>1, Zenon DEF ArrayCapacity
        <3> QED BY <1>7, <3>2
    <2>2. CASE request.target # MAX_CAPACITY
        BY <1>7, <2>2
    <2> QED BY <2>1, <2>2
<1>9. rank(a)[2] <= rank(t)[2] /\ rank(a)[3] <= rank(t)[3] /\ rank(a)[4] <= rank(t)[4]
    BY <1>3, <1>5, <1>6, <1>7
<1> HIDE DEF rank
<1>10. ~ Lex(rank(t), rank(a))
    <2>1. PICK r1 \in Int, r2 \in Int, r3 \in Int, r4 \in Int :
            r1 = rank(t)[1] /\ r2 = rank(t)[2] /\ r3 = rank(t)[3] /\ r4 = rank(t)[4]
        BY <1>7 DEF IsRank
    <2>2. PICK q1 \in Int, q2 \in Int, q3 \in Int, q4 \in Int :
            q1 = rank(a)[1] /\ q2 = rank(a)[2] /\ q3 = rank(a)[3] /\ q4 = rank(a)[4]
        BY <1>7 DEF IsRank
    <2> QED BY <1>8, <1>9, <2>1, <2>2 DEF Lex
<1>11. ~ Before(rank(t), rank(a))
    BY <1>7, <1>10, BeforeIsLex
<1> QED BY <1>11 DEF Beats, rank, a

\* The best solution is there, and this array does not beat it.
Unbeaten(t) == best_solution # None /\ ~ Beats(t, AsSolution(best_solution))

\* A turn that leaves the best solution, and passes only arrays that do not
\* beat it, keeps the invariant.
LEMMA QuietTurn ==
    ASSUME FindInv, request' = request, best_solution' = best_solution,
           \A t \in Solutions : Passed(t)' => Passed(t) \/ Unbeaten(t)
    PROVE  FindInv'
<1>1. Solutions' = Solutions /\ \A s, t : Beats(s, t)' <=> Beats(s, t)
    BY DEF Solutions, Beats
<1>2. (best_solution # None => AsSolution(best_solution) \in Solutions)'
    BY <1>1 DEF FindInv
<1>3. \A t \in Solutions : Unbeaten(t)' <=> Unbeaten(t)
    BY <1>1 DEF Unbeaten
<1>4. \A t \in Solutions : Passed(t) => Unbeaten(t)
    BY DEF FindInv, Unbeaten
<1>5. \A t \in Solutions : Passed(t)' => Unbeaten(t)'
    BY <1>3, <1>4
<1>6. (\A t \in Solutions : Passed(t) => Unbeaten(t))'
    BY <1>1, <1>5
<1> QED BY <1>2, <1>6 DEF FindInv, Unbeaten

\* The sizes of arrays with the present number of spans, or more.
LEMMA SolutionSize ==
    ASSUME LoopInv, NEW t \in Solutions, span \in Spans(request.level), span <= t.span
    PROVE  /\ Cardinality(t.disks) \in Nat /\ Cardinality(t.disks) >= min_disks
           /\ t.span = span => /\ Cardinality(t.disks) % span = 0
                               /\ Cardinality(t.disks) <= max_disks
<1>1. /\ request.level \in DOMAIN RAID_SETTINGS /\ request.count \in Nat \cup {AutoCount}
    BY RequestFacts DEF LoopInv
<1>2. /\ t.span \in Spans(request.level) /\ Cardinality(t.disks) \in Nat
      /\ LegalCount(request.level, t.span, Cardinality(t.disks))
      /\ given => Cardinality(t.disks) = request.count
    BY SolutionFacts
<1>3. PICK n \in Nat : n = Cardinality(t.disks)
    BY <1>2
<1>4. /\ n % t.span = 0
      /\ n >= RAID_SETTINGS[request.level].min_disks * t.span
      /\ n <= RAID_SETTINGS[request.level].max_disks * t.span
    BY <1>1, <1>2, <1>3, LegalCountIs
<1>5. CASE given
    BY <1>2, <1>3, <1>4, <1>5 DEF min_disks, max_disks
<1>6. CASE ~ given
    <2>1. PICK low \in Nat, k \in Nat, m \in Nat :
            low = limits.min_disks /\ k = span /\ m = t.span
        BY <1>1, <1>2, LevelFacts DEF limits
    <2>2. low * m >= low * k
        BY <2>1
    <2>3. n >= low * m
        BY <1>4, <2>1 DEF limits
    <2>4. low * m \in Nat /\ low * k \in Nat /\ min_disks = low * k
        BY <1>6, <2>1 DEF min_disks
    <2>5. n >= min_disks
        BY <2>2, <2>3, <2>4
    <2>6. t.span = span => n <= max_disks
        BY <1>4, <1>6 DEF max_disks, limits
    <2> QED BY <1>3, <1>4, <2>5, <2>6
<1> QED BY <1>5, <1>6

LEMMA MediaTurnsFind ==
    ASSUME LoopInv, FindInv, NextMediaType \/ Return \/ SpansEnd \/ SkipSpan \/ TooFewDisks \/ TrySpan
    PROVE  FindInv'
<1>0. /\ request' = request /\ best_solution' = best_solution
      /\ MediaGroups' = MediaGroups
      /\ request.level \in DOMAIN RAID_SETTINGS
    <2>1. request' = request /\ best_solution' = best_solution
        BY DEF NextMediaType, Return, SpansEnd, SkipSpan, TooFewDisks, TrySpan, found
    <2> QED BY <2>1, RequestFacts DEF MediaGroups, LoopInv
<1> SUFFICES ASSUME NEW t \in Solutions, Passed(t)' PROVE Passed(t)
    BY <1>0, QuietTurn
<1>1. /\ t.span \in Spans(request.level) /\ t.disks # {}
      /\ t.span \in Nat
    BY <1>0, SolutionFacts, LevelFacts
<1>2. CASE NextMediaType
    <2>1. PICK new \in groups : disks_by_media_type' = new /\ groups' = groups \ {new}
        BY <1>2 DEF NextMediaType
    <2>2. pc = "media" /\ pc' = "span" /\ span' = Min(Spans(request.level))
        BY <1>2 DEF NextMediaType
    <2>3. PICK ds \in MediaGroups \ groups' :
            t.disks \subseteq ds /\ (ds # disks_by_media_type' \/ t.span < span')
        BY <1>0, <2>2 DEF Passed, InLoops, InSpan
    <2>4. ~ (t.span < span')
        <3>1. PICK m \in Nat : m = Min(Spans(request.level))
            BY <1>0, SpansFollow, LevelFacts
        <3>2. m <= t.span
            BY <1>0, <1>1, <3>1, SpansFollow
        <3> QED BY <1>1, <2>2, <3>1, <3>2
    <2>5. ds \in MediaGroups \ groups
        BY <2>1, <2>3, <2>4
    <2> QED BY <2>2, <2>3, <2>5 DEF Passed, InLoops
<1>3. CASE Return
    <2>1. pc = "media" /\ groups' = groups
        BY <1>3 DEF Return, loops
    <2>2. PICK ds \in MediaGroups \ groups : t.disks \subseteq ds
        BY <1>0, <2>1 DEF Passed
    <2> QED BY <2>1, <2>2 DEF Passed, InLoops
<1>4. CASE SpansEnd \/ TooFewDisks
    <2>1. pc = "span" /\ groups' = groups
        BY <1>4 DEF SpansEnd, TooFewDisks, loops
    <2>2. PICK ds \in MediaGroups \ groups : t.disks \subseteq ds
        BY <1>0, <2>1 DEF Passed
    <2>3. ds # disks_by_media_type \/ t.span < span
        <3>1. CASE SpansEnd
            BY <1>1, <2>1, <3>1 DEF SpansEnd, LoopInv
        <3>2. CASE TooFewDisks
            <4> SUFFICES ASSUME ds = disks_by_media_type, ~ (t.span < span) PROVE FALSE
                OBVIOUS
            <4>1. /\ span \in Spans(request.level) /\ min_disks > Cardinality(disks_by_media_type)
                BY <3>2 DEF TooFewDisks
            <4>2. span <= t.span
                <5>1. span \in Nat
                    BY DEF LoopInv
                <5> QED BY <1>1, <5>1
            <4>3. Cardinality(t.disks) \in Nat /\ Cardinality(t.disks) >= min_disks
                BY <4>1, <4>2, SolutionSize
            <4>4. /\ IsFiniteSet(disks_by_media_type) /\ Cardinality(disks_by_media_type) \in Nat
                  /\ min_disks \in Nat
                BY DiskNumbers
            <4>5. Cardinality(t.disks) <= Cardinality(disks_by_media_type)
                BY <2>2, <4>4, FS_Subset
            <4> QED BY <4>1, <4>3, <4>4, <4>5
        <3> QED BY <1>4, <3>1, <3>2
    <2> QED BY <2>1, <2>2, <2>3 DEF Passed
<1>5. CASE SkipSpan
    <2>1. /\ pc = "span" /\ pc' = "span" /\ groups' = groups /\ span' = span + 1
          /\ disks_by_media_type' = disks_by_media_type
          /\ span \in Spans(request.level) /\ ~ suits_span
        BY <1>5 DEF SkipSpan
    <2>2. PICK ds \in MediaGroups \ groups :
            t.disks \subseteq ds /\ (ds # disks_by_media_type \/ t.span < span + 1)
        BY <1>0, <2>1 DEF Passed, InLoops, InSpan
    <2>3. t.span # span
        BY <2>1, SolutionFacts DEF suits_span
    <2>4. span \in Nat
        BY DEF LoopInv
    <2>5. t.span < span + 1 => t.span < span
        BY <1>1, <2>3, <2>4
    <2> QED BY <2>1, <2>2, <2>5 DEF Passed
<1>6. CASE TrySpan
    <2>1. /\ pc = "span" /\ pc' = "count" /\ groups' = groups /\ span' = span
          /\ disks_by_media_type' = disks_by_media_type /\ required_disk_count' = min_disks
          /\ span \in Spans(request.level)
        BY <1>6 DEF TrySpan
    <2>2. PICK ds \in MediaGroups \ groups :
            /\ t.disks \subseteq ds
            /\ \/ ds # disks_by_media_type
               \/ t.span < span
               \/ t.span = span /\ Cardinality(t.disks) < min_disks
        BY <1>0, <2>1 DEF Passed, InLoops, InSpan
    <2>3. ~ (t.span = span /\ Cardinality(t.disks) < min_disks)
        <3> SUFFICES ASSUME t.span = span, Cardinality(t.disks) < min_disks PROVE FALSE
            OBVIOUS
        <3>1. span <= t.span
            BY <1>1
        <3>2. Cardinality(t.disks) \in Nat /\ Cardinality(t.disks) >= min_disks
            BY <2>1, <3>1, SolutionSize
        <3>3. min_disks \in Nat
            BY DiskNumbers
        <3> QED BY <3>2, <3>3
    <2> QED BY <2>1, <2>2, <2>3 DEF Passed
<1> QED BY <1>2, <1>3, <1>4, <1>5, <1>6

\* The arrays that the next number of disks passes have as many disks as the
\* present one, at most.
LEMMA NextCountPasses ==
    ASSUME LoopInv, InSpan, NextCount, UNCHANGED <<request, groups, disks_by_media_type>>,
           NEW t \in Solutions, Passed(t)'
    PROVE  Passed(t) \/ /\ t.span = span /\ t.disks \subseteq disks_by_media_type
                        /\ Cardinality(t.disks) = required_disk_count
<1>1. /\ MediaGroups' = MediaGroups /\ groups' = groups /\ pc' = "count" /\ span' = span
      /\ disks_by_media_type' = disks_by_media_type
      /\ required_disk_count' = required_disk_count + span
    BY DEF NextCount, MediaGroups
<1>2. PICK ds \in MediaGroups \ groups :
        /\ t.disks \subseteq ds
        /\ \/ ds # disks_by_media_type
           \/ t.span < span
           \/ t.span = span /\ Cardinality(t.disks) < required_disk_count + span
    BY <1>1 DEF Passed, InLoops, InSpan
<1>3. CASE ds # disks_by_media_type \/ t.span < span
    BY <1>2, <1>3 DEF Passed
<1>4. CASE ds = disks_by_media_type /\ t.span = span /\ Cardinality(t.disks) < required_disk_count + span
    <2>1. /\ span \in Spans(request.level) /\ span \in Nat \ {0}
          /\ required_disk_count \in Nat /\ required_disk_count % span = 0
        BY DiskNumbers DEF LoopInv, InSpan
    <2>2. PICK n \in Nat : n = Cardinality(t.disks) /\ n % span = 0
        <3>1. span <= t.span
            BY <1>4, <2>1
        <3> QED BY <1>4, <2>1, <3>1, SolutionSize
    <2>3. ~ (n > required_disk_count)
        <3>1. \A m \in Nat : m % span = 0 /\ m > required_disk_count => m >= required_disk_count + span
            BY <2>1, NextMultiple
        <3> QED BY <1>4, <2>1, <2>2, <3>1
    <2>4. n < required_disk_count \/ n = required_disk_count
        BY <2>1, <2>2, <2>3
    <2> QED BY <1>2, <1>4, <2>2, <2>4 DEF Passed, InSpan
<1> QED BY <1>2, <1>3, <1>4

\* The arrays that the next number of spans passes have as many spans as the
\* present one, at most.
LEMMA NextSpanPasses ==
    ASSUME LoopInv, InSpan, NextSpan, UNCHANGED <<request, groups, disks_by_media_type>>,
           NEW t \in Solutions, Passed(t)'
    PROVE  Passed(t) \/ /\ t.span = span /\ t.disks \subseteq disks_by_media_type
                        /\ disks_by_media_type \in MediaGroups \ groups
                        /\ Cardinality(t.disks) \in Nat
                        /\ Cardinality(t.disks) >= required_disk_count
<1>1. /\ MediaGroups' = MediaGroups /\ groups' = groups /\ pc' = "span" /\ span' = span + 1
      /\ disks_by_media_type' = disks_by_media_type
    BY DEF NextSpan, MediaGroups
<1>2. PICK ds \in MediaGroups \ groups :
        t.disks \subseteq ds /\ (ds # disks_by_media_type \/ t.span < span + 1)
    BY <1>1 DEF Passed, InLoops, InSpan
<1>3. CASE ds # disks_by_media_type \/ t.span < span
    BY <1>2, <1>3 DEF Passed
<1>4. CASE ds = disks_by_media_type /\ ~ (t.span < span)
    <2>1. t.span \in Nat /\ span \in Nat
        BY RequestFacts, SolutionFacts, LevelFacts DEF LoopInv
    <2>2. t.span = span
        BY <1>2, <1>4, <2>1
    <2>3. PICK n \in Nat : n = Cardinality(t.disks)
        BY SolutionFacts
    <2>4. required_disk_count \in Nat
        BY DEF LoopInv
    <2>5. n < required_disk_count \/ n >= required_disk_count
        BY <2>3, <2>4
    <2> QED BY <1>2, <1>4, <2>2, <2>3, <2>5 DEF Passed, InSpan
<1> QED BY <1>2, <1>3, <1>4

\* Once its windows have been compared, every array of a number of disks has
\* been passed.
LEMMA WindowsPass ==
    ASSUME Python = 3, LoopInv, pc = "window", start > cases, NEW t \in Solutions,
           t.span = span, t.disks \subseteq disks_by_media_type,
           Cardinality(t.disks) = required_disk_count
    PROVE  Passed(t)
<1>1. t.disks \subseteq matched_disks /\ t.disks # {}
    BY SolutionMatches, SolutionFacts DEF InSpan
<1>2. PICK i \in 1..Cardinality(matched_disks) :
        /\ sorted_matched_disks[i] \in t.disks
        /\ i + Cardinality(t.disks) - 1 <= Cardinality(matched_disks)
    BY <1>1, FirstPlace
<1>3. Cardinality(matched_disks) \in Nat /\ required_disk_count \in Nat /\ start \in Nat
    BY DiskNumbers DEF LoopInv
<1>4. i \in 1..(start - 1)
    BY <1>2, <1>3 DEF cases
<1>5. disks_by_media_type \in MediaGroups \ groups
    BY DEF LoopInv, InLoops
<1> QED BY <1>2, <1>4, <1>5 DEF Passed

\* When all disks match, an array of more disks starts where a window does
\* that it does not beat.
LEMMA MoreWouldWaste ==
    ASSUME Python = 3, LoopInv, FindInv, pc = "window", start > cases, more_would_waste,
           NEW t \in Solutions, t.span = span, t.disks \subseteq disks_by_media_type,
           Cardinality(t.disks) \in Nat, Cardinality(t.disks) >= required_disk_count
    PROVE  Unbeaten(t)
<1>1. t.disks \subseteq matched_disks /\ t.disks # {} /\ request.target # 0 /\ request.count # 0
      /\ request.target # MAX_CAPACITY
    BY SolutionFacts DEF more_would_waste, MAX_CAPACITY
<1>2. PICK i \in 1..Cardinality(matched_disks) :
        /\ sorted_matched_disks[i] \in t.disks
        /\ \A k \in 1..(i - 1) : sorted_matched_disks[k] \notin t.disks
        /\ i + Cardinality(t.disks) - 1 <= Cardinality(matched_disks)
    BY <1>1, FirstPlace
<1>3. Cardinality(matched_disks) \in Nat /\ required_disk_count \in Nat /\ start \in Nat
    BY DiskNumbers DEF LoopInv
<1>4. i \in 1..cases /\ i \in 1..(start - 1)
    BY <1>2, <1>3 DEF cases
<1> DEFINE w == WindowArray(i)
<1>5. /\ w \in Solutions /\ w.span = span /\ w.disks \subseteq disks_by_media_type
      /\ Cardinality(w.disks) = required_disk_count
      /\ sorted_matched_disks[i] \in w.disks
    BY <1>1, <1>4, WindowIsSolution
<1>6. ~ Beats(t, w)
    BY <1>1, <1>2, <1>4, WindowIsUnbeaten
<1> HIDE DEF w
<1>7. Passed(w)
    <2>1. disks_by_media_type \in MediaGroups \ groups
        BY DEF LoopInv, InLoops
    <2> QED BY <1>4, <1>5, <2>1 DEF Passed
<1>8. /\ best_solution # None /\ ~ Beats(w, AsSolution(best_solution))
      /\ AsSolution(best_solution) \in Solutions
    BY <1>5, <1>7 DEF FindInv
<1>9. ~ Beats(t, AsSolution(best_solution))
    BY <1>5, <1>6, <1>8, BeatsIsAnOrder
<1> QED BY <1>8, <1>9 DEF Unbeaten

LEMMA CountTurnsFind ==
    ASSUME Python = 3, LoopInv, FindInv, CountsEnd \/ NotEnoughMatch \/ TryCount \/ WindowsEnd
    PROVE  FindInv'
<1>0. /\ request' = request /\ best_solution' = best_solution
      /\ groups' = groups /\ disks_by_media_type' = disks_by_media_type /\ InSpan
    BY DEF CountsEnd, NotEnoughMatch, TryCount, WindowsEnd, found, InSpan
<1> SUFFICES ASSUME NEW t \in Solutions, Passed(t)' PROVE Passed(t) \/ Unbeaten(t)
    BY <1>0, QuietTurn
<1>1. CASE CountsEnd
    <2>1. NextSpan /\ required_disk_count > max_disk_count
        BY <1>1 DEF CountsEnd
    <2> SUFFICES ASSUME t.span = span, t.disks \subseteq disks_by_media_type,
                        Cardinality(t.disks) \in Nat, Cardinality(t.disks) >= required_disk_count
                 PROVE  FALSE
        BY <1>0, <2>1, NextSpanPasses
    <2>2. span \in Spans(request.level) /\ span <= t.span /\ required_disk_count \in Nat
        BY <1>0, DiskNumbers DEF LoopInv
    <2>3. PICK n \in Nat : n = Cardinality(t.disks) /\ n <= max_disks /\ n >= required_disk_count
        BY <2>2, SolutionSize
    <2>4. IsFiniteSet(disks_by_media_type) /\ Cardinality(disks_by_media_type) \in Nat
        BY DiskNumbers
    <2>5. n <= Cardinality(disks_by_media_type)
        BY <2>3, <2>4, FS_Subset
    <2>6. n <= max_disk_count
        BY <2>3, <2>5, DiskNumbers
    <2>7. required_disk_count <= max_disk_count
        <3>1. max_disk_count \in Int
            BY <2>4, DiskNumbers, MinOfTwo DEF max_disk_count
        <3> QED BY <2>2, <2>3, <2>6, <3>1
    <2>8. max_disk_count \in Int
        BY <2>4, DiskNumbers, MinOfTwo DEF max_disk_count
    <2> QED BY <2>1, <2>2, <2>7, <2>8
<1>2. CASE NotEnoughMatch
    <2>1. NextCount /\ Cardinality(matched_disks) < required_disk_count
        BY <1>2 DEF NotEnoughMatch
    <2> SUFFICES ASSUME t.span = span, t.disks \subseteq disks_by_media_type,
                        Cardinality(t.disks) = required_disk_count
                 PROVE  FALSE
        BY <1>0, <2>1, NextCountPasses
    <2>2. t.disks \subseteq matched_disks
        BY <1>0, SolutionMatches
    <2>3. IsFiniteSet(matched_disks) /\ Cardinality(matched_disks) \in Nat /\ required_disk_count \in Nat
        BY DiskNumbers DEF LoopInv
    <2>4. Cardinality(t.disks) <= Cardinality(matched_disks)
        BY <2>2, <2>3, FS_Subset
    <2> QED BY <2>1, <2>3, <2>4
<1>3. CASE TryCount
    <2>1. /\ pc = "count" /\ pc' = "window" /\ start' = 1 /\ span' = span
          /\ required_disk_count' = required_disk_count
        BY <1>3 DEF TryCount
    <2>2. MediaGroups' = MediaGroups
        BY <1>0 DEF MediaGroups
    <2>3. 1..(start' - 1) = {}
        BY <2>1
    <2> QED BY <1>0, <2>1, <2>2, <2>3 DEF Passed, InLoops, InSpan
<1>4. CASE WindowsEnd /\ NextCount
    <2>1. pc = "window" /\ start > cases
        BY <1>4 DEF WindowsEnd
    <2> SUFFICES ASSUME t.span = span, t.disks \subseteq disks_by_media_type,
                        Cardinality(t.disks) = required_disk_count
                 PROVE  Passed(t)
        BY <1>0, <1>4, NextCountPasses
    <2> QED BY <2>1, WindowsPass
<1>5. CASE WindowsEnd /\ more_would_waste /\ NextSpan
    <2>1. pc = "window" /\ start > cases
        BY <1>5 DEF WindowsEnd
    <2> SUFFICES ASSUME t.span = span, t.disks \subseteq disks_by_media_type,
                        Cardinality(t.disks) \in Nat, Cardinality(t.disks) >= required_disk_count
                 PROVE  Unbeaten(t)
        BY <1>0, <1>5, NextSpanPasses
    <2> QED BY <1>5, <2>1, MoreWouldWaste
<1> QED BY <1>1, <1>2, <1>3, <1>4, <1>5 DEF WindowsEnd

\* Comparing a window passes the arrays that start where it does, and the
\* better of it and the best so far is as good as either.
LEMMA TryWindowFinds ==
    ASSUME Python = 3, LoopInv, BestInv, FindInv, request.count # 0, TryWindow
    PROVE  FindInv'
<1>0. /\ request' = request /\ groups' = groups /\ disks_by_media_type' = disks_by_media_type
      /\ pc = "window" /\ pc' = "window" /\ span' = span
      /\ required_disk_count' = required_disk_count
      /\ start <= cases /\ start' = start + 1
      /\ best_solution' =
            IF is_better_than(request.drives, request.level, request.target, window, best_solution)
            THEN window ELSE best_solution
    BY DEF TryWindow
<1>1. /\ AreDrives(request.drives) /\ request.level \in DOMAIN RAID_SETTINGS
      /\ request.target \in Nat \cup {MAX_CAPACITY}
    BY RequestFacts DEF LoopInv
<1>2. MediaGroups' = MediaGroups /\ matched_disks' = matched_disks
      /\ sorted_matched_disks' = sorted_matched_disks
    BY <1>0, LoopsStay DEF sorted_matched_disks
<1>3. Solutions' = Solutions /\ \A s, t : Beats(s, t)' <=> Beats(s, t)
    BY <1>0 DEF Solutions, Beats
<1>4. /\ IsWindow(window) /\ window.span = span
      /\ ToSet(window.disks) = WindowSet(request.drives, matched_disks, start, required_disk_count)
    BY <1>0, WindowIsWindow
<1> DEFINE a == AsSolution(window)
           b == AsSolution(best_solution)
<1>5. a = WindowArray(start)
    BY <1>4 DEF AsSolution, WindowArray
<1>6. is_better_than(request.drives, request.level, request.target, window, best_solution)
        <=> request.target # 0 /\ (best_solution = None \/ Beats(a, b))
    <2>1. window.span \in Spans(request.level) /\ InOrder(request.drives, window.disks)
        BY <1>4 DEF IsWindow
    <2>2. best_solution # None => /\ best_solution.span \in Spans(request.level)
                                  /\ InOrder(request.drives, best_solution.disks)
        BY DEF BestInv, IsWindow
    <2> HIDE DEF a, b
    <2>3. is_better_than(request.drives, request.level, request.target, window, best_solution)
            <=> /\ request.target # 0
                /\ \/ best_solution = None
                   \/ Before(Rank(request.drives, request.level, request.target, AsSolution(window)),
                             Rank(request.drives, request.level, request.target,
                                  AsSolution(best_solution)))
        BY <1>1, <2>1, <2>2, BetterIsBefore
    <2> QED BY <2>3, Zenon DEF Beats, a, b
<1> HIDE DEF a, b
<1>7. CASE request.target = 0
    <2>1. Solutions = {}
        BY <1>7, SolutionFacts
    <2>2. best_solution' = best_solution /\ best_solution = None
        BY <1>0, <1>6, <1>7, <2>1 DEF FindInv
    <2> QED BY <1>3, <2>1, <2>2 DEF FindInv
<1>8. CASE request.target # 0
    <2>1. start \in 1..cases
        BY <1>0 DEF LoopInv
    <2>2. a \in Solutions
        BY <1>0, <1>5, <1>8, <2>1, WindowIsSolution
    <2> DEFINE c == AsSolution(best_solution')
    <2>3. /\ best_solution' # None /\ c \in Solutions /\ ~ Beats(a, c)
          /\ \A t \in Solutions : Unbeaten(t) => ~ Beats(t, c)
        <3>1. window # None
            <4>1. 0 \notin Spans(request.level)
                BY <1>1, LevelFacts
            <4>2. window.span \in Spans(request.level) /\ None.span = 0
                BY <1>4 DEF IsWindow, None
            <4> QED BY <4>1, <4>2
        <3>2. CASE best_solution = None \/ Beats(a, b)
            <4>1. best_solution' = window /\ c = a
                BY <1>0, <1>6, <1>8, <3>2 DEF a
            <4>2. ~ Beats(a, a)
                BY <2>2, BeatsIsAnOrder
            <4>3. ASSUME NEW t \in Solutions, Unbeaten(t) PROVE ~ Beats(t, a)
                <5>1. best_solution # None /\ ~ Beats(t, b)
                    BY <4>3 DEF Unbeaten, b
                <5>2. b \in Solutions
                    BY <5>1 DEF FindInv, b
                <5>3. ~ Beats(b, a)
                    BY <2>2, <3>2, <5>1, <5>2, BeatsIsAnOrder
                <5> QED BY <2>2, <5>1, <5>2, <5>3, BeatsIsAnOrder
            <4> HIDE DEF c
            <4> QED BY <2>2, <3>1, <4>1, <4>2, <4>3
        <3>3. CASE best_solution # None /\ ~ Beats(a, b)
            <4>1. best_solution' = best_solution /\ c = b
                BY <1>0, <1>6, <3>3 DEF b
            <4>2. b \in Solutions
                BY <3>3 DEF FindInv, b
            <4>3. \A t \in Solutions : Unbeaten(t) => ~ Beats(t, b)
                BY DEF Unbeaten, b
            <4> HIDE DEF c
            <4> QED BY <3>3, <4>1, <4>2, <4>3
        <3> QED BY <3>2, <3>3
    <2> HIDE DEF c
    <2>4. ASSUME NEW t \in Solutions, Passed(t)' PROVE ~ Beats(t, c)
        <3>1. CASE Passed(t)
            <4>1. Unbeaten(t)
                BY <3>1 DEF FindInv, Unbeaten
            <4> QED BY <2>3, <4>1
        <3>2. CASE ~ Passed(t)
            <4>1. PICK ds \in MediaGroups \ groups :
                    /\ t.disks \subseteq ds /\ ds = disks_by_media_type
                    /\ t.span = span /\ Cardinality(t.disks) = required_disk_count
                    /\ \E i \in 1..start : sorted_matched_disks[i] \in t.disks
                <5>1. start' - 1 = start
                    BY <1>0, <2>1
                <5>2. PICK ds \in MediaGroups \ groups :
                        /\ t.disks \subseteq ds
                        /\ \/ ds # disks_by_media_type
                           \/ t.span < span
                           \/ t.span = span /\ Cardinality(t.disks) < required_disk_count
                           \/ /\ t.span = span /\ Cardinality(t.disks) = required_disk_count
                              /\ \E i \in 1..start : sorted_matched_disks[i] \in t.disks
                    BY <1>0, <1>2, <2>4, <5>1 DEF Passed, InLoops, InSpan
                <5>3. ~ (ds # disks_by_media_type \/ t.span < span
                            \/ (t.span = span /\ Cardinality(t.disks) < required_disk_count))
                    BY <1>0, <3>2, <5>2 DEF Passed, InSpan
                <5> QED BY <5>2, <5>3
            <4>2. \A k \in 1..(start - 1) : sorted_matched_disks[k] \notin t.disks
                BY <1>0, <3>2, <4>1 DEF Passed
            <4>3. sorted_matched_disks[start] \in t.disks
                <5>1. PICK i \in 1..start : sorted_matched_disks[i] \in t.disks
                    BY <4>1
                <5>2. i \notin 1..(start - 1)
                    BY <4>2, <5>1
                <5>3. i = start
                    BY <2>1, <5>1, <5>2
                <5> QED BY <5>1, <5>3
            <4>4. t.disks \subseteq matched_disks
                BY <1>0, <4>1, SolutionMatches DEF InSpan
            <4>5. Cardinality(t.disks) >= required_disk_count
                <5>1. required_disk_count \in Nat
                    BY DEF LoopInv
                <5> QED BY <4>1, <5>1
            <4>6. ~ Beats(t, a)
                BY <1>0, <1>5, <2>1, <4>1, <4>2, <4>3, <4>4, <4>5, WindowIsUnbeaten
            <4> QED BY <2>2, <2>3, <4>6, BeatsIsAnOrder
        <3> QED BY <3>1, <3>2
    <2>5. \A t \in Solutions' : Passed(t)' =>
            best_solution' # None /\ ~ Beats(t, AsSolution(best_solution))'
        BY <1>3, <2>3, <2>4 DEF c, AsSolution
    <2>6. AsSolution(best_solution') \in Solutions'
        BY <1>3, <2>3 DEF c
    <2> QED BY <2>5, <2>6 DEF FindInv
<1> QED BY <1>7, <1>8

LEMMA SearchFinds ==
    ASSUME Python = 3
    PROVE  Spec => [](request.count = 0 \/ FindInv)
<1>1. Init => request.count = 0 \/ FindInv
    <2> SUFFICES ASSUME Init PROVE FindInv
        OBVIOUS
    <2>1. groups = MediaGroups /\ best_solution = None
        BY DEF Init, MediaGroups
    <2> QED BY <2>1 DEF FindInv, Passed
<1>2. SearchInv /\ (request.count = 0 \/ FindInv) /\ [Next]_vars
        => (request.count = 0 \/ FindInv)'
    <2>0. [Next]_vars => request' = request
        BY DEF Next, NextMediaType, Return, SpansEnd, SkipSpan, TooFewDisks, TrySpan, CountsEnd,
               NotEnoughMatch, TryCount, TryWindow, WindowsEnd, vars
    <2> SUFFICES ASSUME SearchInv, FindInv, request.count # 0, [Next]_vars PROVE FindInv'
        BY <2>0
    <2>1. LoopInv /\ BestInv
        BY DEF SearchInv
    <2>2. CASE Next
        BY <2>1, <2>2, MediaTurnsFind, CountTurnsFind, TryWindowFinds DEF Next
    <2>3. CASE UNCHANGED vars
        <3>1. /\ request' = request /\ pc' = pc /\ groups' = groups
              /\ disks_by_media_type' = disks_by_media_type /\ span' = span
              /\ required_disk_count' = required_disk_count /\ start' = start
              /\ best_solution' = best_solution
            BY <2>3 DEF vars, loops, found
        <3>2. /\ MediaGroups' = MediaGroups /\ matched_disks' = matched_disks
              /\ sorted_matched_disks' = sorted_matched_disks
            BY <3>1, LoopsStay DEF sorted_matched_disks
        <3>3. \A t \in Solutions : Passed(t)' => Passed(t)
            BY <3>1, <3>2 DEF Passed, InLoops, InSpan
        <3> QED BY <3>1, <3>3, QuietTurn
    <2> QED BY <2>2, <2>3
<1> QED BY <1>1, <1>2, SearchIsOrderly, PTL DEF Spec

\* FindsTheBest: of all arrays that could be made of the disks, of one media
\* type, legal for the level and large enough, get_best_matched_disks answers
\* one that no other beats, and it fails only if there is none, for every
\* table of drives, with the division of Python 3.
THEOREM SearchFindsTheBest ==
    ASSUME Python = 3
    PROVE  Spec => []FindsTheBest
<1>1. SearchInv /\ (request.count = 0 \/ FindInv) => FindsTheBest
    <2> SUFFICES ASSUME SearchInv, request.count = 0 \/ FindInv PROVE FindsTheBest
        OBVIOUS
    <2> DEFINE best == BestSolutions(request.drives, request.level, request.target,
                                     DOMAIN request.drives, request.count)
    <2>1. LoopInv /\ BestInv
        BY DEF SearchInv
    <2>2. best = {s \in Solutions : \A t \in Solutions : ~ Beats(t, s)}
        <3> DEFINE rank == [s \in Solutions |-> Rank(request.drives, request.level, request.target, s)]
        <3>1. best = {s \in Solutions : \A t \in Solutions : ~ Before(rank[t], rank[s])}
            BY Zenon DEF BestSolutions, Solutions
        <3>2. \A s, t \in Solutions : Before(rank[t], rank[s]) <=> Beats(t, s)
            BY DEF Beats
        <3> HIDE DEF rank, best
        <3> QED BY <3>1, <3>2
    <2> HIDE DEF best
    <2>3. CASE pc = "done" /\ request.count # 0
        <3>1. \A t \in Solutions : best_solution # None /\ ~ Beats(t, AsSolution(best_solution))
            <4> SUFFICES ASSUME NEW t \in Solutions PROVE Passed(t)
                BY <2>3 DEF FindInv
            <4>1. PICK ds \in MediaGroups : t.disks \subseteq ds
                BY <2>1, SolutionFacts
            <4>2. groups = {} /\ ~ InLoops
                BY <2>1, <2>3 DEF LoopInv, InLoops
            <4> QED BY <4>1, <4>2 DEF Passed
        <3>2. answer.result = "found" => AsSolution(answer.solution) \in best
            <4> SUFFICES ASSUME answer.result = "found" PROVE AsSolution(answer.solution) \in best
                OBVIOUS
            <4>1. best_solution # None /\ answer.solution = best_solution
                BY <2>1, <2>3 DEF BestInv
            <4>2. AsSolution(best_solution) \in Solutions
                BY <2>3, <4>1 DEF FindInv
            <4> QED BY <2>2, <3>1, <4>1, <4>2
        <3>3. answer.result \in {"none", "InvalidPhysicalDiskNumber"} => best_solution = None
            BY <2>1, <2>3 DEF BestInv
        <3>4. best_solution = None => best = {}
            BY <2>2, <3>1
        <3> QED BY <3>2, <3>3, <3>4 DEF FindsTheBest, best
    <2>4. CASE pc # "done"
        <3>1. answer.result = "pending"
            BY <2>1, <2>4 DEF BestInv, Pending
        <3> QED BY <3>1 DEF FindsTheBest
    <2>5. CASE pc = "done" /\ request.count = 0
        <3>1. Solutions = {}
            BY <2>1, <2>5, SolutionFacts
        <3>2. best = {}
            BY <2>2, <3>1
        <3>3. answer.result = "InvalidPhysicalDiskNumber"
            BY <2>1, <2>5 DEF SearchInv, FlagInv, BestInv
        <3> QED BY <3>2, <3>3 DEF FindsTheBest, best
    <2> QED BY <2>3, <2>4, <2>5
<1> QED BY <1>1, SearchIsOrderly, SearchFinds, PTL

=============================================================================
