-------------------------- MODULE RaidUtilsProofs --------------------------
(***************************************************************************)
(* Lemmas about the vocabulary of raid_utils.py, for any drives: what a     *)
(* level leaves for data, the capacity of an array, and sums of the sizes   *)
(* of volumes.                                                              *)
(*                                                                          *)
(* MapThenSumSet is a recursive function of the subsets of a set.  That the *)
(* function exists, and that it does not matter in which order it takes the *)
(* elements, is proved with sets of subsets: a finite set is in a set of    *)
(* its subsets that has every subset all of whose proper subsets it has.    *)
(***************************************************************************)
EXTENDS RaidUtils, FiniteSetTheorems, WellFoundedInduction, TLAPS

----------------------------------------------------------------------------
(* Lemmas about RAID levels.                                                *)

\* Every level leaves data room: a span has more disks than it loses.
LEMMA LevelFacts ==
    ASSUME NEW level \in DOMAIN RAID_SETTINGS
    PROVE  /\ RAID_SETTINGS[level].min_disks \in Nat
           /\ RAID_SETTINGS[level].max_disks \in Nat
           /\ RAID_SETTINGS[level].overhead \in Nat
           /\ RAID_SETTINGS[level].overhead < RAID_SETTINGS[level].min_disks
           /\ Spans(level) \subseteq 1..8
BY DEF RAID_SETTINGS, Raid, Spans

\* A legal number of disks is more than the overhead takes.
LEMMA LegalLeavesRoom ==
    ASSUME NEW level \in DOMAIN RAID_SETTINGS, NEW span \in Spans(level), NEW n \in Nat,
           LegalCount(level, span, n)
    PROVE  /\ Overhead(level, span) \in Nat
           /\ n - Overhead(level, span) >= 1
<1> DEFINE low == RAID_SETTINGS[level].min_disks
           over == RAID_SETTINGS[level].overhead
           k == n \div span
<1>1. /\ low \in Nat /\ over \in Nat /\ over < low /\ span \in 1..8
    BY LevelFacts
<1>2. k \in Int /\ k >= low /\ n % span = 0
    BY <1>1, LevelFacts DEF LegalCount
<1>3. Overhead(level, span) = over * span
    BY DEF Overhead
<1> HIDE DEF low, over
<1>4. over * span \in Nat /\ n - over * span >= 1
    <2>1. CASE span = 1
        BY <1>1, <1>2, <2>1
    <2>2. CASE span = 2
        BY <1>1, <1>2, <2>2
    <2>3. CASE span = 3
        BY <1>1, <1>2, <2>3
    <2>4. CASE span = 4
        BY <1>1, <1>2, <2>4
    <2>5. CASE span = 5
        BY <1>1, <1>2, <2>5
    <2>6. CASE span = 6
        BY <1>1, <1>2, <2>6
    <2>7. CASE span = 7
        BY <1>1, <1>2, <2>7
    <2>8. CASE span = 8
        BY <1>1, <1>2, <2>8
    <2> QED BY <1>1, <2>1, <2>2, <2>3, <2>4, <2>5, <2>6, <2>7, <2>8
<1> QED BY <1>3, <1>4

----------------------------------------------------------------------------
(* Numbers, and sets of subsets.                                            *)

\* Every set of numbers has a least one.
LEMMA LeastNumber ==
    ASSUME NEW N, N \subseteq Nat, N # {}
    PROVE  \E n \in N : \A m \in N : n <= m
<1>1. \E n \in N : \A m \in N : ~ (<<m, n>> \in OpToRel(<, Nat))
    BY NatLessThanWellFounded, WFMin, Zenon
<1>2. \A m, n \in Nat : <<m, n>> \in OpToRel(<, Nat) <=> m < n
    BY DEF OpToRel
<1>3. \E n \in N : \A m \in N : ~ (m < n)
    BY <1>1, <1>2, Zenon
<1> QED BY <1>3

\* Induction over the subsets of a finite set, for a set of them.
LEMMA SubsetInduction ==
    ASSUME NEW S, IsFiniteSet(S), NEW W,
           \A T \in SUBSET S : (\A U \in SUBSET T : U # T => U \in W) => T \in W
    PROVE  S \in W
<1> SUFFICES ASSUME S \notin W PROVE FALSE
    OBVIOUS
<1> DEFINE N == {n \in Nat : \E T \in SUBSET S : T \notin W /\ Cardinality(T) = n}
<1>1. N # {} /\ N \subseteq Nat
    <2>1. Cardinality(S) \in Nat
        BY FS_CardinalityType
    <2> QED BY <2>1
<1>2. PICK n \in N : \A m \in N : n <= m
    <2> HIDE DEF N
    <2> QED BY <1>1, LeastNumber
<1>3. PICK T \in SUBSET S : T \notin W /\ Cardinality(T) = n
    BY <1>2
<1>4. PICK U \in SUBSET T : U # T /\ U \notin W
    BY <1>3
<1>5. IsFiniteSet(T) /\ Cardinality(U) <= n /\ Cardinality(U) # n
    BY <1>3, <1>4, FS_Subset
<1>6. Cardinality(U) \in Nat /\ n \in Nat
    BY <1>2, <1>4, <1>5, FS_Subset, FS_CardinalityType
<1>7. Cardinality(U) \in N
    BY <1>4, <1>6
<1>8. Cardinality(U) < n
    BY <1>5, <1>6
<1> QED BY <1>2, <1>7, <1>8

----------------------------------------------------------------------------
(* The capacity of an array.                                                *)

\* The smallest disk is one of the disks.
LEMMA SmallestIsOne ==
    ASSUME NEW drives, NEW ds, ds # {}, \A d \in ds : drives[d].capacity \in Nat
    PROVE  \E d \in ds : Smallest(drives, ds) = drives[d].capacity
<1> DEFINE C == {drives[d].capacity : d \in ds}
<1>1. C # {} /\ C \subseteq Nat
    OBVIOUS
<1>2. Min(C) \in C
    <2> HIDE DEF C
    <2>1. PICK n \in C : \A m \in C : n <= m
        BY <1>1, LeastNumber
    <2> QED BY <2>1 DEF Min
<1> QED BY <1>2 DEF Smallest

\* An array has a capacity.
LEMMA CapacityIsInt ==
    ASSUME NEW drives, NEW ds, ds # {}, IsFiniteSet(ds),
           \A d \in ds : drives[d].capacity \in Nat,
           NEW level \in DOMAIN RAID_SETTINGS, NEW span \in Spans(level)
    PROVE  ArrayCapacity(drives, level, span, ds) \in Int
<1>1. PICK small \in Nat : small = Smallest(drives, ds)
    BY SmallestIsOne
<1>2. PICK n \in Nat : n = Cardinality(ds)
    BY FS_CardinalityType
<1>3. PICK over \in Nat : over = Overhead(level, span)
    <2>1. RAID_SETTINGS[level].overhead \in Nat /\ span \in Nat
        BY LevelFacts
    <2>2. PICK o \in Nat : o = RAID_SETTINGS[level].overhead
        BY <2>1
    <2>3. o * span \in Nat
        BY <2>1, <2>2
    <2> QED BY <2>2, <2>3 DEF Overhead
<1>4. small * (n - over) \in Int
    BY <1>1, <1>2, <1>3
<1> QED BY <1>1, <1>2, <1>3, <1>4 DEF ArrayCapacity

\* A legal array of disks that have room has room.
LEMMA LegalHasRoom ==
    ASSUME NEW drives, NEW ds, ds # {}, IsFiniteSet(ds),
           \A d \in ds : drives[d].capacity \in Nat \ {0},
           NEW level \in DOMAIN RAID_SETTINGS, NEW span \in Spans(level),
           LegalCount(level, span, Cardinality(ds))
    PROVE  ArrayCapacity(drives, level, span, ds) >= 1
<1>1. PICK small \in Nat : small = Smallest(drives, ds) /\ small >= 1
    BY SmallestIsOne
<1>2. PICK more \in Int : more = Cardinality(ds) - Overhead(level, span) /\ more >= 1
    BY FS_CardinalityType, LegalLeavesRoom
<1>3. small * more >= 1
    BY <1>1, <1>2
<1> QED BY <1>1, <1>2, <1>3 DEF ArrayCapacity

\* It depends on the capacities of the disks only.
LEMMA CapacityOfSame ==
    ASSUME NEW drives, NEW others, NEW ds, NEW level, NEW span,
           \A d \in ds : drives[d].capacity = others[d].capacity
    PROVE  ArrayCapacity(drives, level, span, ds) = ArrayCapacity(others, level, span, ds)
<1>1. {drives[d].capacity : d \in ds} = {others[d].capacity : d \in ds}
    OBVIOUS
<1> QED BY <1>1 DEF ArrayCapacity, Smallest

----------------------------------------------------------------------------
(* Sums of sizes.                                                           *)

\* The sum of the sizes of these elements of a sequence of volumes.
TotalSize(v, S) == MapThenSumSet(LAMBDA k : v[k].size, S)

\* The element that the sum takes first.
Pick(S) == CHOOSE x \in S : TRUE

\* The equation of the recursive function of MapThenSumSet.
Unfolds(v, S, f) ==
    f = [s \in SUBSET S |-> IF s = {} THEN 0 ELSE v[Pick(s)].size + f[s \ {Pick(s)}]]

\* A sum is the value of the function that MapThenFoldSet chooses.
LEMMA SumIsUnfolded ==
    ASSUME NEW v, NEW S
    PROVE  TotalSize(v, S) = (CHOOSE f : Unfolds(v, S, f))[S]
BY Zenon DEF TotalSize, MapThenSumSet, MapThenFoldSet, Unfolds, Pick

\* Two functions with that equation, on sets of their own, agree where both
\* are defined.
LEMMA UnfoldsOnce ==
    ASSUME NEW v, NEW S, IsFiniteSet(S), NEW f, Unfolds(v, S, f),
           NEW T, S \subseteq T, NEW g, Unfolds(v, T, g)
    PROVE  f[S] = g[S]
<1> DEFINE W == {U \in SUBSET S : f[U] = g[U]}
<1>1. ASSUME NEW U \in SUBSET S, \A V \in SUBSET U : V # U => V \in W
      PROVE  U \in W
    <2>1. f[U] = IF U = {} THEN 0 ELSE v[Pick(U)].size + f[U \ {Pick(U)}]
        BY Zenon DEF Unfolds
    <2>2. g[U] = IF U = {} THEN 0 ELSE v[Pick(U)].size + g[U \ {Pick(U)}]
        <3>1. U \in SUBSET T
            OBVIOUS
        <3> QED BY <3>1, Zenon DEF Unfolds
    <2>3. U # {} => f[U \ {Pick(U)}] = g[U \ {Pick(U)}]
        <3> SUFFICES ASSUME U # {} PROVE f[U \ {Pick(U)}] = g[U \ {Pick(U)}]
            OBVIOUS
        <3>1. Pick(U) \in U
            BY DEF Pick
        <3>2. U \ {Pick(U)} \in SUBSET U /\ U \ {Pick(U)} # U
            BY <3>1
        <3> QED BY <1>1, <3>2
    <2> QED BY <2>1, <2>2, <2>3
<1>2. S \in W
    <2> HIDE DEF W
    <2> QED BY <1>1, SubsetInduction
<1> QED BY <1>2

\* A sum over a set is that over the set without some element, and that element.
LEMMA SumPicks ==
    ASSUME NEW v, NEW S, IsFiniteSet(S)
    PROVE  TotalSize(v, S) = IF S = {} THEN 0 ELSE v[Pick(S)].size + TotalSize(v, S \ {Pick(S)})
<1> DEFINE Picked(T) == IF T = {} THEN 0 ELSE v[Pick(T)].size + TotalSize(v, T \ {Pick(T)})
           W == {T \in SUBSET S : TotalSize(v, T) = Picked(T)}
<1>1. ASSUME NEW T \in SUBSET S, \A U \in SUBSET T : U # T => U \in W
      PROVE  T \in W
    <2> DEFINE h == [s \in SUBSET T |-> IF s = T THEN Picked(T) ELSE TotalSize(v, s)]
    <2>1. Unfolds(v, T, h)
        <3>1. ASSUME NEW s \in SUBSET T
              PROVE  h[s] = IF s = {} THEN 0 ELSE v[Pick(s)].size + h[s \ {Pick(s)}]
            <4>1. h[s] = Picked(s)
                <5>1. s # T => s \in W
                    BY <1>1
                <5> QED BY <5>1
            <4>2. s # {} => h[s \ {Pick(s)}] = TotalSize(v, s \ {Pick(s)})
                <5> SUFFICES ASSUME s # {} PROVE h[s \ {Pick(s)}] = TotalSize(v, s \ {Pick(s)})
                    OBVIOUS
                <5>1. Pick(s) \in s
                    BY DEF Pick
                <5>2. s \ {Pick(s)} \in SUBSET T /\ s \ {Pick(s)} # T
                    BY <5>1
                <5> QED BY <5>2
            <4> QED BY <4>1, <4>2
        <3>2. h = [s \in SUBSET T |-> h[s]]
            OBVIOUS
        <3> HIDE DEF h
        <3> QED BY <3>1, <3>2, Zenon DEF Unfolds
    <2> DEFINE f == CHOOSE g : Unfolds(v, T, g)
    <2>2. Unfolds(v, T, f)
        <3> HIDE DEF h
        <3> QED BY <2>1, Zenon
    <2>3. f[T] = h[T]
        <3> HIDE DEF f, h
        <3>1. IsFiniteSet(T)
            BY FS_Subset
        <3> QED BY <2>1, <2>2, <3>1, UnfoldsOnce
    <2>4. h[T] = Picked(T)
        OBVIOUS
    <2>5. TotalSize(v, T) = f[T]
        BY SumIsUnfolded, Zenon
    <2> HIDE DEF f, h
    <2> QED BY <2>3, <2>4, <2>5
<1>2. S \in W
    <2> HIDE DEF W
    <2> QED BY <1>1, SubsetInduction
<1> QED BY <1>2

\* The sum of no sizes is 0.
LEMMA SumOfNone ==
    ASSUME NEW v
    PROVE  TotalSize(v, {}) = 0
BY SumPicks, FS_EmptySet

\* A sum of sizes is a size.
LEMMA SumIsNat ==
    ASSUME NEW v, NEW S, IsFiniteSet(S), \A k \in S : v[k].size \in Nat
    PROVE  TotalSize(v, S) \in Nat
<1> DEFINE W == {T \in SUBSET S : TotalSize(v, T) \in Nat}
<1>1. ASSUME NEW T \in SUBSET S, \A U \in SUBSET T : U # T => U \in W
      PROVE  T \in W
    <2>1. CASE T = {}
        BY <2>1, SumOfNone
    <2>2. CASE T # {}
        <3>1. Pick(T) \in T
            BY <2>2 DEF Pick
        <3>2. TotalSize(v, T \ {Pick(T)}) \in Nat
            <4>1. T \ {Pick(T)} \in SUBSET T /\ T \ {Pick(T)} # T
                BY <3>1
            <4> QED BY <1>1, <4>1
        <3>3. TotalSize(v, T) = v[Pick(T)].size + TotalSize(v, T \ {Pick(T)})
            BY <2>2, SumPicks, FS_Subset
        <3>4. v[Pick(T)].size \in Nat
            BY <3>1
        <3> QED BY <3>2, <3>3, <3>4
    <2> QED BY <2>1, <2>2
<1>2. S \in W
    <2> HIDE DEF W
    <2> QED BY <1>1, SubsetInduction
<1> QED BY <1>2

\* Any element of the set may be taken out of the sum.
LEMMA SumTakesOut ==
    ASSUME NEW v, NEW S, IsFiniteSet(S), \A k \in S : v[k].size \in Nat, NEW x \in S
    PROVE  TotalSize(v, S) = v[x].size + TotalSize(v, S \ {x})
<1> DEFINE Takes(T, y) == TotalSize(v, T) = v[y].size + TotalSize(v, T \ {y})
           W == {T \in SUBSET S : \A y \in T : Takes(T, y)}
<1>0. \A T \in SUBSET S : IsFiniteSet(T) /\ TotalSize(v, T) \in Nat
    BY FS_Subset, SumIsNat
<1>1. ASSUME NEW T \in SUBSET S, \A U \in SUBSET T : U # T => U \in W
      PROVE  T \in W
    <2> SUFFICES ASSUME NEW y \in T PROVE Takes(T, y)
        OBVIOUS
    <2> DEFINE p == Pick(T)
    <2>1. p \in T
        BY DEF Pick
    <2>2. Takes(T, p)
        BY <1>0, <2>1, SumPicks
    <2> HIDE DEF p
    <2>3. CASE y # p
        <3>1. Takes(T \ {p}, y)
            <4>1. T \ {p} \in W
                BY <1>1, <2>1
            <4> QED BY <2>3, <4>1
        <3>2. Takes(T \ {y}, p)
            <4>1. T \ {y} \in W
                BY <1>1
            <4> QED BY <2>1, <2>3, <4>1
        <3>3. (T \ {p}) \ {y} = (T \ {y}) \ {p}
            OBVIOUS
        <3>4. /\ v[p].size \in Nat /\ v[y].size \in Nat
              /\ TotalSize(v, T \ {p}) \in Nat /\ TotalSize(v, T \ {y}) \in Nat
              /\ TotalSize(v, (T \ {p}) \ {y}) \in Nat
            BY <1>0, <2>1
        <3>5. /\ TotalSize(v, T) = v[p].size + TotalSize(v, T \ {p})
              /\ TotalSize(v, T \ {p}) = v[y].size + TotalSize(v, (T \ {p}) \ {y})
              /\ TotalSize(v, T \ {y}) = v[p].size + TotalSize(v, (T \ {p}) \ {y})
            BY <2>2, <3>1, <3>2, <3>3
        <3> QED BY <3>4, <3>5
    <2> QED BY <2>2, <2>3
<1>2. S \in W
    <2> HIDE DEF W
    <2> QED BY <1>1, SubsetInduction
<1> QED BY <1>2

\* A sum depends on the sizes of the elements only.
LEMMA SumOfSame ==
    ASSUME NEW v, NEW w, NEW S, IsFiniteSet(S), \A k \in S : v[k].size = w[k].size
    PROVE  TotalSize(v, S) = TotalSize(w, S)
<1> DEFINE W == {T \in SUBSET S : TotalSize(v, T) = TotalSize(w, T)}
<1>1. ASSUME NEW T \in SUBSET S, \A U \in SUBSET T : U # T => U \in W
      PROVE  T \in W
    <2>1. /\ TotalSize(v, T) = IF T = {} THEN 0 ELSE v[Pick(T)].size + TotalSize(v, T \ {Pick(T)})
          /\ TotalSize(w, T) = IF T = {} THEN 0 ELSE w[Pick(T)].size + TotalSize(w, T \ {Pick(T)})
        BY SumPicks, FS_Subset
    <2>2. CASE T = {}
        BY <2>1, <2>2
    <2>3. CASE T # {}
        <3>1. Pick(T) \in T
            BY <2>3 DEF Pick
        <3>2. TotalSize(v, T \ {Pick(T)}) = TotalSize(w, T \ {Pick(T)})
            <4>1. T \ {Pick(T)} \in SUBSET T /\ T \ {Pick(T)} # T
                BY <3>1
            <4> QED BY <1>1, <4>1
        <3>3. v[Pick(T)].size = w[Pick(T)].size
            BY <3>1
        <3> QED BY <2>1, <2>3, <3>2, <3>3
    <2> QED BY <2>2, <2>3
<1>2. S \in W
    <2> HIDE DEF W
    <2> QED BY <1>1, SubsetInduction
<1> QED BY <1>2

----------------------------------------------------------------------------
(* Sums of capacities.                                                      *)

\* The capacities of disks, as sizes.
Sizes(drives, S) == [d \in S |-> [size |-> drives[d].capacity]]

LEMMA CapacitiesAreSizes ==
    ASSUME NEW drives, NEW S
    PROVE  DisksTotal(drives, S) = TotalSize(Sizes(drives, S), S)
<1> DEFINE v == Sizes(drives, S)
           UnfoldsDisks(f) ==
                f = [s \in SUBSET S |-> IF s = {} THEN 0
                                        ELSE drives[Pick(s)].capacity + f[s \ {Pick(s)}]]
<1>1. DisksTotal(drives, S) = (CHOOSE f : UnfoldsDisks(f))[S]
    BY Zenon DEF DisksTotal, MapThenSumSet, MapThenFoldSet, Pick
<1>2. ASSUME NEW f PROVE UnfoldsDisks(f) <=> Unfolds(v, S, f)
    <2>1. ASSUME NEW s \in SUBSET S, s # {}
          PROVE  v[Pick(s)].size = drives[Pick(s)].capacity
        <3>1. Pick(s) \in S
            BY <2>1 DEF Pick
        <3> QED BY <3>1 DEF Sizes
    <2> DEFINE g1 == [s \in SUBSET S |-> IF s = {} THEN 0 ELSE drives[Pick(s)].capacity + f[s \ {Pick(s)}]]
               g2 == [s \in SUBSET S |-> IF s = {} THEN 0 ELSE v[Pick(s)].size + f[s \ {Pick(s)}]]
    <2>2. g1 = g2
        <3> HIDE DEF v
        <3>1. \A s \in SUBSET S : g1[s] = g2[s]
            BY <2>1
        <3> QED BY <3>1
    <2>3. UnfoldsDisks(f) <=> f = g1
        OBVIOUS
    <2>4. Unfolds(v, S, f) <=> f = g2
        <3> HIDE DEF v
        <3> QED BY DEF Unfolds
    <2> QED BY <2>2, <2>3, <2>4
<1>3. (CHOOSE f : UnfoldsDisks(f)) = (CHOOSE f : Unfolds(v, S, f))
    <2> HIDE DEF UnfoldsDisks, v
    <2> QED BY <1>2, Zenon
<1> QED BY <1>1, <1>3, SumIsUnfolded, Zenon

\* Any disk of the set may be taken out of the sum.
LEMMA TotalTakesOut ==
    ASSUME NEW drives, NEW S, IsFiniteSet(S), \A d \in S : drives[d].capacity \in Nat
    PROVE  /\ DisksTotal(drives, S) \in Nat
           /\ DisksTotal(drives, {}) = 0
           /\ \A x \in S : DisksTotal(drives, S) = drives[x].capacity + DisksTotal(drives, S \ {x})
<1> DEFINE v == Sizes(drives, S)
<1>1. \A d \in S : v[d].size = drives[d].capacity /\ v[d].size \in Nat
    BY DEF Sizes
<1>2. DisksTotal(drives, S) = TotalSize(v, S)
    BY CapacitiesAreSizes
<1>3. DisksTotal(drives, {}) = 0
    BY CapacitiesAreSizes, SumOfNone
<1>4. ASSUME NEW x \in S
      PROVE  DisksTotal(drives, S) = drives[x].capacity + DisksTotal(drives, S \ {x})
    <2> DEFINE T == S \ {x}
               w == Sizes(drives, T)
    <2>1. DisksTotal(drives, T) = TotalSize(w, T)
        BY CapacitiesAreSizes
    <2>2. \A d \in T : v[d].size = w[d].size
        BY DEF Sizes
    <2>3. TotalSize(v, T) = TotalSize(w, T)
        <3>1. IsFiniteSet(T)
            BY FS_Subset
        <3> HIDE DEF v, w, T
        <3> QED BY <2>2, <3>1, SumOfSame
    <2>4. TotalSize(v, S) = v[x].size + TotalSize(v, T)
        <3> HIDE DEF v
        <3> QED BY <1>1, SumTakesOut
    <2> QED BY <1>1, <1>2, <2>1, <2>3, <2>4
<1>5. DisksTotal(drives, S) \in Nat
    <2> HIDE DEF v
    <2> QED BY <1>1, <1>2, SumIsNat
<1> QED BY <1>3, <1>4, <1>5

\* Disks of at most a size have at most that much each, and likewise at least.
LEMMA TotalIsBetween ==
    ASSUME NEW drives, NEW S, IsFiniteSet(S), NEW c \in Nat,
           \A d \in S : drives[d].capacity \in Nat
    PROVE  /\ (\A d \in S : drives[d].capacity <= c) => DisksTotal(drives, S) <= c * Cardinality(S)
           /\ (\A d \in S : drives[d].capacity >= c) => DisksTotal(drives, S) >= c * Cardinality(S)
<1> DEFINE Lower == \A d \in S : drives[d].capacity <= c
           Higher == \A d \in S : drives[d].capacity >= c
           W == {T \in SUBSET S : /\ Lower => DisksTotal(drives, T) <= c * Cardinality(T)
                                  /\ Higher => DisksTotal(drives, T) >= c * Cardinality(T)}
<1>1. ASSUME NEW T \in SUBSET S, \A U \in SUBSET T : U # T => U \in W
      PROVE  T \in W
    <2>0. IsFiniteSet(T)
        BY FS_Subset
    <2>1. CASE T = {}
        <3>1. DisksTotal(drives, T) = 0 /\ Cardinality(T) = 0
            BY <2>1, TotalTakesOut, FS_EmptySet
        <3> QED BY <3>1
    <2>2. CASE T # {}
        <3>1. PICK x \in T : TRUE
            BY <2>2
        <3> DEFINE U == T \ {x}
        <3>2. U \in W
            <4>1. U \in SUBSET T /\ U # T
                BY <3>1
            <4> HIDE DEF U, W
            <4> QED BY <1>1, <4>1
        <3>3. IsFiniteSet(U) /\ Cardinality(T) = Cardinality(U) + 1
            <4>1. IsFiniteSet(U) /\ Cardinality(U) = Cardinality(T) - 1
                BY <2>0, <3>1, FS_RemoveElement
            <4>2. Cardinality(T) \in Nat
                BY <2>0, FS_CardinalityType
            <4> HIDE DEF U
            <4> QED BY <4>1, <4>2
        <3>4. PICK n \in Nat : n = Cardinality(U)
            BY <3>3, FS_CardinalityType
        <3>5. DisksTotal(drives, T) = drives[x].capacity + DisksTotal(drives, U)
            BY <2>0, <3>1, TotalTakesOut
        <3>6. PICK sum \in Nat : sum = DisksTotal(drives, U)
            BY <3>3, TotalTakesOut
        <3>7. PICK k \in Nat : k = drives[x].capacity
            BY <3>1
        <3>8. /\ Lower => k <= c /\ sum <= c * n
              /\ Higher => k >= c /\ sum >= c * n
            BY <3>1, <3>2, <3>4, <3>6, <3>7
        <3>9. Cardinality(T) = n + 1 /\ DisksTotal(drives, T) = k + sum
            BY <3>3, <3>4, <3>5, <3>6, <3>7
        <3>10. /\ Lower => k + sum <= c * (n + 1)
               /\ Higher => k + sum >= c * (n + 1)
            <4> HIDE DEF Lower, Higher, U, W
            <4>1. c * (n + 1) = c * n + c
                OBVIOUS
            <4>2. PICK p \in Nat : p = c * n
                OBVIOUS
            <4> QED BY <3>8, <4>1, <4>2
        <3> HIDE DEF Lower, Higher, U
        <3> QED BY <3>9, <3>10
    <2> QED BY <2>1, <2>2
<1>2. S \in W
    <2> HIDE DEF W
    <2> QED BY <1>1, SubsetInduction
<1> QED BY <1>2

\* The disks of two sets that share none have the sum of what both have.
LEMMA TotalSplits ==
    ASSUME NEW drives, NEW A, NEW B, IsFiniteSet(A), IsFiniteSet(B), A \cap B = {},
           \A d \in A \cup B : drives[d].capacity \in Nat
    PROVE  DisksTotal(drives, A \cup B) = DisksTotal(drives, A) + DisksTotal(drives, B)
<1> DEFINE W == {T \in SUBSET A :
                    DisksTotal(drives, T \cup B) = DisksTotal(drives, T) + DisksTotal(drives, B)}
<1>0. DisksTotal(drives, B) \in Nat
    BY TotalTakesOut
<1>1. ASSUME NEW T \in SUBSET A, \A U \in SUBSET T : U # T => U \in W
      PROVE  T \in W
    <2>0. IsFiniteSet(T) /\ IsFiniteSet(T \cup B)
        BY FS_Subset, FS_Union
    <2>1. CASE T = {}
        <3>1. T \cup B = B /\ DisksTotal(drives, T) = 0
            <4>1. DisksTotal(drives, {}) = 0
                BY FS_EmptySet, TotalTakesOut
            <4> QED BY <2>1, <4>1
        <3>2. DisksTotal(drives, T \cup B) = DisksTotal(drives, T) + DisksTotal(drives, B)
            <4> HIDE DEF W
            <4>1. DisksTotal(drives, T \cup B) = DisksTotal(drives, B)
                BY <3>1, Zenon
            <4> QED BY <1>0, <3>1, <4>1
        <3> QED BY <3>2
    <2>2. CASE T # {}
        <3>1. PICK x \in T : TRUE
            BY <2>2
        <3> DEFINE U == T \ {x}
        <3>2. DisksTotal(drives, U \cup B) = DisksTotal(drives, U) + DisksTotal(drives, B)
            <4>1. U \in SUBSET T /\ U # T
                BY <3>1
            <4>2. U \in W
                <5> HIDE DEF W, U
                <5> QED BY <1>1, <4>1
            <4> QED BY <4>2
        <3>3. DisksTotal(drives, T) = drives[x].capacity + DisksTotal(drives, U)
            BY <2>0, <3>1, TotalTakesOut
        <3>4. (T \cup B) \ {x} = U \cup B
            BY <3>1
        <3>5. DisksTotal(drives, T \cup B) = drives[x].capacity + DisksTotal(drives, U \cup B)
            BY <2>0, <3>1, <3>4, TotalTakesOut
        <3>6. DisksTotal(drives, U) \in Nat /\ drives[x].capacity \in Nat
            <4>1. IsFiniteSet(U)
                BY <2>0, FS_Subset
            <4> QED BY <3>1, <4>1, TotalTakesOut
        <3> HIDE DEF U
        <3> QED BY <1>0, <3>2, <3>3, <3>5, <3>6
    <2> QED BY <2>1, <2>2
<1>2. A \in W
    <2> HIDE DEF W
    <2> QED BY <1>1, SubsetInduction
<1> QED BY <1>2

=============================================================================
