----------------------------- MODULE RaidUtils -----------------------------
(***************************************************************************)
(* The vocabulary of raid_utils.py: RAID levels, the solutions that a set   *)
(* of free disks offers for a volume, and what get_best_matched_disks       *)
(* promises to choose among them.  Module RaidSolver is the search itself,  *)
(* shown to keep this promise; module DiskPlan relies on it.                *)
(*                                                                          *)
(* A drive is a record [capacity, media, ...]; capacities are in units of   *)
(* the volume sizes.                                                        *)
(***************************************************************************)
EXTENDS Integers, FiniteSets, FiniteSetsExt

MAX_CAPACITY == -1
AutoCount == -1    \* number_of_physical_disks is None; a given 0 is a number

Raid(min, max, overhead, spanned) ==
    [min_disks |-> min, max_disks |-> max, overhead |-> overhead, is_spanned |-> spanned]

\* A spanned level has the limits of the level it spans, per span.
RAID_SETTINGS ==
    [RAID0  |-> Raid(1, 1024, 0, FALSE),
     RAID1  |-> Raid(2, 2, 1, FALSE),
     RAID5  |-> Raid(3, 1024, 1, FALSE),
     RAID6  |-> Raid(3, 1024, 2, FALSE),
     RAID10 |-> Raid(2, 2, 1, TRUE),
     RAID50 |-> Raid(3, 1024, 1, TRUE),
     RAID60 |-> Raid(3, 1024, 2, TRUE)]

Spans(level) == IF RAID_SETTINGS[level].is_spanned THEN 2..8 ELSE {1}

get_min_disks(level) ==
    RAID_SETTINGS[level].min_disks * (IF RAID_SETTINGS[level].is_spanned THEN 2 ELSE 1)

Overhead(level, span) == RAID_SETTINGS[level].overhead * span

\* n disks in this many spans are a legal array.
LegalCount(level, span, n) ==
    /\ n % span = 0
    /\ n \div span \in RAID_SETTINGS[level].min_disks..RAID_SETTINGS[level].max_disks

----------------------------------------------------------------------------
(* Solutions: [span, disks], disks a set.                                   *)

Smallest(drives, ds) == Min({drives[d].capacity : d \in ds})
DisksTotal(drives, ds) == MapThenSumSet(LAMBDA d : drives[d].capacity, ds)

\* The space an array of these disks has for volumes.
ArrayCapacity(drives, level, span, ds) ==
    Smallest(drives, ds) * (Cardinality(ds) - Overhead(level, span))

Waste(drives, ds) == DisksTotal(drives, ds) - Smallest(drives, ds) * Cardinality(ds)

\* Every array of available disks that could hold the volume.
LegalSolutions(drives, level, target, available, count) ==
    {s \in [span : Spans(level), disks : (SUBSET available) \ {{}}] :
        /\ target # 0
        /\ Cardinality({drives[d].media : d \in s.disks}) = 1
        /\ LegalCount(level, s.span, Cardinality(s.disks))
        /\ count # AutoCount => Cardinality(s.disks) = count
        /\ ArrayCapacity(drives, level, s.span, s.disks) >= target}

\* A MAX volume is to be large; then little is to be wasted, and then small
\* disks and few disks are to be used.
Rank(drives, level, target, s) ==
    <<IF target = MAX_CAPACITY THEN - ArrayCapacity(drives, level, s.span, s.disks) ELSE 0,
      Waste(drives, s.disks),
      DisksTotal(drives, s.disks),
      Cardinality(s.disks)>>

\* Lexicographic order.
Before(r, q) ==
    \E i \in 1..4 : r[i] < q[i] /\ \A j \in 1..(i - 1) : r[j] = q[j]

\* What get_best_matched_disks promises: one of the best solutions there are.
BestSolutions(drives, level, target, available, count) ==
    LET legal == LegalSolutions(drives, level, target, available, count)
        rank == [s \in legal |-> Rank(drives, level, target, s)]
    IN  {s \in legal : \A t \in legal : ~ Before(rank[t], rank[s])}

=============================================================================
