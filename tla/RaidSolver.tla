----------------------------- MODULE RaidSolver -----------------------------
(***************************************************************************)
(* Raid.get_best_matched_disks (raid_utils.py): the search for the disks of *)
(* a volume.  It tries, for each media type, each number of spans and each  *)
(* number of disks, the windows of the sorted disks that are large enough,  *)
(* and stops early where more disks could only waste more.  A behaviour is  *)
(* one search; a step is one turn of one of its loops.                      *)
(***************************************************************************)
EXTENDS RaidUtils, Sequences, SequencesExt

CONSTANTS
    Hardware,   \* the tables of drives, each a sequence of [capacity, media]
    Levels,     \* RAID levels asked for
    Targets,    \* sizes asked for, MAX_CAPACITY among them
    Counts,     \* numbers of disks asked for, AutoCount among them
    Python      \* the version of Python that runs the program

ASSUME RaidSolverAssumption ==
    /\ \A drives \in Hardware :
        /\ Len(drives) \in Nat
        /\ drives = [d \in 1..Len(drives) |-> drives[d]]
        /\ \A d \in 1..Len(drives) : drives[d].capacity \in Nat
    /\ Levels \subseteq DOMAIN RAID_SETTINGS
    /\ Targets \subseteq Nat \cup {MAX_CAPACITY}
    /\ Counts \subseteq Nat \cup {AutoCount}
    /\ Python \in {2, 3}

VARIABLES
    request,        \* [drives, level, target, count]: the search to make
    pc,             \* the loop whose turn is next: "media", "span", "count" or
                    \* "window"; "done" after it
    groups,         \* the groups of disks by media type still to be tried
    disks_by_media_type,
    span,
    required_disk_count,
    start,          \* where the next window starts, from 1
    best_solution,  \* None or [span, disks]
    is_specified_disk_count_legal,
    answer          \* [result, solution]

loops == <<groups, disks_by_media_type, span, required_disk_count, start>>
found == <<best_solution, is_specified_disk_count_legal>>
vars == <<request, pc, loops, found, answer>>

None == [span |-> 0, disks |-> <<>>]
Pending == [result |-> "pending", solution |-> None]

\* The disks are grouped by media type before the loops.
Init ==
    /\ request \in [drives : Hardware, level : Levels, target : Targets, count : Counts]
    /\ pc = "media"
    /\ groups = {{e \in DOMAIN request.drives : request.drives[e].media = request.drives[d].media} :
                    d \in DOMAIN request.drives}
    /\ disks_by_media_type = {}
    /\ span = 0 /\ required_disk_count = 0 /\ start = 0
    /\ best_solution = None
    /\ is_specified_disk_count_legal = (request.count = AutoCount)
    /\ answer = Pending

----------------------------------------------------------------------------
\* math.ceil(target_capacity / n); Python 2 divides integers to an integer.
required_capacity(target, n) ==
    IF Python = 2 THEN target \div n ELSE - ((- target) \div n)

\* RaidSolution, of disks in order of capacity.
disks_min_bytes(drives, s) == drives[s.disks[1]].capacity
disks_total_bytes(drives, s) == DisksTotal(drives, ToSet(s.disks))
disks_waste_bytes(drives, s) ==
    disks_total_bytes(drives, s) - disks_min_bytes(drives, s) * Len(s.disks)
raid_total_bytes(drives, level, s) ==
    disks_min_bytes(drives, s) * (Len(s.disks) - Overhead(level, s.span))

waste_less_than(drives, s, other) ==
    LET key(t) == <<disks_waste_bytes(drives, t), disks_total_bytes(drives, t), Len(t.disks)>>
    IN  \E i \in 1..3 : /\ key(s)[i] < key(other)[i]
                        /\ \A j \in 1..(i - 1) : key(s)[j] = key(other)[j]

raid_capacity_great_than(drives, level, s, other) ==
    LET size(t) == raid_total_bytes(drives, level, t)
    IN  size(s) > size(other) \/ (size(s) = size(other) /\ waste_less_than(drives, s, other))

\* Never true when the target is 0.
is_better_than(drives, level, target, s, other) ==
    \/ target > 0 /\ (other = None \/ waste_less_than(drives, s, other))
    \/ /\ target = MAX_CAPACITY
       /\ other = None \/ raid_capacity_great_than(drives, level, s, other)

----------------------------------------------------------------------------
(* What a turn of the loops works on.                                       *)

limits == RAID_SETTINGS[request.level]
\* `if disk_count_to_use`, false for a given 0: the loops then run as for None,
\* but the flag stays down.
given == request.count > 0
min_disks == IF given THEN request.count ELSE limits.min_disks * span
max_disks == IF given THEN request.count ELSE limits.max_disks * span
max_disk_count == Min({max_disks, Cardinality(disks_by_media_type)})

matched_disks ==
    {d \in disks_by_media_type :
        request.drives[d].capacity >=
            required_capacity(request.target,
                              required_disk_count - Overhead(request.level, span))}

\* Mutant: the disks stay in the order of the list.
Precedes_Listed(drives, d, e) == d < e
\* The order of sorted(), which keeps disks of one size in the order of the list.
Precedes(drives, d, e) ==
    \/ drives[d].capacity < drives[e].capacity
    \/ drives[d].capacity = drives[e].capacity /\ d < e

\* The i-th disk is the one that i - 1 others precede.
SortedByCapacity(drives, ds) ==
    [i \in 1..Cardinality(ds) |->
        CHOOSE d \in ds : Cardinality({e \in ds : Precedes(drives, e, d)}) = i - 1]
sorted_matched_disks == SortedByCapacity(request.drives, matched_disks)

cases == Cardinality(matched_disks) - required_disk_count + 1
window == [span |-> span,
           disks |-> SubSeq(sorted_matched_disks, start, start + required_disk_count - 1)]

\* Mutant: a span may have more disks than its level allows.
suits_span_AtLeast ==
    given => request.count % span = 0 /\ request.count \div span >= limits.min_disks
suits_span == given => LegalCount(request.level, span, request.count)

\* Mutant: a MAX volume is not to be larger either.
more_would_waste_Max == matched_disks = disks_by_media_type
\* Every disk is large enough already, and the volume needs no more.
more_would_waste == matched_disks = disks_by_media_type /\ request.target > 0

----------------------------------------------------------------------------
(* The loops, outermost first.                                              *)

\* The first number of spans is 1 or 2.
NextMediaType ==
    /\ pc = "media"
    /\ \E ds \in groups :
        /\ disks_by_media_type' = ds
        /\ groups' = groups \ {ds}
    /\ span' = Min(Spans(request.level))
    /\ pc' = "span"
    /\ UNCHANGED <<request, required_disk_count, start, found, answer>>

Return ==
    /\ pc = "media" /\ groups = {}
    /\ answer' = IF ~ is_specified_disk_count_legal
                 THEN [result |-> "InvalidPhysicalDiskNumber", solution |-> None]
                 ELSE [result |-> IF best_solution = None THEN "none" ELSE "found",
                       solution |-> best_solution]
    /\ pc' = "done"
    /\ UNCHANGED <<request, loops, found>>

SpansEnd ==
    /\ pc = "span" /\ span \notin Spans(request.level)
    /\ pc' = "media"
    /\ UNCHANGED <<request, loops, found, answer>>

SkipSpan ==
    /\ pc = "span" /\ span \in Spans(request.level) /\ ~ suits_span
    /\ span' = span + 1
    /\ UNCHANGED <<request, pc, groups, disks_by_media_type, required_disk_count, start, found, answer>>

\* The other numbers of spans, which need as many disks, are not tried either.
TooFewDisks ==
    /\ pc = "span" /\ span \in Spans(request.level) /\ suits_span
    /\ is_specified_disk_count_legal' = (given \/ is_specified_disk_count_legal)
    /\ min_disks > Cardinality(disks_by_media_type)
    /\ pc' = "media"
    /\ UNCHANGED <<request, loops, best_solution, answer>>

TrySpan ==
    /\ pc = "span" /\ span \in Spans(request.level) /\ suits_span
    /\ is_specified_disk_count_legal' = (given \/ is_specified_disk_count_legal)
    /\ min_disks <= Cardinality(disks_by_media_type)
    /\ required_disk_count' = min_disks
    /\ pc' = "count"
    /\ UNCHANGED <<request, groups, disks_by_media_type, span, start, best_solution, answer>>

NextSpan ==
    /\ span' = span + 1
    /\ pc' = "span"
    /\ UNCHANGED <<required_disk_count, start>>

NextCount ==
    /\ required_disk_count' = required_disk_count + span
    /\ pc' = "count"
    /\ UNCHANGED <<span, start>>

CountsEnd ==
    /\ pc = "count" /\ required_disk_count > max_disk_count
    /\ NextSpan
    /\ UNCHANGED <<request, groups, disks_by_media_type, found, answer>>

NotEnoughMatch ==
    /\ pc = "count" /\ required_disk_count <= max_disk_count
    /\ Cardinality(matched_disks) < required_disk_count
    /\ NextCount
    /\ UNCHANGED <<request, groups, disks_by_media_type, found, answer>>

TryCount ==
    /\ pc = "count" /\ required_disk_count <= max_disk_count
    /\ Cardinality(matched_disks) >= required_disk_count
    /\ start' = 1 /\ pc' = "window"
    /\ UNCHANGED <<request, groups, disks_by_media_type, span, required_disk_count, found, answer>>

TryWindow ==
    /\ pc = "window" /\ start <= cases
    /\ best_solution' =
        IF is_better_than(request.drives, request.level, request.target, window, best_solution)
        THEN window ELSE best_solution
    /\ start' = start + 1
    /\ UNCHANGED <<request, pc, groups, disks_by_media_type, span, required_disk_count,
                   is_specified_disk_count_legal, answer>>

WindowsEnd ==
    /\ pc = "window" /\ start > cases
    /\ \/ more_would_waste /\ NextSpan
       \/ ~ more_would_waste /\ NextCount
    /\ UNCHANGED <<request, groups, disks_by_media_type, found, answer>>

Next ==
    \/ NextMediaType \/ Return
    \/ SpansEnd \/ SkipSpan \/ TooFewDisks \/ TrySpan
    \/ CountsEnd \/ NotEnoughMatch \/ TryCount
    \/ TryWindow \/ WindowsEnd

Spec == Init /\ [][Next]_vars

----------------------------------------------------------------------------
(* Properties.                                                              *)

AsSolution(s) == [span |-> s.span, disks |-> ToSet(s.disks)]

\* Disks that exist, once each, in order of capacity.
IsSolution(s) ==
    /\ ToSet(s.disks) \subseteq DOMAIN request.drives
    /\ IsInjective(s.disks)
    /\ \A i, j \in DOMAIN s.disks :
        i < j => request.drives[s.disks[i]].capacity <= request.drives[s.disks[j]].capacity

\* The loops work on the disks of one media type, and an answer is one of
\* the kinds the callers handle, with a solution when one is found.
TypeOK ==
    /\ pc \in {"media", "span", "count", "window", "done"}
    /\ \A ds \in groups \cup {disks_by_media_type} : ds \subseteq DOMAIN request.drives
    /\ span \in Nat /\ required_disk_count \in Nat /\ start \in Nat
    /\ is_specified_disk_count_legal \in BOOLEAN
    /\ IsSolution(best_solution)
    /\ answer.result \in {"pending", "InvalidPhysicalDiskNumber", "none", "found"}
    /\ answer.result = "pending" <=> pc # "done"
    /\ answer.result = "found" <=> answer.solution # None
    /\ answer.solution \in {None, best_solution}

\* Windows and early exits lose nothing: of all arrays that could be made of
\* the disks, of one media type, legal for the level and large enough, the
\* search answers one that no other beats, and fails only if there is none.
FindsTheBest ==
    LET best == BestSolutions(request.drives, request.level, request.target,
                              DOMAIN request.drives, request.count)
    IN  /\ answer.result = "found" => AsSolution(answer.solution) \in best
        /\ answer.result \in {"none", "InvalidPhysicalDiskNumber"} => best = {}

\* The disks chosen can hold a volume of the size asked for
\* (raid_utils.py:491, "get best matched disks for target capacity size").
LargeEnough ==
    answer.result = "found" =>
        raid_total_bytes(request.drives, request.level, answer.solution) >= request.target

\* A number of disks is called invalid exactly when no disks whatever could
\* make such an array (or there are no disks): otherwise the failure is one
\* of space, and other hardware would do.
InvalidNumberIsInvalid ==
    answer # Pending /\ request.drives # <<>> =>
        (answer.result = "InvalidPhysicalDiskNumber"
            <=> /\ request.count # AutoCount
                /\ LET drives == [d \in 1..request.count |-> [capacity |-> 9, media |-> "hdd"]]
                   IN  LegalSolutions(drives, request.level, 1, DOMAIN drives, request.count) = {})

=============================================================================
