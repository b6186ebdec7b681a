------------------------------ MODULE DiskPlan ------------------------------
(***************************************************************************)
(* How the logical disks asked of one controller get their physical disks:  *)
(* the planning of apply_raid_configuration (api/system/storage.py), which  *)
(* assigns disks to the volumes one by one in a fixed order, and then the   *)
(* creation of the planned volumes in that order.                           *)
(*                                                                          *)
(* The program plans on copies (PhysicalDisk, PhysicalDiskGroup) of what it *)
(* read from the server; the server holds the volumes.  Requests that fail  *)
(* on the way are in module RaidApply; the search for disks is RaidSolver.  *)
(***************************************************************************)
EXTENDS RaidUtils, Sequences, SequencesExt

CONSTANTS
    Disks,      \* the drives of the controller
    Hardware,   \* what the program may find: [drives, volumes]
    Requests    \* sequences of pending volumes

\* What the program reads: a drive with a volume is not UnconfiguredGood, and
\* belongs to one array, of one RAID level, with its spans, and of drives of
\* one kind; a drive has room for something.
ASSUME HardwareAssumption ==
    /\ IsFiniteSet(Disks)
    /\ \A h \in Hardware :
        /\ h.drives \in [Disks -> [capacity : Nat \ {0}, media : {"ssd", "hdd"}, good : BOOLEAN]]
        /\ h.volumes \in Seq([disks : (SUBSET Disks) \ {{}}, level : DOMAIN RAID_SETTINGS,
                              span : Nat, size : Nat, for : {0}])
        /\ \A k \in DOMAIN h.volumes : h.volumes[k].span \in Spans(h.volumes[k].level)
        /\ \A k \in DOMAIN h.volumes : \A d \in h.volumes[k].disks : ~ h.drives[d].good
        /\ \A k, l \in DOMAIN h.volumes :
                h.volumes[k].disks \cap h.volumes[l].disks # {} =>
                    /\ h.volumes[k].disks = h.volumes[l].disks
                    /\ h.volumes[k].level = h.volumes[l].level
                    /\ h.volumes[k].span = h.volumes[l].span
        /\ \A k \in DOMAIN h.volumes : \A d, e \in h.volumes[k].disks :
                h.drives[d].media = h.drives[e].media

\* What LogicalDisk.__init__ reads, JBOD apart (RaidApply).
ASSUME RequestsAssumption ==
    Requests \subseteq Seq([level : DOMAIN RAID_SETTINGS, size : Nat \cup {MAX_CAPACITY},
                           share : BOOLEAN, disks : SUBSET Disks, count : Nat \cup {AutoCount},
                           media : {"ssd", "hdd", "any"}])

VARIABLES
    drives,     \* [Disks -> [capacity, media, good]]; good: UnconfiguredGood
    volumes,    \* volumes of the server: [disks, level, span, size, for]
    pending,    \* the pending volumes: [level, size, share, disks, count, media]
    plan,       \* [index of a pending volume -> [kind, disks, span, group]]
    exclusive,  \* disks marked as exclusive
    groups,     \* physical disk groups: [disks, level, span, used]
    stage,      \* "plan", "create", "done", "failed" or "refused"
    todo        \* turns of the loop that runs, still to come: <<step, index>>

vars == <<drives, volumes, pending, plan, exclusive, groups, stage, todo>>

Unplanned == [kind |-> "none", disks |-> {}, span |-> 0, group |-> {}]

AutoScale(v) == v.size = MAX_CAPACITY
Specified(v) == v.disks # {}

\* The volumes on one array make one group.
build_disk_groups(existing) ==
    {[disks |-> existing[i].disks, level |-> existing[i].level, span |-> existing[i].span,
      used |-> MapThenSumSet(LAMBDA k : existing[k].size,
                             {k \in DOMAIN existing : existing[k].disks = existing[i].disks})]
        : i \in DOMAIN existing}

----------------------------------------------------------------------------
(* The order: seven selections from the pending volumes, one after another. *)

\* Mutant: the last step is missing.
InStep_Forgets(k, v) ==
    \/ k = 1 /\ ~ v.share /\ Specified(v)
    \/ k = 2 /\ ~ v.share /\ ~ Specified(v) /\ ~ AutoScale(v)
    \/ k = 3 /\ v.share /\ Specified(v) /\ ~ AutoScale(v)
    \/ k = 4 /\ v.share /\ Specified(v) /\ AutoScale(v)
    \/ k = 5 /\ v.share /\ ~ Specified(v) /\ ~ AutoScale(v)
    \/ k = 6 /\ v.share /\ ~ Specified(v) /\ AutoScale(v)

\* Mutant: step 6 does not look at the size.
InStep_Twice(k, v) ==
    \/ k = 1 /\ ~ v.share /\ Specified(v)
    \/ k = 2 /\ ~ v.share /\ ~ Specified(v) /\ ~ AutoScale(v)
    \/ k = 3 /\ v.share /\ Specified(v) /\ ~ AutoScale(v)
    \/ k = 4 /\ v.share /\ Specified(v) /\ AutoScale(v)
    \/ k = 5 /\ v.share /\ ~ Specified(v) /\ ~ AutoScale(v)
    \/ k = 6 /\ v.share /\ ~ Specified(v)
    \/ k = 7 /\ ~ v.share /\ ~ Specified(v) /\ AutoScale(v)

InStep(k, v) ==
    \/ k = 1 /\ ~ v.share /\ Specified(v)
    \/ k = 2 /\ ~ v.share /\ ~ Specified(v) /\ ~ AutoScale(v)
    \/ k = 3 /\ v.share /\ Specified(v) /\ ~ AutoScale(v)
    \/ k = 4 /\ v.share /\ Specified(v) /\ AutoScale(v)
    \/ k = 5 /\ v.share /\ ~ Specified(v) /\ ~ AutoScale(v)
    \/ k = 6 /\ v.share /\ ~ Specified(v) /\ AutoScale(v)
    \/ k = 7 /\ ~ v.share /\ ~ Specified(v) /\ AutoScale(v)

ordered_pending_volumes ==
    {t \in (1..7) \X DOMAIN pending : InStep(t[1], pending[t[2]])}

\* A step takes the volumes in the order of the request.
Earlier(t, u) == t[1] < u[1] \/ (t[1] = u[1] /\ t[2] < u[2])

\* The turn that the loop of this stage is at.
Now(loop) == {t \in todo : stage = loop /\ \A u \in todo : ~ Earlier(u, t)}

Init ==
    /\ \E h \in Hardware : drives = h.drives /\ volumes = h.volumes
    /\ pending \in Requests
    /\ plan = [i \in DOMAIN pending |-> Unplanned]
    /\ exclusive = {}
    /\ groups = IF \E i \in DOMAIN pending : pending[i].share
                THEN build_disk_groups(volumes)
                ELSE {}
    /\ stage = "plan"
    /\ todo = ordered_pending_volumes

----------------------------------------------------------------------------
(* init_disks.                                                              *)

\* Mutant: a disk marked as exclusive is free again.
is_excludable_Good(d) == drives[d].good
is_excludable(d) == drives[d].good /\ d \notin exclusive

\* drive.matches: media type and protocol are two attributes that are compared
\* alike, and one here.
Matches(v, d) == v.media \in {"any", drives[d].media}

left_capacity_bytes(g) == ArrayCapacity(drives, g.level, g.span, g.disks) - g.used

has_capacity_for(g, size) ==
    IF size = MAX_CAPACITY THEN left_capacity_bytes(g) > 0 ELSE left_capacity_bytes(g) >= size

Suitable(g, v) == has_capacity_for(g, v.size) /\ g.level = v.level

\* find_disk_group_owns_disks: a group that has all the specified disks.
Owners(v) == {g \in groups : v.disks \subseteq g.disks}

\* is_better_than: never true when the size is 0.
BetterGroup(v, g, h) ==
    \/ v.size > 0 /\ left_capacity_bytes(g) < left_capacity_bytes(h)
    \/ AutoScale(v) /\ left_capacity_bytes(g) > left_capacity_bytes(h)

get_best_matched_disk_group(v) ==
    {g \in groups : /\ v.size # 0
                    /\ Suitable(g, v)
                    /\ \A h \in groups : Suitable(h, v) => ~ BetterGroup(v, h, g)}

\* The existing group a sharing volume goes to.
Joined(v) ==
    IF Specified(v)
    THEN {g \in Owners(v) : Suitable(g, v) /\ \A d \in v.disks : Matches(v, d)}
    ELSE get_best_matched_disk_group(v)

\* The solutions with disks of its own for a volume.
Solutions(v) ==
    LET free == {d \in Disks : Matches(v, d) /\ is_excludable(d)}
    IN  IF Specified(v)
        THEN {s \in BestSolutions(drives, v.level, v.size, v.disks, Cardinality(v.disks)) :
                v.disks \subseteq free}
        ELSE BestSolutions(drives, v.level, v.size, free, v.count)

\* A sharing volume looks for disks of its own only if no group is for it.
NoGroupFor(v) == ~ v.share \/ (IF Specified(v) THEN Owners(v) = {} ELSE Joined(v) = {})

Planned(t, p) ==
    /\ plan' = [plan EXCEPT ![t[2]] = p]
    /\ todo' = todo \ {t}
    /\ UNCHANGED <<drives, volumes, pending, stage>>

\* A group with room takes the volume.  A MAX volume takes all that is left.
JoinGroup ==
    \E t \in Now("plan") :
        /\ pending[t[2]].share
        /\ \E g \in Joined(pending[t[2]]), d \in Disks :
            LET v == pending[t[2]]
                size == IF AutoScale(v) THEN left_capacity_bytes(g) ELSE v.size
            IN  /\ groups' = (groups \ {g}) \cup {[g EXCEPT !.used = g.used + size]}
                /\ d \in g.disks /\ drives[d].capacity = Smallest(drives, g.disks)
                /\ Planned(t, [kind |-> "join", disks |-> {d}, span |-> 0, group |-> g.disks])
        /\ UNCHANGED exclusive

OwnDisks(t, s) ==
    /\ Planned(t, [kind |-> "own", disks |-> s.disks, span |-> s.span, group |-> s.disks])
    /\ exclusive' = exclusive \cup s.disks

TakeDisks ==
    \E t \in Now("plan") :
        /\ ~ pending[t[2]].share
        /\ \E s \in Solutions(pending[t[2]]) : OwnDisks(t, s)
        /\ UNCHANGED groups

NewGroup(v, s, used) == [disks |-> s.disks, level |-> v.level, span |-> s.span, used |-> used]

\* Mutant: the volume that starts a group does not count in it.
FoundGroup_Empty ==
    \E t \in Now("plan") :
        /\ pending[t[2]].share /\ NoGroupFor(pending[t[2]])
        /\ \E s \in Solutions(pending[t[2]]) :
            /\ OwnDisks(t, s)
            /\ groups' = groups \cup {NewGroup(pending[t[2]], s, 0)}

\* use_shareable_solution: the volume starts a group of its own, in which
\* capacity_bytes counts as used, also when that is MAX_CAPACITY.
FoundGroup ==
    \E t \in Now("plan") :
        /\ pending[t[2]].share /\ NoGroupFor(pending[t[2]])
        /\ \E s \in Solutions(pending[t[2]]) :
            /\ OwnDisks(t, s)
            /\ groups' = groups \cup {NewGroup(pending[t[2]], s, pending[t[2]].size)}

NoDisksFor(v) ==
    /\ v.share => Joined(v) = {}
    /\ NoGroupFor(v) => Solutions(v) = {}

\* Mutant: a volume for which there are no disks is passed over.
PlanFails_Skips ==
    \E t \in Now("plan") :
        /\ NoDisksFor(pending[t[2]])
        /\ todo' = todo \ {t}
        /\ UNCHANGED <<drives, volumes, pending, plan, exclusive, groups, stage>>

\* InvalidLogicalDiskConfig or NoDriveMatchesHint: nothing is created.
PlanFails ==
    \E t \in Now("plan") :
        /\ NoDisksFor(pending[t[2]])
        /\ stage' = "failed"
        /\ UNCHANGED <<drives, volumes, pending, plan, exclusive, groups, todo>>

PlanDone ==
    /\ stage = "plan" /\ todo = {}
    /\ stage' = "create" /\ todo' = ordered_pending_volumes
    /\ UNCHANGED <<drives, volumes, pending, plan, exclusive, groups>>

----------------------------------------------------------------------------
(* The creation of the planned volumes, and the server.                     *)

\* The array that has the drive a joining volume names.
Home(i) == {k \in DOMAIN volumes : plan[i].disks \subseteq volumes[k].disks}

Room(i) ==
    IF plan[i].kind = "own"
    THEN ArrayCapacity(drives, pending[i].level, plan[i].span, plan[i].disks)
    ELSE LET array == volumes[CHOOSE k \in Home(i) : TRUE]
         IN  ArrayCapacity(drives, array.level, array.span, array.disks)
                - MapThenSumSet(LAMBDA k : volumes[k].size, Home(i))

\* What the server asks of the payload of to_create_volume_payload.
Acceptable(i) ==
    /\ \/ /\ plan[i].kind = "own"
          /\ \A d \in plan[i].disks : drives[d].good
          /\ LegalCount(pending[i].level, plan[i].span, Cardinality(plan[i].disks))
       \/ plan[i].kind = "join" /\ Home(i) # {}
    /\ Room(i) >= IF AutoScale(pending[i]) THEN 1 ELSE pending[i].size

VolumeFor(i) ==
    LET array == IF plan[i].kind = "own"
                 THEN [disks |-> plan[i].disks, level |-> pending[i].level, span |-> plan[i].span]
                 ELSE volumes[CHOOSE k \in Home(i) : TRUE]
    IN  [disks |-> array.disks, level |-> array.level, span |-> array.span, for |-> i,
         size |-> IF AutoScale(pending[i]) THEN Room(i) ELSE pending[i].size]

Create ==
    \E t \in Now("create") :
        /\ Acceptable(t[2])
        /\ volumes' = Append(volumes, VolumeFor(t[2]))
        /\ drives' = [d \in Disks |->
                [drives[d] EXCEPT !.good = @ /\ ~ (plan[t[2]].kind = "own" /\ d \in plan[t[2]].disks)]]
        /\ todo' = todo \ {t}
        /\ UNCHANGED <<pending, plan, exclusive, groups, stage>>

\* The server answers with an error: the rest is not tried.
CreateRefused ==
    \E t \in Now("create") :
        /\ ~ Acceptable(t[2])
        /\ stage' = "refused"
        /\ UNCHANGED <<drives, volumes, pending, plan, exclusive, groups, todo>>

CreateDone ==
    /\ stage = "create" /\ todo = {}
    /\ stage' = "done"
    /\ UNCHANGED <<drives, volumes, pending, plan, exclusive, groups, todo>>

Next == JoinGroup \/ TakeDisks \/ FoundGroup \/ PlanFails \/ PlanDone
            \/ Create \/ CreateRefused \/ CreateDone

Spec == Init /\ [][Next]_vars

----------------------------------------------------------------------------
(* Properties.                                                              *)

TypeOK ==
    /\ drives \in [Disks -> [capacity : Nat, media : {"ssd", "hdd"}, good : BOOLEAN]]
    /\ exclusive \subseteq Disks
    /\ plan \in [DOMAIN pending -> [kind : {"none", "own", "join"}, disks : SUBSET Disks,
                                    span : Nat, group : SUBSET Disks]]
    /\ \A g \in groups : /\ g.disks \in (SUBSET Disks) \ {{}}
                         /\ g.level \in DOMAIN RAID_SETTINGS
                         /\ g.span \in Spans(g.level)
                         /\ g.used \in Nat \cup {MAX_CAPACITY}
    /\ stage \in {"plan", "create", "done", "failed", "refused"}
    /\ todo \subseteq (1..7) \X DOMAIN pending
    /\ \A t, u \in todo : t[2] = u[2] => t = u

\* No disk is given away twice: the disks two volumes start arrays on have
\* none in common, and none of them was in use when the planning began; a
\* volume that joins goes to an array that exists or that another volume
\* starts before it (exclusive, is_excludable and the disk groups agree).
DisksUsedOnce ==
    /\ \A i, j \in DOMAIN plan :
        i # j /\ plan[i].kind = "own" /\ plan[j].kind = "own" => plan[i].disks \cap plan[j].disks = {}
    /\ \A i \in DOMAIN plan, k \in DOMAIN volumes :
        plan[i].kind = "own" /\ volumes[k].for = 0 => plan[i].disks \cap volumes[k].disks = {}
    /\ \A i \in DOMAIN plan : plan[i].kind = "join" =>
        \/ \E k \in DOMAIN volumes : volumes[k].disks = plan[i].group
        \/ \E j \in DOMAIN plan : plan[j].kind = "own" /\ plan[j].disks = plan[i].group

\* The server refuses no volume of a complete plan: what the groups have left
\* on paper is what the arrays have left, in the order of the creations.
\* The exception is the group that a sharing MAX volume starts.
PlansFit ==
    stage = "refused" =>
        \E i, j \in DOMAIN plan :
            /\ \E t \in todo : t[2] = j /\ \A u \in todo : ~ Earlier(u, t)
            /\ plan[i].kind = "own" /\ pending[i].share /\ AutoScale(pending[i])
            /\ plan[i].disks = plan[j].group

\* A group has room for what it takes (raid_utils.py:174, "check whether this
\* disk group has enough left capacity for target capacity").
GroupsHaveRoom == stage # "refused"

\* Nothing is created unless there are disks for every pending volume.
AllOrNothing ==
    (\E k \in DOMAIN volumes : volumes[k].for # 0) => \A i \in DOMAIN plan : plan[i] # Unplanned

\* Disks of the kind asked for, and as many, unless they were named.
AsAsked(v, ds) ==
    /\ \A d \in ds : Matches(v, d)
    /\ ~ Specified(v) /\ v.count # AutoCount => Cardinality(ds) = v.count

\* In the end every pending volume exists once, of the size and level asked
\* for, on an array with the disks named.  A volume that starts an array has
\* the disks it asked for; so has one that joins an array whose disks it named.
DoneMeansAll ==
    stage = "done" => \A i \in DOMAIN pending :
        LET v == pending[i]
            made == {k \in DOMAIN volumes : volumes[k].for = i}
        IN  /\ Cardinality(made) = 1
            /\ \A k \in made : /\ volumes[k].level = v.level
                               /\ v.disks \subseteq volumes[k].disks
                               /\ ~ AutoScale(v) => volumes[k].size = v.size
                               /\ Specified(v) \/ plan[i].kind = "own"
                                    => AsAsked(v, volumes[k].disks)

\* A type of disk that is asked for is a selection criterion for every volume
\* (raid_config_schema.json:59, "If this is not specified, disk type will not be
\* a selection criterion for choosing backing physical disks.").
CriteriaAreMet ==
    stage = "done" => \A i \in DOMAIN pending, k \in DOMAIN volumes :
        volumes[k].for = i => \A d \in volumes[k].disks : Matches(pending[i], d)

=============================================================================
