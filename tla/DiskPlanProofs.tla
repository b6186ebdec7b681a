--------------------------- MODULE DiskPlanProofs ---------------------------
(***************************************************************************)
(* Proofs about DiskPlan for any disks, any hardware and any requests: no   *)
(* disk is given away twice, nothing is created before every pending volume *)
(* has its disks, and once all are created each is what was asked for.      *)
(*                                                                          *)
(* The first two need the same induction: the turns of the loops say which  *)
(* volumes have a plan, and exclusive and the groups say which disks it     *)
(* uses.  For the third, the server is told one drive of the array a volume *)
(* joins, and goes by its own tables: that this is the array of the plan    *)
(* needs an invariant that relates the server's arrays, the plan's and the  *)
(* program's groups.                                                        *)
(***************************************************************************)
EXTENDS DiskPlan, SequenceTheorems, FiniteSetTheorems, TLAPS

\* A drive of an array that exists is not good while the program plans, and
\* the server's volumes are a sequence.
ServerOK ==
    /\ volumes \in Seq(Range(volumes))
    /\ stage = "plan" => \A k \in DOMAIN volumes : \A d \in volumes[k].disks : ~ drives[d].good
    /\ stage \in {"plan", "failed"} => \A k \in DOMAIN volumes : volumes[k].for = 0

\* A volume has one turn in each loop, and its plan when the first is over.
TurnsOK ==
    /\ DOMAIN pending \subseteq Nat \ {0}
    /\ DOMAIN plan = DOMAIN pending
    /\ todo \subseteq (1..7) \X DOMAIN pending
    /\ stage = "plan" => \A t, u \in todo : t[2] = u[2] => t = u
    /\ stage = "plan" => \A t \in todo : plan[t[2]] = Unplanned
    /\ stage = "plan" => \A i \in DOMAIN plan : plan[i] = Unplanned => \E t \in todo : t[2] = i
    /\ stage \notin {"plan", "failed"} => \A i \in DOMAIN plan : plan[i] # Unplanned

\* exclusive has all the disks taken, and every group is an array of the
\* server or the disks of a volume with a plan.
OwnersOK ==
    /\ \A i \in DOMAIN plan : plan[i].kind = "own" => plan[i].disks \subseteq exclusive
    /\ \A g \in groups :
        \/ \E k \in DOMAIN volumes : volumes[k].disks = g.disks
        \/ \E j \in DOMAIN plan : plan[j].kind = "own" /\ plan[j].disks = g.disks

PlanInv == ServerOK /\ TurnsOK /\ OwnersOK /\ DisksUsedOnce

----------------------------------------------------------------------------
(* Lemmas about the operators of the plan.                                  *)

\* The seven selections of apply_raid_configuration leave no volume out, and
\* none is selected twice.
LEMMA EveryVolumeHasOneTurn ==
    ASSUME NEW v, v.share \in BOOLEAN
    PROVE  /\ \E k \in 1..7 : InStep(k, v)
           /\ \A j, k \in 1..7 : InStep(j, v) /\ InStep(k, v) => j = k
<1> DEFINE share == v.share
           named == Specified(v)
           max == AutoScale(v)
           step(k) == \/ k = 1 /\ ~ share /\ named
                      \/ k = 2 /\ ~ share /\ ~ named /\ ~ max
                      \/ k = 3 /\ share /\ named /\ ~ max
                      \/ k = 4 /\ share /\ named /\ max
                      \/ k = 5 /\ share /\ ~ named /\ ~ max
                      \/ k = 6 /\ share /\ ~ named /\ max
                      \/ k = 7 /\ ~ share /\ ~ named /\ max
<1>1. share \in BOOLEAN /\ named \in BOOLEAN /\ max \in BOOLEAN
    BY DEF Specified, AutoScale
<1>2. \A k : InStep(k, v) <=> step(k)
    BY DEF InStep
<1> HIDE DEF share, named, max
<1>3. \E k \in 1..7 : step(k)
    BY <1>1
<1>4. \A j, k \in 1..7 : step(j) /\ step(k) => j = k
    BY <1>1
<1> QED BY <1>2, <1>3, <1>4

\* So the loop over ordered_pending_volumes has one turn for every volume.
LEMMA EachVolumeOnce ==
    ASSUME \A i \in DOMAIN pending : pending[i].share \in BOOLEAN
    PROVE  /\ \A t, u \in ordered_pending_volumes : t[2] = u[2] => t = u
           /\ \A i \in DOMAIN pending : \E t \in ordered_pending_volumes : t[2] = i
<1>1. \A i \in DOMAIN pending :
        /\ \E k \in 1..7 : InStep(k, pending[i])
        /\ \A j, k \in 1..7 : InStep(j, pending[i]) /\ InStep(k, pending[i]) => j = k
    BY EveryVolumeHasOneTurn
<1>2. ordered_pending_volumes = {t \in (1..7) \X DOMAIN pending : InStep(t[1], pending[t[2]])}
    BY DEF ordered_pending_volumes
<1>3. ASSUME NEW t \in ordered_pending_volumes, NEW u \in ordered_pending_volumes, t[2] = u[2]
      PROVE  t = u
    <2>1. t[1] = u[1]
        BY <1>1, <1>2, <1>3
    <2> QED BY <1>2, <1>3, <2>1
<1>4. ASSUME NEW i \in DOMAIN pending
      PROVE  \E t \in ordered_pending_volumes : t[2] = i
    <2>1. PICK k \in 1..7 : InStep(k, pending[i])
        BY <1>1
    <2>2. <<k, i>> \in ordered_pending_volumes
        BY <1>2, <2>1
    <2> QED BY <2>2
<1> QED BY <1>3, <1>4

\* The disks of a solution are free ones.
LEMMA SolutionsAreFree ==
    ASSUME NEW v, NEW s \in Solutions(v)
    PROVE  /\ s.disks \subseteq Disks \ exclusive
           /\ \A d \in s.disks : drives[d].good
<1> DEFINE free == {d \in Disks : Matches(v, d) /\ is_excludable(d)}
<1>1. \A target, available, count :
        \A b \in BestSolutions(drives, v.level, target, available, count) : b.disks \subseteq available
    BY DEF BestSolutions, LegalSolutions
<1>2. s.disks \subseteq free
    <2>1. CASE Specified(v)
        BY <1>1, <2>1 DEF Solutions
    <2>2. CASE ~ Specified(v)
        BY <1>1, <2>2 DEF Solutions
    <2> QED BY <2>1, <2>2
<1> QED BY <1>2 DEF is_excludable

\* A volume joins only a group the program knows.
LEMMA JoinedAreGroups ==
    ASSUME NEW v
    PROVE  Joined(v) \subseteq groups
BY DEF Joined, Owners, get_best_matched_disk_group

----------------------------------------------------------------------------
(* The initial states, and the steps that plan.                             *)

\* PlanInv holds when apply_raid_configuration begins to plan.
LEMMA InitPlanInv == Init => PlanInv
<1> SUFFICES ASSUME Init PROVE PlanInv
    OBVIOUS
<1> USE DEF Init
<1>1. PICK h \in Hardware : drives = h.drives /\ volumes = h.volumes
    OBVIOUS
<1>2. ServerOK
    <2> DEFINE V == [disks : (SUBSET Disks) \ {{}}, level : DOMAIN RAID_SETTINGS, span : Nat,
                     size : Nat, for : {0}]
    <2>1. /\ volumes \in Seq(V)
          /\ \A k \in DOMAIN volumes : \A d \in volumes[k].disks : ~ drives[d].good
        BY <1>1, HardwareAssumption
    <2>2. volumes \in Seq(Range(volumes))
        <3> HIDE DEF V
        <3> QED BY <2>1, LenProperties DEF Range
    <2>3. \A k \in DOMAIN volumes : volumes[k].for = 0
        <3>1. \A k \in DOMAIN volumes : volumes[k] \in V
            <4> HIDE DEF V
            <4> QED BY <2>1, ElementOfSeq, LenProperties
        <3> QED BY <3>1
    <2> QED BY <2>1, <2>2, <2>3 DEF ServerOK
<1>3. TurnsOK
    <2> DEFINE R == [level : DOMAIN RAID_SETTINGS, size : Nat \cup {MAX_CAPACITY},
                     share : BOOLEAN, disks : SUBSET Disks, count : Nat \cup {AutoCount},
                     media : {"ssd", "hdd", "any"}]
    <2>1. pending \in Seq(R)
        BY RequestsAssumption
    <2>2. DOMAIN pending \subseteq Nat \ {0} /\ \A i \in DOMAIN pending : pending[i] \in R
        <3> HIDE DEF R
        <3> QED BY <2>1, ElementOfSeq, LenProperties
    <2>3. \A i \in DOMAIN pending : pending[i].share \in BOOLEAN
        BY <2>2
    <2>4. /\ \A t, u \in todo : t[2] = u[2] => t = u
          /\ \A i \in DOMAIN pending : \E t \in todo : t[2] = i
        <3>1. todo = ordered_pending_volumes
            BY Zenon
        <3> HIDE DEF Init, R
        <3> QED BY <2>3, <3>1, EachVolumeOnce
    <2>5. /\ todo \subseteq (1..7) \X DOMAIN pending
          /\ stage = "plan" /\ DOMAIN plan = DOMAIN pending
          /\ \A i \in DOMAIN pending : plan[i] = Unplanned
        BY DEF ordered_pending_volumes
    <2>6. \A t \in todo : t[2] \in DOMAIN pending
        BY <2>5
    <2> HIDE DEF Init
    <2> QED BY <2>2, <2>4, <2>5, <2>6 DEF TurnsOK
<1>4. OwnersOK /\ DisksUsedOnce
    <2>1. \A i \in DOMAIN plan : plan[i].kind = "none"
        BY DEF Unplanned
    <2>2. \A g \in groups : \E k \in DOMAIN volumes : volumes[k].disks = g.disks
        <3> DEFINE used(i) == MapThenSumSet(LAMBDA k : volumes[k].size,
                                            {k \in DOMAIN volumes : volumes[k].disks = volumes[i].disks})
        <3>1. build_disk_groups(volumes) =
                {[disks |-> volumes[i].disks, level |-> volumes[i].level, span |-> volumes[i].span,
                  used |-> used(i)] : i \in DOMAIN volumes}
            BY DEF build_disk_groups
        <3> HIDE DEF used, Init
        <3>2. \A g \in build_disk_groups(volumes) : \E k \in DOMAIN volumes : volumes[k].disks = g.disks
            BY <3>1
        <3>3. groups \subseteq build_disk_groups(volumes)
            BY Zenon DEF Init
        <3> QED BY <3>2, <3>3
    <2> QED BY <2>1, <2>2 DEF OwnersOK, DisksUsedOnce
<1> QED BY <1>2, <1>3, <1>4 DEF PlanInv

\* A turn of the planning loop: the volume gets its plan, the server is as it
\* was.
LEMMA PlannedKeeps ==
    ASSUME PlanInv, NEW t \in Now("plan"), NEW p, p.kind # "none", Planned(t, p)
    PROVE  /\ ServerOK' /\ TurnsOK'
           /\ t[2] \in DOMAIN plan /\ plan[t[2]].kind = "none"
           /\ DOMAIN plan' = DOMAIN plan /\ plan'[t[2]] = p
           /\ \A i \in DOMAIN plan : i # t[2] => plan'[i] = plan[i]
<1> USE DEF PlanInv, Planned
<1>1. t \in todo /\ stage = "plan" /\ t \in (1..7) \X DOMAIN pending
    BY DEF Now, TurnsOK
<1>2. t[2] \in DOMAIN plan /\ plan[t[2]] = Unplanned
    BY <1>1 DEF TurnsOK
<1>3. /\ DOMAIN plan' = DOMAIN plan /\ plan'[t[2]] = p
      /\ \A i \in DOMAIN plan : i # t[2] => plan'[i] = plan[i]
    BY <1>2
<1>4. p # Unplanned
    BY DEF Unplanned
<1>5. ServerOK'
    BY DEF ServerOK
<1>6. TurnsOK'
    <2>1. \A u \in todo' : u[2] # t[2]
        BY <1>1 DEF TurnsOK
    <2>2. \A u \in todo' : plan'[u[2]] = Unplanned
        BY <1>1, <1>3, <2>1 DEF TurnsOK
    <2>3. \A i \in DOMAIN plan' : plan'[i] = Unplanned => \E u \in todo' : u[2] = i
        BY <1>1, <1>3, <1>4 DEF TurnsOK
    <2> QED BY <1>1, <1>3, <2>2, <2>3 DEF TurnsOK
<1> QED BY <1>2, <1>3, <1>5, <1>6 DEF Unplanned

\* A volume with disks of its own: they were free, and now they are marked.
LEMMA OwnDisksKeep ==
    ASSUME PlanInv, NEW t \in Now("plan"), NEW v, NEW s \in Solutions(v), OwnDisks(t, s)
    PROVE  /\ ServerOK' /\ TurnsOK' /\ DisksUsedOnce'
           /\ \A i \in DOMAIN plan' : plan'[i].kind = "own" => plan'[i].disks \subseteq exclusive'
           /\ \A g \in groups :
                \/ \E k \in DOMAIN volumes' : volumes'[k].disks = g.disks
                \/ \E j \in DOMAIN plan' : plan'[j].kind = "own" /\ plan'[j].disks = g.disks
           /\ \E j \in DOMAIN plan' : plan'[j].kind = "own" /\ plan'[j].disks = s.disks
<1> DEFINE i == t[2]
           p == [kind |-> "own", disks |-> s.disks, span |-> s.span, group |-> s.disks]
<1>1. Planned(t, p) /\ exclusive' = exclusive \cup s.disks
    BY DEF OwnDisks
<1>2. /\ ServerOK' /\ TurnsOK'
      /\ i \in DOMAIN plan /\ plan[i].kind = "none"
      /\ DOMAIN plan' = DOMAIN plan /\ plan'[i] = p
      /\ \A j \in DOMAIN plan : j # i => plan'[j] = plan[j]
    BY <1>1, PlannedKeeps
<1>3. volumes' = volumes /\ drives' = drives
    BY <1>1 DEF Planned
<1>4. s.disks \cap exclusive = {} /\ \A d \in s.disks : drives[d].good
    BY SolutionsAreFree
<1>5. \A j \in DOMAIN plan' : plan'[j].kind = "own" => plan'[j].disks \subseteq exclusive'
    BY <1>1, <1>2 DEF PlanInv, OwnersOK
<1>6. \A j \in DOMAIN plan : plan[j].kind = "own" => plan'[j] = plan[j]
    BY <1>2
<1>7. DisksUsedOnce'
    <2>1. \A j, k \in DOMAIN plan' : j # k /\ plan'[j].kind = "own" /\ plan'[k].kind = "own"
            => plan'[j].disks \cap plan'[k].disks = {}
        <3>1. \A j \in DOMAIN plan : j # i /\ plan'[j].kind = "own" => plan'[j].disks \subseteq exclusive
            BY <1>2 DEF PlanInv, OwnersOK
        <3>2. \A j \in DOMAIN plan : j # i /\ plan'[j].kind = "own" => plan'[j].disks \cap plan'[i].disks = {}
            BY <1>2, <1>4, <3>1
        <3>3. \A j, k \in DOMAIN plan : j # k /\ plan[j].kind = "own" /\ plan[k].kind = "own"
                => plan[j].disks \cap plan[k].disks = {}
            BY DEF PlanInv, DisksUsedOnce
        <3> QED BY <1>2, <3>2, <3>3
    <2>2. \A j \in DOMAIN plan', k \in DOMAIN volumes' :
            plan'[j].kind = "own" /\ volumes'[k].for = 0 => plan'[j].disks \cap volumes'[k].disks = {}
        <3>1. \A k \in DOMAIN volumes : \A d \in volumes[k].disks : ~ drives[d].good
            BY DEF PlanInv, ServerOK, Now
        <3>2. \A k \in DOMAIN volumes : plan'[i].disks \cap volumes[k].disks = {}
            BY <1>2, <1>4, <3>1
        <3> QED BY <1>2, <1>3, <3>2 DEF PlanInv, DisksUsedOnce
    <2>3. \A j \in DOMAIN plan' : plan'[j].kind = "join" =>
            \/ \E k \in DOMAIN volumes' : volumes'[k].disks = plan'[j].group
            \/ \E k \in DOMAIN plan' : plan'[k].kind = "own" /\ plan'[k].disks = plan'[j].group
        BY <1>2, <1>3, <1>6 DEF PlanInv, DisksUsedOnce
    <2> QED BY <2>1, <2>2, <2>3 DEF DisksUsedOnce
<1>8. \A g \in groups :
        \/ \E k \in DOMAIN volumes' : volumes'[k].disks = g.disks
        \/ \E j \in DOMAIN plan' : plan'[j].kind = "own" /\ plan'[j].disks = g.disks
    BY <1>2, <1>3, <1>6 DEF PlanInv, OwnersOK
<1> QED BY <1>2, <1>5, <1>7, <1>8

\* Every step that plans keeps the invariant.
LEMMA PlanningKeepsPlanInv ==
    ASSUME PlanInv, JoinGroup \/ TakeDisks \/ FoundGroup \/ PlanFails \/ PlanDone
    PROVE  PlanInv'
<1>1. CASE JoinGroup
    <2> DEFINE Takes(t, g, d, size) ==
                /\ groups' = (groups \ {g}) \cup {[g EXCEPT !.used = g.used + size]}
                /\ Planned(t, [kind |-> "join", disks |-> {d}, span |-> 0, group |-> g.disks])
                /\ exclusive' = exclusive
    <2>0. PICK t \in Now("plan") :
            \E g \in Joined(pending[t[2]]), d \in Disks : \E size : Takes(t, g, d, size)
        BY <1>1 DEF JoinGroup
    <2>1. PICK g \in Joined(pending[t[2]]), d \in Disks : \E size : Takes(t, g, d, size)
        BY <2>0
    <2>2. PICK size : Takes(t, g, d, size)
        BY <2>1
    <2> DEFINE i == t[2]
               p == [kind |-> "join", disks |-> {d}, span |-> 0, group |-> g.disks]
    <2>3. /\ ServerOK' /\ TurnsOK'
          /\ i \in DOMAIN plan /\ plan[i].kind = "none"
          /\ DOMAIN plan' = DOMAIN plan /\ plan'[i] = p
          /\ \A j \in DOMAIN plan : j # i => plan'[j] = plan[j]
        BY <2>2, PlannedKeeps
    <2>4. volumes' = volumes /\ drives' = drives
        BY <2>2 DEF Planned
    <2>5. /\ \A j \in DOMAIN plan : plan'[j].kind = "own" => plan[j].kind = "own" /\ plan'[j] = plan[j]
          /\ \A j \in DOMAIN plan : plan[j].kind = "own" => plan'[j] = plan[j]
        BY <2>3
    <2>6. \A h \in groups' : \E o \in groups : h.disks = o.disks
        <3>1. g \in groups
            BY <2>2, JoinedAreGroups
        <3>2. [g EXCEPT !.used = g.used + size].disks = g.disks
            BY <3>1
        <3> QED BY <2>2, <3>1, <3>2
    <2>7. \A h \in groups :
            \/ \E k \in DOMAIN volumes' : volumes'[k].disks = h.disks
            \/ \E j \in DOMAIN plan' : plan'[j].kind = "own" /\ plan'[j].disks = h.disks
        BY <2>3, <2>4, <2>5 DEF PlanInv, OwnersOK
    <2>8. OwnersOK'
        <3>1. \A j \in DOMAIN plan' : plan'[j].kind = "own" => plan'[j].disks \subseteq exclusive'
            BY <2>2, <2>3, <2>5 DEF PlanInv, OwnersOK
        <3> QED BY <2>6, <2>7, <3>1 DEF OwnersOK
    <2>9. DisksUsedOnce'
        <3>1. \A j, k \in DOMAIN plan' : j # k /\ plan'[j].kind = "own" /\ plan'[k].kind = "own"
                => plan'[j].disks \cap plan'[k].disks = {}
            BY <2>3, <2>5 DEF PlanInv, DisksUsedOnce
        <3>2. \A j \in DOMAIN plan', k \in DOMAIN volumes' :
                plan'[j].kind = "own" /\ volumes'[k].for = 0
                    => plan'[j].disks \cap volumes'[k].disks = {}
            BY <2>3, <2>4, <2>5 DEF PlanInv, DisksUsedOnce
        <3>3. \A j \in DOMAIN plan' : plan'[j].kind = "join" =>
                \/ \E k \in DOMAIN volumes' : volumes'[k].disks = plan'[j].group
                \/ \E k \in DOMAIN plan' : plan'[k].kind = "own" /\ plan'[k].disks = plan'[j].group
            <4>1. g \in groups
                BY <2>2, JoinedAreGroups
            <4>2. plan'[i].group = g.disks
                BY <2>3
            <4>3. \A j \in DOMAIN plan : j # i /\ plan'[j].kind = "join" =>
                    \/ \E k \in DOMAIN volumes' : volumes'[k].disks = plan'[j].group
                    \/ \E k \in DOMAIN plan' : plan'[k].kind = "own" /\ plan'[k].disks = plan'[j].group
                BY <2>3, <2>4, <2>5 DEF PlanInv, DisksUsedOnce
            <4> QED BY <2>3, <2>7, <4>1, <4>2, <4>3
        <3> QED BY <3>1, <3>2, <3>3 DEF DisksUsedOnce
    <2> QED BY <2>3, <2>8, <2>9 DEF PlanInv
<1>2. CASE TakeDisks
    <2>1. PICK t \in Now("plan") :
            \E s \in Solutions(pending[t[2]]) : OwnDisks(t, s) /\ UNCHANGED groups
        BY <1>2 DEF TakeDisks
    <2>2. PICK s \in Solutions(pending[t[2]]) : OwnDisks(t, s) /\ UNCHANGED groups
        BY <2>1
    <2> QED BY <2>2, OwnDisksKeep DEF PlanInv, OwnersOK
<1>3. CASE FoundGroup
    <2>1. PICK t \in Now("plan") : \E s \in Solutions(pending[t[2]]) :
            /\ OwnDisks(t, s)
            /\ groups' = groups \cup {NewGroup(pending[t[2]], s, pending[t[2]].size)}
        BY <1>3 DEF FoundGroup
    <2>2. PICK s \in Solutions(pending[t[2]]) :
            /\ OwnDisks(t, s)
            /\ groups' = groups \cup {NewGroup(pending[t[2]], s, pending[t[2]].size)}
        BY <2>1
    <2>3. NewGroup(pending[t[2]], s, pending[t[2]].size).disks = s.disks
        BY DEF NewGroup
    <2> QED BY <2>2, <2>3, OwnDisksKeep DEF PlanInv, OwnersOK
<1>4. CASE PlanFails
    <2>1. stage = "plan" /\ stage' = "failed"
          /\ UNCHANGED <<drives, volumes, pending, plan, exclusive, groups, todo>>
        BY <1>4 DEF PlanFails, Now
    <2> QED BY <2>1 DEF PlanInv, ServerOK, TurnsOK, OwnersOK, DisksUsedOnce
<1>5. CASE PlanDone
    <2>1. /\ stage = "plan" /\ stage' = "create" /\ todo = {}
          /\ UNCHANGED <<drives, volumes, pending, plan, exclusive, groups>>
        BY <1>5 DEF PlanDone
    <2>2. \A i \in DOMAIN plan' : plan'[i] # Unplanned
        BY <2>1 DEF PlanInv, TurnsOK
    <2>3. todo' \subseteq (1..7) \X DOMAIN pending'
        BY <1>5 DEF PlanDone, ordered_pending_volumes
    <2>4. TurnsOK'
        BY <2>1, <2>2, <2>3 DEF PlanInv, TurnsOK
    <2> QED BY <2>1, <2>4 DEF PlanInv, ServerOK, OwnersOK, DisksUsedOnce
<1> QED BY <1>1, <1>2, <1>3, <1>4, <1>5

----------------------------------------------------------------------------
(* The steps that create.                                                   *)

\* The volumes are created when all have a plan, and each is a volume that was
\* asked for.
LEMMA CreatingKeepsPlanInv ==
    ASSUME PlanInv, Create \/ CreateRefused \/ CreateDone
    PROVE  PlanInv'
<1>1. CASE Create
    <2>1. PICK t \in Now("create") :
            /\ volumes' = Append(volumes, VolumeFor(t[2]))
            /\ todo' = todo \ {t}
            /\ UNCHANGED <<pending, plan, exclusive, groups, stage>>
        BY <1>1 DEF Create
    <2> DEFINE new == VolumeFor(t[2])
               R == Range(volumes) \cup {new}
    <2>2. stage = "create" /\ t[2] \in Nat \ {0}
        BY DEF Now, PlanInv, TurnsOK
    <2>3. new.for # 0
        BY <2>2 DEF VolumeFor
    <2>4. /\ volumes' \in Seq(R) /\ Len(volumes') = Len(volumes) + 1 /\ Len(volumes) \in Nat
          /\ DOMAIN volumes = 1..Len(volumes) /\ DOMAIN volumes' = 1..(Len(volumes) + 1)
          /\ \A k \in DOMAIN volumes : volumes'[k] = volumes[k]
          /\ volumes'[Len(volumes) + 1] = new
        <3>1. volumes \in Seq(R) /\ new \in R
            <4>1. Range(volumes) \subseteq R
                OBVIOUS
            <4> HIDE DEF R
            <4>2. volumes \in Seq(R)
                BY <4>1, SeqMonotonic DEF PlanInv, ServerOK
            <4> QED BY <4>2 DEF R
        <3> HIDE DEF R, new
        <3> QED BY <2>1, <3>1, AppendProperties, LenProperties DEF new
    <2> HIDE DEF new, R
    <2>5. ServerOK'
        <3>1. volumes' \in Seq(Range(volumes'))
            BY <2>4, LenProperties DEF Range
        <3> QED BY <2>1, <2>2, <3>1 DEF ServerOK
    <2>6. TurnsOK'
        BY <2>1, <2>2 DEF PlanInv, TurnsOK
    <2>7. OwnersOK'
        <3>1. \A k \in DOMAIN volumes : k \in DOMAIN volumes' /\ volumes'[k] = volumes[k]
            BY <2>4
        <3> QED BY <2>1, <3>1 DEF PlanInv, OwnersOK
    <2>8. DisksUsedOnce'
        <3>1. \A k \in DOMAIN volumes : k \in DOMAIN volumes' /\ volumes'[k] = volumes[k]
            BY <2>4
        <3>2. \A k \in DOMAIN volumes' : volumes'[k].for = 0 =>
                k \in DOMAIN volumes /\ volumes'[k] = volumes[k]
            BY <2>3, <2>4
        <3> QED BY <2>1, <3>1, <3>2 DEF PlanInv, DisksUsedOnce
    <2> QED BY <2>5, <2>6, <2>7, <2>8 DEF PlanInv
<1>2. CASE CreateRefused
    <2>1. /\ stage = "create" /\ stage' = "refused"
          /\ UNCHANGED <<drives, volumes, pending, plan, exclusive, groups, todo>>
        BY <1>2 DEF CreateRefused, Now
    <2> QED BY <2>1 DEF PlanInv, ServerOK, TurnsOK, OwnersOK, DisksUsedOnce
<1>3. CASE CreateDone
    <2>1. /\ stage = "create" /\ stage' = "done"
          /\ UNCHANGED <<drives, volumes, pending, plan, exclusive, groups, todo>>
        BY <1>3 DEF CreateDone
    <2> QED BY <2>1 DEF PlanInv, ServerOK, TurnsOK, OwnersOK, DisksUsedOnce
<1> QED BY <1>1, <1>2, <1>3

----------------------------------------------------------------------------
(* The theorems.                                                            *)

\* PlanInv is an invariant of the planning and of the creations.
THEOREM PlanIsOrderly == Spec => []PlanInv
<1>1. PlanInv /\ [Next]_vars => PlanInv'
    <2> SUFFICES ASSUME PlanInv, [Next]_vars PROVE PlanInv'
        OBVIOUS
    <2>1. CASE UNCHANGED vars
        BY <2>1 DEF vars, PlanInv, ServerOK, TurnsOK, OwnersOK, DisksUsedOnce
    <2> QED BY <2>1, PlanningKeepsPlanInv, CreatingKeepsPlanInv DEF Next
<1> QED BY <1>1, InitPlanInv, PTL DEF Spec

\* apply_raid_configuration gives no disk away twice: not to two volumes that
\* start arrays, not one that was in use, and a volume that joins goes to an
\* array that exists or that another volume starts.
THEOREM DisksAreUsedOnce == Spec => []DisksUsedOnce
<1>1. PlanInv => DisksUsedOnce
    BY DEF PlanInv
<1> QED BY <1>1, PlanIsOrderly, PTL

\* apply_raid_configuration creates nothing before every pending volume has
\* its disks.
THEOREM CreatesAllOrNothing == Spec => []AllOrNothing
<1>1. PlanInv => AllOrNothing
    BY DEF PlanInv, ServerOK, TurnsOK, AllOrNothing
<1> QED BY <1>1, PlanIsOrderly, PTL

----------------------------------------------------------------------------
(* What the plan comes to.                                                  *)

\* What was read from the server and from the request has its fields.
DataOK ==
    /\ drives \in [Disks -> [capacity : Nat \ {0}, media : {"ssd", "hdd"}, good : BOOLEAN]]
    /\ \A i \in DOMAIN pending : /\ pending[i].share \in BOOLEAN
                                 /\ pending[i].disks \subseteq Disks
                                 /\ pending[i].level \in DOMAIN RAID_SETTINGS
                                 /\ pending[i].size \in Nat \cup {MAX_CAPACITY}
    /\ \A g \in groups : {"disks", "level", "span", "used"} = DOMAIN g

\* The arrays the server has, those the plan makes, and the groups that stand
\* for them in the program.
Arrays ==
    {[disks |-> volumes[k].disks, level |-> volumes[k].level, span |-> volumes[k].span]
        : k \in DOMAIN volumes}
    \cup {[disks |-> plan[i].disks, level |-> pending[i].level, span |-> plan[i].span]
            : i \in {j \in DOMAIN plan : plan[j].kind = "own"}}
    \cup {[disks |-> g.disks, level |-> g.level, span |-> g.span] : g \in groups}

\* A drive is in one array, and an array has drives of one kind, a level and
\* its spans.
ArraysOK ==
    /\ \A x, y \in Arrays : x.disks \cap y.disks # {} => x = y
    /\ \A x \in Arrays : /\ x.disks \subseteq Disks /\ x.disks # {}
                         /\ x.level \in DOMAIN RAID_SETTINGS /\ x.span \in Spans(x.level)
    /\ \A x \in Arrays : \A d, e \in x.disks : drives[d].media = drives[e].media

\* The plan for volume i gives it an array of the kind it asked for.
PlannedRight(i) ==
    LET v == pending[i]
        p == plan[i]
    IN  \/ p = Unplanned
        \/ p.kind = "own" /\ v.disks \subseteq p.disks /\ AsAsked(v, p.disks)
        \/ /\ p.kind = "join" /\ v.share /\ p.disks # {}
           /\ \E x \in Arrays :
                /\ x.level = v.level /\ v.disks \subseteq x.disks /\ p.disks \subseteq x.disks
                /\ Specified(v) => AsAsked(v, x.disks)

PlansOK == \A i \in DOMAIN plan : PlannedRight(i)

\* Volume k of the server is what pending volume i asks for.
MadeRight(k, i) ==
    /\ volumes[k].level = pending[i].level
    /\ pending[i].disks \subseteq volumes[k].disks
    /\ ~ AutoScale(pending[i]) => volumes[k].size = pending[i].size
    /\ Specified(pending[i]) \/ plan[i].kind = "own" => AsAsked(pending[i], volumes[k].disks)

\* Each pending volume is made once, when its turn comes.
MadeOK ==
    /\ \A k \in DOMAIN volumes : volumes[k].for # 0 =>
          volumes[k].for \in DOMAIN pending /\ MadeRight(k, volumes[k].for)
    /\ \A k, l \in DOMAIN volumes : volumes[k].for = volumes[l].for /\ volumes[k].for # 0 => k = l
    /\ stage = "create" =>
          /\ \A t \in todo, k \in DOMAIN volumes : volumes[k].for # t[2]
          /\ \A t, u \in todo : t[2] = u[2] => t = u
    /\ stage \in {"create", "done"} => \A i \in DOMAIN pending :
          \/ \E k \in DOMAIN volumes : volumes[k].for = i
          \/ stage = "create" /\ \E t \in todo : t[2] = i

ResultInv == DataOK /\ ArraysOK /\ PlansOK /\ MadeOK

----------------------------------------------------------------------------
(* Lemmas about solutions and arrays.                                       *)

\* The disks of a solution are of one kind, the volume's, and have all the
\* disks the volume names: asking for as many disks as it names leaves no
\* other choice.
LEMMA SolutionsAreRight ==
    ASSUME DataOK, NEW i \in DOMAIN pending, NEW s \in Solutions(pending[i])
    PROVE  /\ s.disks \subseteq Disks /\ s.disks # {} /\ s.span \in Spans(pending[i].level)
           /\ pending[i].disks \subseteq s.disks
           /\ AsAsked(pending[i], s.disks)
           /\ \A d, e \in s.disks : drives[d].media = drives[e].media
<1> DEFINE v == pending[i]
           free == {d \in Disks : Matches(v, d) /\ is_excludable(d)}
<1>1. v.disks \subseteq Disks
    BY DEF DataOK
<1>2. \A available, count : \A b \in BestSolutions(drives, v.level, v.size, available, count) :
        /\ b.disks \subseteq available
        /\ Cardinality({drives[d].media : d \in b.disks}) = 1
        /\ count # AutoCount => Cardinality(b.disks) = count
    BY DEF BestSolutions, LegalSolutions
<1>3. /\ s.disks \subseteq free
      /\ Cardinality({drives[d].media : d \in s.disks}) = 1
    <2>1. CASE Specified(v)
        BY <1>2, <2>1 DEF Solutions
    <2>2. CASE ~ Specified(v)
        BY <1>2, <2>2 DEF Solutions
    <2> QED BY <2>1, <2>2
<1>4. v.disks \subseteq s.disks
    <2>1. CASE Specified(v)
        <3>1. IsFiniteSet(v.disks)
            BY <1>1, HardwareAssumption, FS_Subset
        <3>2. Cardinality(v.disks) # AutoCount
            BY <3>1, FS_CardinalityType DEF AutoCount
        <3>3. s \in BestSolutions(drives, v.level, v.size, v.disks, Cardinality(v.disks))
            BY <2>1 DEF Solutions
        <3>4. s.disks \subseteq v.disks /\ Cardinality(s.disks) = Cardinality(v.disks)
            <4> HIDE DEF v
            <4> QED BY <1>2, <3>2, <3>3, Zenon
        <3> QED BY <3>1, <3>4, FS_Subset
    <2>2. CASE ~ Specified(v)
        BY <2>2 DEF Specified
    <2> QED BY <2>1, <2>2
<1>5. \A d, e \in s.disks : drives[d].media = drives[e].media
    <2> DEFINE M == {drives[d].media : d \in s.disks}
    <2>1. M \subseteq {"ssd", "hdd"}
        BY <1>3 DEF DataOK
    <2>2. IsFiniteSet(M)
        <3>1. IsFiniteSet({"ssd"} \cup {"hdd"})
            BY FS_Singleton, FS_AddElement
        <3>2. M \subseteq {"ssd"} \cup {"hdd"}
            BY <2>1
        <3> HIDE DEF M
        <3> QED BY <3>1, <3>2, FS_Subset
    <2>3. \E m : M = {m}
        <3> HIDE DEF M
        <3>1. Cardinality(M) = 1
            BY <1>3 DEF M
        <3> QED BY <2>2, <3>1, FS_Singleton
    <2> QED BY <2>3
<1>6. \A available, count : \A b \in BestSolutions(drives, v.level, v.size, available, count) :
        b.disks # {} /\ b.span \in Spans(v.level)
    BY DEF BestSolutions, LegalSolutions
<1>7. s.disks # {} /\ s.span \in Spans(v.level)
    <2>1. CASE Specified(v)
        BY <1>6, <2>1 DEF Solutions
    <2>2. CASE ~ Specified(v)
        BY <1>6, <2>2 DEF Solutions
    <2> QED BY <2>1, <2>2
<1>8. AsAsked(v, s.disks)
    <2>1. ~ Specified(v) /\ v.count # AutoCount => Cardinality(s.disks) = v.count
        <3> SUFFICES ASSUME ~ Specified(v), v.count # AutoCount
                     PROVE  Cardinality(s.disks) = v.count
            OBVIOUS
        <3>1. s \in BestSolutions(drives, v.level, v.size, free, v.count)
            BY DEF Solutions
        <3>2. PICK n : n = v.count
            OBVIOUS
        <3>3. n # AutoCount /\ s \in BestSolutions(drives, v.level, v.size, free, n)
            BY <3>1, <3>2
        <3> HIDE DEF v, free
        <3>4. Cardinality(s.disks) = n
            BY <1>2, <3>3, Zenon
        <3> QED BY <3>2, <3>4
    <2>2. \A d \in s.disks : Matches(v, d)
        BY <1>3
    <2> HIDE DEF v, free
    <2> QED BY <2>1, <2>2 DEF AsAsked
<1> QED BY <1>1, <1>3, <1>4, <1>5, <1>7, <1>8

\* A disk that is still free is in no array.
LEMMA FreeDisksAreInNoArray ==
    ASSUME PlanInv, stage = "plan", NEW S, S \cap exclusive = {}, \A d \in S : drives[d].good
    PROVE  \A x \in Arrays : x.disks \cap S = {}
<1>1. \A k \in DOMAIN volumes : volumes[k].disks \cap S = {}
    BY DEF PlanInv, ServerOK
<1>2. \A i \in DOMAIN plan : plan[i].kind = "own" => plan[i].disks \cap S = {}
    BY DEF PlanInv, OwnersOK
<1>3. \A g \in groups : g.disks \cap S = {}
    <2> SUFFICES ASSUME NEW g \in groups PROVE g.disks \cap S = {}
        OBVIOUS
    <2>1. \/ \E k \in DOMAIN volumes : volumes[k].disks = g.disks
          \/ \E j \in DOMAIN plan : plan[j].kind = "own" /\ plan[j].disks = g.disks
        BY DEF PlanInv, OwnersOK
    <2> QED BY <1>1, <1>2, <2>1
<1> QED BY <1>1, <1>2, <1>3 DEF Arrays

\* A plan stays right when the arrays it may name are still there.
LEMMA RightPlansStay ==
    ASSUME NEW i, PlannedRight(i), plan'[i] = plan[i], pending' = pending, drives' = drives,
           Arrays \subseteq Arrays'
    PROVE  PlannedRight(i)'
BY DEF PlannedRight, AsAsked, Matches, Specified

\* While it plans nothing is made.
LEMMA NothingMadeYet ==
    ASSUME \A k \in DOMAIN volumes : volumes[k].for = 0, stage \notin {"create", "done"}
    PROVE  MadeOK
BY DEF MadeOK

----------------------------------------------------------------------------
(* The initial states, and the steps that plan.                             *)

\* ResultInv holds when apply_raid_configuration begins to plan.
LEMMA InitResultInv == Init => ResultInv
<1> SUFFICES ASSUME Init PROVE ResultInv
    OBVIOUS
<1>0. PlanInv
    BY InitPlanInv
<1>1. PICK h \in Hardware : drives = h.drives /\ volumes = h.volumes
    BY DEF Init
<1> DEFINE V == [disks : (SUBSET Disks) \ {{}}, level : DOMAIN RAID_SETTINGS, span : Nat,
                 size : Nat, for : {0}]
           R == [level : DOMAIN RAID_SETTINGS, size : Nat \cup {MAX_CAPACITY},
                 share : BOOLEAN, disks : SUBSET Disks, count : Nat \cup {AutoCount},
                 media : {"ssd", "hdd", "any"}]
<1>2. /\ drives \in [Disks -> [capacity : Nat \ {0}, media : {"ssd", "hdd"}, good : BOOLEAN]]
      /\ volumes \in Seq(V)
      /\ \A k, l \in DOMAIN volumes :
            volumes[k].disks \cap volumes[l].disks # {} =>
                /\ volumes[k].disks = volumes[l].disks
                /\ volumes[k].level = volumes[l].level /\ volumes[k].span = volumes[l].span
      /\ \A k \in DOMAIN volumes : volumes[k].span \in Spans(volumes[k].level)
      /\ \A k \in DOMAIN volumes : \A d, e \in volumes[k].disks : drives[d].media = drives[e].media
    <2>1. /\ drives \in [Disks -> [capacity : Nat \ {0}, media : {"ssd", "hdd"}, good : BOOLEAN]]
          /\ volumes \in Seq(V)
        BY <1>1, HardwareAssumption
    <2>2. \A k, l \in DOMAIN volumes :
            volumes[k].disks \cap volumes[l].disks # {} =>
                /\ volumes[k].disks = volumes[l].disks
                /\ volumes[k].level = volumes[l].level /\ volumes[k].span = volumes[l].span
        <3>1. \A k, l \in DOMAIN h.volumes :
                h.volumes[k].disks \cap h.volumes[l].disks # {} =>
                    /\ h.volumes[k].disks = h.volumes[l].disks
                    /\ h.volumes[k].level = h.volumes[l].level
                    /\ h.volumes[k].span = h.volumes[l].span
            <4>1. \A g \in Hardware : \A k, l \in DOMAIN g.volumes :
                    g.volumes[k].disks \cap g.volumes[l].disks # {} =>
                        /\ g.volumes[k].disks = g.volumes[l].disks
                        /\ g.volumes[k].level = g.volumes[l].level
                        /\ g.volumes[k].span = g.volumes[l].span
                BY HardwareAssumption, Zenon
            <4> QED BY <1>1, <4>1, Zenon
        <3> QED BY <1>1, <3>1
    <2>3. \A k \in DOMAIN volumes : \A d, e \in volumes[k].disks : drives[d].media = drives[e].media
        <3>1. \A k \in DOMAIN h.volumes : \A d, e \in h.volumes[k].disks :
                h.drives[d].media = h.drives[e].media
            BY HardwareAssumption, Zenon
        <3> QED BY <1>1, <3>1
    <2>4. \A k \in DOMAIN volumes : volumes[k].span \in Spans(volumes[k].level)
        <3>1. \A k \in DOMAIN h.volumes : h.volumes[k].span \in Spans(h.volumes[k].level)
            BY HardwareAssumption, Zenon
        <3> QED BY <1>1, <3>1
    <2> QED BY <2>1, <2>2, <2>3, <2>4, Zenon
<1>3. \A k \in DOMAIN volumes : /\ volumes[k].disks \subseteq Disks /\ volumes[k].disks # {}
                               /\ volumes[k].level \in DOMAIN RAID_SETTINGS
    <2>1. \A k \in DOMAIN volumes : volumes[k] \in V
        <3> HIDE DEF V
        <3> QED BY <1>2, ElementOfSeq, LenProperties
    <2> QED BY <2>1
<1>4. \A i \in DOMAIN pending :
        /\ pending[i].share \in BOOLEAN /\ pending[i].disks \subseteq Disks
        /\ pending[i].level \in DOMAIN RAID_SETTINGS /\ pending[i].size \in Nat \cup {MAX_CAPACITY}
    <2>1. pending \in Seq(R)
        BY RequestsAssumption DEF Init
    <2>2. \A i \in DOMAIN pending : pending[i] \in R
        <3> HIDE DEF R
        <3> QED BY <2>1, ElementOfSeq, LenProperties
    <2> QED BY <2>2
<1> DEFINE used(i) == MapThenSumSet(LAMBDA k : volumes[k].size,
                                    {k \in DOMAIN volumes : volumes[k].disks = volumes[i].disks})
           group(i) == [disks |-> volumes[i].disks, level |-> volumes[i].level,
                        span |-> volumes[i].span, used |-> used(i)]
<1>5. \A g \in groups : \E i \in DOMAIN volumes : g = group(i)
    <2>1. build_disk_groups(volumes) = {group(i) : i \in DOMAIN volumes}
        BY DEF build_disk_groups
    <2>2. groups \subseteq build_disk_groups(volumes)
        BY Zenon DEF Init
    <2> HIDE DEF group
    <2> QED BY <2>1, <2>2
<1> HIDE DEF used
<1>6. DataOK
    BY <1>2, <1>4, <1>5 DEF DataOK
<1>7. \A x \in Arrays : \E k \in DOMAIN volumes :
        x = [disks |-> volumes[k].disks, level |-> volumes[k].level, span |-> volumes[k].span]
    <2>1. \A i \in DOMAIN plan : plan[i].kind # "own"
        BY DEF Init, Unplanned
    <2>2. \A g \in groups : \E k \in DOMAIN volumes :
            /\ g.disks = volumes[k].disks /\ g.level = volumes[k].level
            /\ g.span = volumes[k].span
        BY <1>5
    <2> QED BY <2>1, <2>2 DEF Arrays
<1>8. ArraysOK
    <2>1. ASSUME NEW x \in Arrays, NEW y \in Arrays, x.disks \cap y.disks # {}
          PROVE  x = y
        <3>1. PICK k \in DOMAIN volumes :
                x = [disks |-> volumes[k].disks, level |-> volumes[k].level, span |-> volumes[k].span]
            BY <1>7
        <3>2. PICK l \in DOMAIN volumes :
                y = [disks |-> volumes[l].disks, level |-> volumes[l].level, span |-> volumes[l].span]
            BY <1>7
        <3> QED BY <1>2, <2>1, <3>1, <3>2
    <2>2. ASSUME NEW x \in Arrays
          PROVE  /\ x.disks \subseteq Disks /\ x.disks # {}
                 /\ x.level \in DOMAIN RAID_SETTINGS /\ x.span \in Spans(x.level)
                 /\ \A d, e \in x.disks : drives[d].media = drives[e].media
        <3>1. PICK k \in DOMAIN volumes :
                x = [disks |-> volumes[k].disks, level |-> volumes[k].level, span |-> volumes[k].span]
            BY <1>7
        <3>2. x.disks = volumes[k].disks /\ x.level = volumes[k].level /\ x.span = volumes[k].span
            BY <3>1
        <3> QED BY <1>2, <1>3, <3>2
    <2> QED BY <2>1, <2>2 DEF ArraysOK
<1>9. PlansOK
    BY DEF PlansOK, PlannedRight, Init
<1>10. MadeOK
    BY <1>0, NothingMadeYet DEF Init, PlanInv, ServerOK
<1> QED BY <1>6, <1>8, <1>9, <1>10 DEF ResultInv

\* A volume that joins gets an array of its level, with the disks it names.
LEMMA JoinKeepsResultInv ==
    ASSUME PlanInv, ResultInv, JoinGroup
    PROVE  ResultInv'
<1>1. PICK t \in Now("plan") : /\ pending[t[2]].share
        /\ \E g \in Joined(pending[t[2]]), d \in Disks : \E size :
            /\ groups' = (groups \ {g}) \cup {[g EXCEPT !.used = g.used + size]}
            /\ d \in g.disks
            /\ Planned(t, [kind |-> "join", disks |-> {d}, span |-> 0, group |-> g.disks])
    BY DEF JoinGroup
<1>2. PICK i : i = t[2]
    OBVIOUS
<1>3. PICK v : v = pending[i]
    OBVIOUS
<1>4. PICK g \in Joined(v), d \in Disks : \E size :
            /\ groups' = (groups \ {g}) \cup {[g EXCEPT !.used = g.used + size]}
            /\ d \in g.disks
            /\ Planned(t, [kind |-> "join", disks |-> {d}, span |-> 0, group |-> g.disks])
    BY <1>1, <1>2, <1>3
<1>5. PICK more : /\ groups' = (groups \ {g}) \cup {more}
                  /\ DOMAIN more = DOMAIN g
                  /\ more.disks = g.disks /\ more.level = g.level /\ more.span = g.span
    <2>1. g \in groups
        BY JoinedAreGroups
    <2>2. DOMAIN g = {"disks", "level", "span", "used"}
        BY <2>1 DEF ResultInv, DataOK
    <2>3. PICK size : groups' = (groups \ {g}) \cup {[g EXCEPT !.used = g.used + size]}
        BY <1>4
    <2>4. PICK more : more = [g EXCEPT !.used = g.used + size]
        OBVIOUS
    <2>5. /\ DOMAIN more = DOMAIN g
          /\ more.disks = g.disks /\ more.level = g.level /\ more.span = g.span
        BY <2>2, <2>4
    <2> QED BY <2>3, <2>4, <2>5
<1>6. PICK p : p = [kind |-> "join", disks |-> {d}, span |-> 0, group |-> g.disks]
    OBVIOUS
<1>7. d \in g.disks /\ Planned(t, p)
    BY <1>4, <1>6
<1>8. /\ i \in DOMAIN plan /\ plan[i].kind = "none"
      /\ DOMAIN plan' = DOMAIN plan /\ plan'[i] = p
      /\ \A j \in DOMAIN plan : j # i => plan'[j] = plan[j]
    BY <1>2, <1>6, <1>7, PlannedKeeps
<1>9. /\ drives' = drives /\ volumes' = volumes /\ pending' = pending /\ stage' = stage
      /\ stage = "plan" /\ i \in DOMAIN pending
    BY <1>7, <1>8 DEF Planned, Now, PlanInv, TurnsOK
<1>10. g \in groups
    BY JoinedAreGroups
<1>11. DataOK'
    BY <1>5, <1>9, <1>10 DEF ResultInv, DataOK
<1>12. Arrays' = Arrays
    <2>1. \A j : j \in DOMAIN plan /\ plan[j].kind = "own"
                    <=> j \in DOMAIN plan' /\ plan'[j].kind = "own"
        BY <1>6, <1>8
    <2>2. \A j \in DOMAIN plan : plan[j].kind = "own" => plan'[j] = plan[j]
        BY <1>8
    <2>3. {[disks |-> plan'[j].disks, level |-> pending'[j].level, span |-> plan'[j].span]
                : j \in {n \in DOMAIN plan' : plan'[n].kind = "own"}}
           = {[disks |-> plan[j].disks, level |-> pending[j].level, span |-> plan[j].span]
                : j \in {n \in DOMAIN plan : plan[n].kind = "own"}}
        BY <1>9, <2>1, <2>2
    <2>4. {[disks |-> h.disks, level |-> h.level, span |-> h.span] : h \in groups'}
           = {[disks |-> h.disks, level |-> h.level, span |-> h.span] : h \in groups}
        BY <1>5, <1>10
    <2>5. {[disks |-> volumes'[k].disks, level |-> volumes'[k].level, span |-> volumes'[k].span] : k \in DOMAIN volumes'}
           = {[disks |-> volumes[k].disks, level |-> volumes[k].level, span |-> volumes[k].span] : k \in DOMAIN volumes}
        BY <1>9
    <2> QED BY <2>3, <2>4, <2>5, Zenon DEF Arrays
<1>13. ArraysOK'
    BY <1>9, <1>12 DEF ResultInv, ArraysOK
<1>14. PlansOK'
    <2>1. PICK x \in Arrays : x.disks = g.disks /\ x.level = g.level
        <3>1. [disks |-> g.disks, level |-> g.level, span |-> g.span] \in Arrays
            BY <1>10 DEF Arrays
        <3> QED BY <3>1
    <2>2. /\ g.level = v.level /\ v.disks \subseteq g.disks
          /\ Specified(v) => \A e \in v.disks : Matches(v, e)
        <3>1. CASE Specified(v)
            BY <3>1 DEF Joined, Suitable, Owners
        <3>2. CASE ~ Specified(v)
            BY <3>2 DEF Joined, Suitable, get_best_matched_disk_group, Specified
        <3> QED BY <3>1, <3>2
    <2>3. Specified(v) => \A e \in x.disks : Matches(v, e)
        <3> SUFFICES ASSUME Specified(v), NEW e \in x.disks PROVE Matches(v, e)
            OBVIOUS
        <3>1. PICK f \in v.disks : Matches(v, f)
            BY <2>2 DEF Specified
        <3>2. drives[e].media = drives[f].media
            BY <2>1, <2>2, <3>1 DEF ResultInv, ArraysOK
        <3> QED BY <3>1, <3>2 DEF Matches
    <2>4. PlannedRight(i)'
        <3>1. /\ plan'[i].kind = "join" /\ plan'[i].disks = {d} /\ pending'[i] = v /\ v.share
              /\ x \in Arrays' /\ {d} \subseteq x.disks
            BY <1>1, <1>2, <1>3, <1>6, <1>7, <1>8, <1>9, <1>12, <2>1
        <3>2. (\A e \in x.disks : Matches(v, e)) => (\A e \in x.disks : Matches(v, e)')
            BY <1>9 DEF Matches
        <3> QED BY <2>1, <2>2, <2>3, <3>1, <3>2 DEF PlannedRight, AsAsked, Matches, Specified
    <2>5. \A j \in DOMAIN plan : j # i => PlannedRight(j)'
        BY <1>8, <1>9, <1>12, RightPlansStay DEF ResultInv, PlansOK
    <2> QED BY <1>8, <2>4, <2>5 DEF PlansOK
<1>15. MadeOK'
    BY <1>9 DEF PlanInv, ServerOK, MadeOK
<1> QED BY <1>11, <1>13, <1>14, <1>15 DEF ResultInv

\* Disks of its own: they were in no array, and now they are one.
LEMMA OwnKeepsResultInv ==
    ASSUME PlanInv, ResultInv, NEW t \in Now("plan"), NEW s \in Solutions(pending[t[2]]),
           OwnDisks(t, s),
           groups' = groups \/ groups' = groups \cup {NewGroup(pending[t[2]], s, pending[t[2]].size)}
    PROVE  ResultInv'
<1>1. PICK i : i = t[2]
    OBVIOUS
<1>2. PICK v : v = pending[i]
    OBVIOUS
<1>3. PICK p : p = [kind |-> "own", disks |-> s.disks, span |-> s.span, group |-> s.disks]
    OBVIOUS
<1>4. Planned(t, p)
    BY <1>3 DEF OwnDisks
<1>5. /\ i \in DOMAIN plan /\ plan[i].kind = "none"
      /\ DOMAIN plan' = DOMAIN plan /\ plan'[i] = p
      /\ \A j \in DOMAIN plan : j # i => plan'[j] = plan[j]
    BY <1>1, <1>3, <1>4, PlannedKeeps
<1>6. /\ drives' = drives /\ volumes' = volumes /\ pending' = pending /\ stage' = stage
      /\ stage = "plan" /\ i \in DOMAIN pending
    BY <1>4, <1>5 DEF Planned, Now, PlanInv, TurnsOK
<1>7. /\ s.disks \subseteq Disks /\ s.disks # {} /\ s.span \in Spans(v.level) /\ v.disks \subseteq s.disks
      /\ AsAsked(v, s.disks)
      /\ \A d, e \in s.disks : drives[d].media = drives[e].media
    BY <1>1, <1>2, <1>6, SolutionsAreRight DEF ResultInv
<1>8. \A x \in Arrays : x.disks \cap s.disks = {}
    <2>1. s.disks \cap exclusive = {} /\ \A d \in s.disks : drives[d].good
        BY SolutionsAreFree
    <2> QED BY <1>6, <2>1, FreeDisksAreInNoArray
<1>9. PICK a : a = [disks |-> s.disks, level |-> v.level, span |-> s.span]
    OBVIOUS
<1>10. \A g \in groups' : g \in groups \/ /\ g.disks = s.disks /\ g.level = v.level /\ g.span = s.span
                                          /\ DOMAIN g = {"disks", "level", "span", "used"}
    BY <1>1, <1>2 DEF NewGroup
<1>11. Arrays' = Arrays \cup {a}
    <2>1. {[disks |-> plan'[j].disks, level |-> pending'[j].level, span |-> plan'[j].span]
                : j \in {n \in DOMAIN plan' : plan'[n].kind = "own"}}
           = {[disks |-> plan[j].disks, level |-> pending[j].level, span |-> plan[j].span]
                : j \in {n \in DOMAIN plan : plan[n].kind = "own"}} \cup {a}
        <3>1. /\ plan'[i].kind = "own" /\ plan'[i].disks = s.disks /\ plan'[i].span = s.span
              /\ pending'[i].level = v.level
            BY <1>2, <1>3, <1>5, <1>6
        <3>2. {n \in DOMAIN plan' : plan'[n].kind = "own"}
               = {n \in DOMAIN plan : plan[n].kind = "own"} \cup {i}
            BY <1>5, <3>1
        <3>3. \A j \in {n \in DOMAIN plan : plan[n].kind = "own"} :
                /\ plan'[j].disks = plan[j].disks /\ plan'[j].span = plan[j].span
                /\ pending'[j].level = pending[j].level
            BY <1>5, <1>6
        <3> QED BY <1>9, <3>1, <3>2, <3>3
    <2>2. /\ {[disks |-> g.disks, level |-> g.level, span |-> g.span] : g \in groups'}
                \subseteq {[disks |-> g.disks, level |-> g.level, span |-> g.span] : g \in groups} \cup {a}
          /\ {[disks |-> g.disks, level |-> g.level, span |-> g.span] : g \in groups}
                \subseteq {[disks |-> g.disks, level |-> g.level, span |-> g.span] : g \in groups'}
        BY <1>9, <1>10
    <2>3. {[disks |-> volumes'[k].disks, level |-> volumes'[k].level, span |-> volumes'[k].span] : k \in DOMAIN volumes'}
           = {[disks |-> volumes[k].disks, level |-> volumes[k].level, span |-> volumes[k].span] : k \in DOMAIN volumes}
        BY <1>6
    <2> DEFINE V == {[disks |-> volumes[k].disks, level |-> volumes[k].level, span |-> volumes[k].span] : k \in DOMAIN volumes}
               P == {[disks |-> plan[j].disks, level |-> pending[j].level, span |-> plan[j].span]
                        : j \in {n \in DOMAIN plan : plan[n].kind = "own"}}
               G == {[disks |-> g.disks, level |-> g.level, span |-> g.span] : g \in groups}
    <2>4. Arrays = V \cup P \cup G
        BY DEF Arrays
    <2>5. Arrays' = V' \cup P' \cup G'
        BY DEF Arrays
    <2>6. V' = V /\ P' = P \cup {a} /\ G' \subseteq G \cup {a} /\ G \subseteq G'
        BY <2>1, <2>2, <2>3
    <2> HIDE DEF V, P, G
    <2> QED BY <2>4, <2>5, <2>6
<1>12. DataOK'
    BY <1>6, <1>10 DEF ResultInv, DataOK
<1>13. ArraysOK'
    <2>1. \A x \in Arrays : x.disks \cap a.disks = {}
        BY <1>8, <1>9
    <2>2. /\ a.disks \subseteq Disks /\ a.disks # {}
          /\ a.level \in DOMAIN RAID_SETTINGS /\ a.span \in Spans(a.level)
          /\ \A d, e \in a.disks : drives'[d].media = drives'[e].media
        BY <1>2, <1>6, <1>7, <1>9 DEF ResultInv, DataOK
    <2> QED BY <1>6, <1>11, <2>1, <2>2 DEF ResultInv, ArraysOK
<1>14. PlansOK'
    <2>1. PlannedRight(i)'
        <3>1. plan'[i].kind = "own" /\ plan'[i].disks = s.disks /\ pending'[i] = v
            BY <1>2, <1>3, <1>5, <1>6
        <3> QED BY <1>6, <1>7, <3>1 DEF PlannedRight, AsAsked, Matches, Specified
    <2>2. \A j \in DOMAIN plan : j # i => PlannedRight(j)'
        BY <1>5, <1>6, <1>11, RightPlansStay DEF ResultInv, PlansOK
    <2> QED BY <1>5, <2>1, <2>2 DEF PlansOK
<1>15. MadeOK'
    BY <1>6 DEF PlanInv, ServerOK, MadeOK
<1> QED BY <1>12, <1>13, <1>14, <1>15 DEF ResultInv

\* Every step that plans keeps the invariant.
LEMMA PlanningKeepsResultInv ==
    ASSUME PlanInv, ResultInv, JoinGroup \/ TakeDisks \/ FoundGroup \/ PlanFails \/ PlanDone
    PROVE  ResultInv'
<1>1. CASE JoinGroup
    BY <1>1, JoinKeepsResultInv
<1>2. CASE TakeDisks
    <2>1. PICK t \in Now("plan") :
            \E s \in Solutions(pending[t[2]]) : OwnDisks(t, s) /\ UNCHANGED groups
        BY <1>2 DEF TakeDisks
    <2> QED BY <2>1, OwnKeepsResultInv
<1>3. CASE FoundGroup
    <2>1. PICK t \in Now("plan") : \E s \in Solutions(pending[t[2]]) :
            /\ OwnDisks(t, s)
            /\ groups' = groups \cup {NewGroup(pending[t[2]], s, pending[t[2]].size)}
        BY <1>3 DEF FoundGroup
    <2> QED BY <2>1, OwnKeepsResultInv
<1>4. ASSUME UNCHANGED <<drives, volumes, pending, plan, groups>> PROVE DataOK' /\ ArraysOK' /\ PlansOK'
    <2>1. Arrays' = Arrays
        BY <1>4 DEF Arrays
    <2>2. PlansOK'
        BY <1>4, <2>1, RightPlansStay DEF ResultInv, PlansOK
    <2> QED BY <1>4, <2>1, <2>2 DEF ResultInv, DataOK, ArraysOK
<1>5. CASE PlanFails
    <2>1. stage = "plan" /\ stage' = "failed"
          /\ UNCHANGED <<drives, volumes, pending, plan, exclusive, groups, todo>>
        BY <1>5 DEF PlanFails, Now
    <2>2. MadeOK'
        BY <2>1 DEF PlanInv, ServerOK, MadeOK
    <2> QED BY <1>4, <2>1, <2>2 DEF ResultInv
<1>6. CASE PlanDone
    <2>1. /\ stage = "plan" /\ stage' = "create" /\ todo' = ordered_pending_volumes
          /\ UNCHANGED <<drives, volumes, pending, plan, exclusive, groups>>
        BY <1>6 DEF PlanDone
    <2>2. /\ \A t, u \in todo' : t[2] = u[2] => t = u
          /\ \A i \in DOMAIN pending' : \E t \in todo' : t[2] = i
        BY <2>1, EachVolumeOnce DEF ResultInv, DataOK
    <2>3. \A k \in DOMAIN volumes' : volumes'[k].for = 0
        BY <2>1 DEF PlanInv, ServerOK
    <2>4. \A t \in todo' : t[2] \in DOMAIN pending
        BY <2>1 DEF ordered_pending_volumes
    <2>5. \A t \in todo' : t[2] # 0
        BY <2>4 DEF PlanInv, TurnsOK
    <2>6. MadeOK'
        BY <2>1, <2>2, <2>3, <2>5 DEF MadeOK
    <2> QED BY <1>4, <2>1, <2>6 DEF ResultInv
<1> QED BY <1>1, <1>2, <1>3, <1>5, <1>6

----------------------------------------------------------------------------
(* The steps that create.                                                   *)

\* The array the server puts volume i on is the one of its plan, also when it
\* is told no more than one drive of it.
LEMMA NewVolumesAreRight ==
    ASSUME PlanInv, ResultInv, NEW i \in DOMAIN plan, Acceptable(i), NEW new, new = VolumeFor(i)
    PROVE  /\ new.for = i
           /\ [disks |-> new.disks, level |-> new.level, span |-> new.span] \in Arrays
           /\ new.level = pending[i].level
           /\ pending[i].disks \subseteq new.disks
           /\ ~ AutoScale(pending[i]) => new.size = pending[i].size
           /\ Specified(pending[i]) \/ plan[i].kind = "own" => AsAsked(pending[i], new.disks)
<1>0. PlannedRight(i)
    BY DEF ResultInv, PlansOK
<1>1. new.for = i /\ (~ AutoScale(pending[i]) => new.size = pending[i].size)
    BY DEF VolumeFor
<1>2. CASE plan[i].kind = "own"
    <2>1. /\ new.disks = plan[i].disks /\ new.level = pending[i].level
          /\ new.span = plan[i].span
        BY <1>2 DEF VolumeFor
    <2>2. [disks |-> plan[i].disks, level |-> pending[i].level, span |-> plan[i].span] \in Arrays
        BY <1>2 DEF Arrays
    <2>3. pending[i].disks \subseteq plan[i].disks /\ AsAsked(pending[i], plan[i].disks)
        BY <1>0, <1>2 DEF PlannedRight, Unplanned
    <2> QED BY <1>1, <2>1, <2>2, <2>3
<1>3. CASE plan[i].kind # "own"
    <2>1. Home(i) # {} /\ plan[i].kind = "join"
        BY <1>3 DEF Acceptable
    <2>2. PICK k \in Home(i) : k = CHOOSE n \in Home(i) : TRUE
        BY <2>1
    <2>3. /\ new.disks = volumes[k].disks /\ new.level = volumes[k].level
          /\ new.span = volumes[k].span
        BY <1>3, <2>2 DEF VolumeFor
    <2>4. k \in DOMAIN volumes /\ plan[i].disks \subseteq volumes[k].disks
        BY <2>2 DEF Home
    <2>5. PICK a : a = [disks |-> volumes[k].disks, level |-> volumes[k].level, span |-> volumes[k].span]
        OBVIOUS
    <2>6. a \in Arrays
        BY <2>4, <2>5 DEF Arrays
    <2>7. PICK x \in Arrays :
            /\ x.level = pending[i].level /\ pending[i].disks \subseteq x.disks
            /\ plan[i].disks \subseteq x.disks /\ plan[i].disks # {} /\ pending[i].share
            /\ Specified(pending[i]) => AsAsked(pending[i], x.disks)
        BY <1>0, <2>1 DEF PlannedRight, Unplanned
    <2>8. x.disks \cap a.disks # {}
        BY <2>4, <2>5, <2>7
    <2>9. x = a
        BY <2>6, <2>8 DEF ResultInv, ArraysOK
    <2>10. /\ x.disks = new.disks /\ x.level = new.level
           /\ [disks |-> new.disks, level |-> new.level, span |-> new.span] = x
        BY <2>3, <2>5, <2>9
    <2> QED BY <1>1, <2>1, <2>7, <2>10
<1> QED BY <1>2, <1>3

\* A turn of the creating loop makes the volume whose turn it is.
LEMMA CreatingKeepsResultInv ==
    ASSUME PlanInv, ResultInv, Create \/ CreateRefused \/ CreateDone
    PROVE  ResultInv'
<1>1. ASSUME UNCHANGED <<drives, volumes, pending, plan, groups>> PROVE DataOK' /\ ArraysOK' /\ PlansOK'
    <2>1. Arrays' = Arrays
        BY <1>1 DEF Arrays
    <2>2. PlansOK'
        BY <1>1, <2>1, RightPlansStay DEF ResultInv, PlansOK
    <2> QED BY <1>1, <2>1, <2>2 DEF ResultInv, DataOK, ArraysOK
<1>2. CASE Create
    <2>1. PICK t \in Now("create") :
            /\ Acceptable(t[2])
            /\ volumes' = Append(volumes, VolumeFor(t[2]))
            /\ drives' = [d \in Disks |-> [drives[d] EXCEPT !.good =
                            @ /\ ~ (plan[t[2]].kind = "own" /\ d \in plan[t[2]].disks)]]
            /\ todo' = todo \ {t}
            /\ UNCHANGED <<pending, plan, exclusive, groups, stage>>
        BY <1>2 DEF Create
    <2>2. PICK i : i = t[2]
        OBVIOUS
    <2>3. PICK new : new = VolumeFor(i)
        OBVIOUS
    <2>4. stage = "create" /\ t \in todo /\ i \in DOMAIN plan /\ i \in DOMAIN pending /\ i # 0
        BY <2>2 DEF Now, PlanInv, TurnsOK
    <2>5. /\ new.for = i
          /\ [disks |-> new.disks, level |-> new.level, span |-> new.span] \in Arrays
          /\ new.level = pending[i].level
          /\ pending[i].disks \subseteq new.disks
          /\ ~ AutoScale(pending[i]) => new.size = pending[i].size
          /\ Specified(pending[i]) \/ plan[i].kind = "own" => AsAsked(pending[i], new.disks)
        BY <2>1, <2>2, <2>3, <2>4, NewVolumesAreRight
    <2>6. PICK n \in Nat : n = Len(volumes) + 1
        BY LenProperties DEF PlanInv, ServerOK
    <2>7. /\ DOMAIN volumes' = DOMAIN volumes \cup {n} /\ n \notin DOMAIN volumes
          /\ \A k \in DOMAIN volumes : volumes'[k] = volumes[k]
          /\ volumes'[n] = new
        <3> DEFINE R == Range(volumes) \cup {new}
        <3>1. volumes \in Seq(R) /\ new \in R
            <4>1. Range(volumes) \subseteq R
                OBVIOUS
            <4> HIDE DEF R
            <4>2. volumes \in Seq(R)
                BY <4>1, SeqMonotonic DEF PlanInv, ServerOK
            <4> QED BY <4>2 DEF R
        <3> HIDE DEF R
        <3>2. /\ Len(volumes') = Len(volumes) + 1 /\ Len(volumes) \in Nat
              /\ DOMAIN volumes = 1..Len(volumes) /\ DOMAIN volumes' = 1..(Len(volumes) + 1)
              /\ \A k \in DOMAIN volumes : volumes'[k] = volumes[k]
              /\ volumes'[Len(volumes) + 1] = new
            BY <2>1, <2>2, <2>3, <3>1, AppendProperties, LenProperties
        <3> QED BY <2>6, <3>2
    <2>8. DataOK'
        <3>1. \A d \in Disks : drives[d] \in [capacity : Nat \ {0}, media : {"ssd", "hdd"}, good : BOOLEAN]
            BY DEF ResultInv, DataOK
        <3>2. drives' \in [Disks -> [capacity : Nat \ {0}, media : {"ssd", "hdd"}, good : BOOLEAN]]
            BY <2>1, <3>1
        <3> QED BY <2>1, <3>2 DEF ResultInv, DataOK
    <2>9. \A d \in Disks : drives'[d].media = drives[d].media
        <3>1. \A d \in Disks : drives[d] \in [capacity : Nat \ {0}, media : {"ssd", "hdd"}, good : BOOLEAN]
            BY DEF ResultInv, DataOK
        <3> QED BY <2>1, <3>1
    <2>10. Arrays' = Arrays
        <3> DEFINE V == {[disks |-> volumes[k].disks, level |-> volumes[k].level, span |-> volumes[k].span] : k \in DOMAIN volumes}
                   P == {[disks |-> plan[j].disks, level |-> pending[j].level, span |-> plan[j].span]
                            : j \in {m \in DOMAIN plan : plan[m].kind = "own"}}
                   G == {[disks |-> g.disks, level |-> g.level, span |-> g.span] : g \in groups}
        <3>1. Arrays = V \cup P \cup G
            BY DEF Arrays
        <3>2. Arrays' = V' \cup P' \cup G'
            BY DEF Arrays
        <3>3. P' = P /\ G' = G
            BY <2>1
        <3>4. V' = V \cup {[disks |-> new.disks, level |-> new.level, span |-> new.span]}
            BY <2>7
        <3> HIDE DEF V, P, G
        <3> QED BY <2>5, <3>1, <3>2, <3>3, <3>4
    <2>11. ArraysOK'
        <3>1. \A x \in Arrays : /\ x.disks \subseteq Disks /\ x.disks # {}
                               /\ x.level \in DOMAIN RAID_SETTINGS /\ x.span \in Spans(x.level)
            BY DEF ResultInv, ArraysOK
        <3>2. \A x \in Arrays : \A d, e \in x.disks : drives'[d].media = drives'[e].media
            BY <2>9, <3>1 DEF ResultInv, ArraysOK
        <3> QED BY <2>10, <3>1, <3>2 DEF ResultInv, ArraysOK
    <2>12. ASSUME NEW v, NEW S, S \subseteq Disks, AsAsked(v, S)
           PROVE  /\ \A d \in S : v.media \in {"any", drives'[d].media}
                  /\ v.disks = {} /\ v.count # AutoCount => Cardinality(S) = v.count
        BY <2>9, <2>12 DEF AsAsked, Matches, Specified
    <2>13. PlansOK'
        <3> SUFFICES ASSUME NEW j \in DOMAIN plan PROVE PlannedRight(j)'
            BY <2>1 DEF PlansOK
        <3>1. PlannedRight(j)
            BY DEF ResultInv, PlansOK
        <3>2. CASE plan[j] = Unplanned
            BY <2>1, <3>2 DEF PlannedRight
        <3>3. CASE /\ plan[j].kind = "own" /\ pending[j].disks \subseteq plan[j].disks
                   /\ AsAsked(pending[j], plan[j].disks)
            <4>1. [disks |-> plan[j].disks, level |-> pending[j].level, span |-> plan[j].span] \in Arrays
                BY <3>3 DEF Arrays
            <4>2. plan[j].disks \subseteq Disks
                BY <4>1 DEF ResultInv, ArraysOK
            <4>3. /\ \A d \in plan[j].disks : pending[j].media \in {"any", drives'[d].media}
                  /\ pending[j].disks = {} /\ pending[j].count # AutoCount =>
                        Cardinality(plan[j].disks) = pending[j].count
                BY <2>12, <3>3, <4>2
            <4> QED BY <2>1, <3>3, <4>3 DEF PlannedRight, AsAsked, Matches, Specified
        <3>4. CASE /\ plan[j].kind = "join" /\ pending[j].share /\ plan[j].disks # {}
                   /\ \E x \in Arrays :
                        /\ x.level = pending[j].level /\ pending[j].disks \subseteq x.disks
                        /\ plan[j].disks \subseteq x.disks
                        /\ Specified(pending[j]) => AsAsked(pending[j], x.disks)
            <4>1. PICK x \in Arrays :
                        /\ x.level = pending[j].level /\ pending[j].disks \subseteq x.disks
                        /\ plan[j].disks \subseteq x.disks
                        /\ Specified(pending[j]) => AsAsked(pending[j], x.disks)
                BY <3>4
            <4>2. x \in Arrays' /\ x.disks \subseteq Disks
                BY <2>10 DEF ResultInv, ArraysOK
            <4>3. Specified(pending[j]) =>
                    /\ \A d \in x.disks : pending[j].media \in {"any", drives'[d].media}
                    /\ pending[j].disks = {} /\ pending[j].count # AutoCount =>
                            Cardinality(x.disks) = pending[j].count
                BY <2>12, <4>1, <4>2
            <4> QED BY <2>1, <3>4, <4>1, <4>2, <4>3 DEF PlannedRight, AsAsked, Matches, Specified
        <3> QED BY <3>1, <3>2, <3>3, <3>4 DEF PlannedRight
    <2>14. MadeRight(n, i)'
        <3>1. new.disks \subseteq Disks
            BY <2>5 DEF ResultInv, ArraysOK
        <3>2. AsAsked(pending[i], new.disks) =>
                /\ \A d \in new.disks : pending[i].media \in {"any", drives'[d].media}
                /\ pending[i].disks = {} /\ pending[i].count # AutoCount =>
                        Cardinality(new.disks) = pending[i].count
            BY <2>12, <3>1
        <3>3. volumes'[n] = new /\ pending' = pending
            BY <2>1, <2>7
        <3> QED BY <2>1, <2>5, <3>2, <3>3 DEF MadeRight, AsAsked, Matches, Specified, AutoScale
    <2>15. \A k \in DOMAIN volumes : \A j : volumes[k].for = j /\ j # 0 =>
                j \in DOMAIN pending /\ MadeRight(k, j)'
        <3> SUFFICES ASSUME NEW k \in DOMAIN volumes, NEW j, j = volumes[k].for, j # 0
                     PROVE  j \in DOMAIN pending /\ MadeRight(k, j)'
            OBVIOUS
        <3>1. j \in DOMAIN pending /\ MadeRight(k, j)
            BY DEF ResultInv, MadeOK
        <3>2. [disks |-> volumes[k].disks, level |-> volumes[k].level, span |-> volumes[k].span] \in Arrays
            BY DEF Arrays
        <3>3. volumes[k].disks \subseteq Disks
            BY <3>2 DEF ResultInv, ArraysOK
        <3>4. AsAsked(pending[j], volumes[k].disks) =>
                /\ \A d \in volumes[k].disks : pending[j].media \in {"any", drives'[d].media}
                /\ pending[j].disks = {} /\ pending[j].count # AutoCount =>
                        Cardinality(volumes[k].disks) = pending[j].count
            BY <2>12, <3>3
        <3>5. volumes'[k] = volumes[k] /\ pending' = pending
            BY <2>1, <2>7
        <3> QED BY <2>1, <3>1, <3>4, <3>5 DEF MadeRight, AsAsked, Matches, Specified, AutoScale
    <2>16. MadeOK'
        <3>1. \A k \in DOMAIN volumes' : \A j : volumes'[k].for = j /\ j # 0 =>
                j \in DOMAIN pending' /\ MadeRight(k, j)'
            <4> SUFFICES ASSUME NEW k \in DOMAIN volumes', NEW j, volumes'[k].for = j, j # 0
                         PROVE  j \in DOMAIN pending' /\ MadeRight(k, j)'
                OBVIOUS
            <4>1. CASE k = n
                <5>1. j = i
                    BY <2>5, <2>7, <4>1
                <5> QED BY <2>1, <2>4, <2>14, <4>1, <5>1
            <4>2. CASE k # n
                <5>1. k \in DOMAIN volumes /\ volumes[k].for = j
                    BY <2>7, <4>2
                <5> QED BY <2>1, <2>15, <5>1
            <4> QED BY <4>1, <4>2
        <3>2. \A k \in DOMAIN volumes : volumes[k].for # i
            BY <2>2, <2>4 DEF ResultInv, MadeOK
        <3>3. \A k, l \in DOMAIN volumes' :
                volumes'[k].for = volumes'[l].for /\ volumes'[k].for # 0 => k = l
            BY <2>5, <2>7, <3>2 DEF ResultInv, MadeOK
        <3>4. \A u \in todo' : u \in todo /\ u[2] # i
            BY <2>1, <2>2, <2>4 DEF ResultInv, MadeOK
        <3>5. \A u \in todo', k \in DOMAIN volumes' : volumes'[k].for # u[2]
            BY <2>4, <2>5, <2>7, <3>4 DEF ResultInv, MadeOK
        <3>6. \A u, w \in todo' : u[2] = w[2] => u = w
            BY <2>4, <3>4 DEF ResultInv, MadeOK
        <3>7. \A j \in DOMAIN pending' :
                (\E k \in DOMAIN volumes' : volumes'[k].for = j) \/ \E u \in todo' : u[2] = j
            <4> SUFFICES ASSUME NEW j \in DOMAIN pending
                         PROVE  (\E k \in DOMAIN volumes' : volumes'[k].for = j) \/ \E u \in todo' : u[2] = j
                BY <2>1
            <4>1. CASE j = i
                BY <2>5, <2>7, <4>1
            <4>2. CASE j # i
                <5>1. (\E k \in DOMAIN volumes : volumes[k].for = j) \/ \E u \in todo : u[2] = j
                    BY <2>4 DEF ResultInv, MadeOK
                <5> QED BY <2>1, <2>2, <2>7, <4>2, <5>1
            <4> QED BY <4>1, <4>2
        <3>8. stage' = "create"
            BY <2>1, <2>4
        <3> HIDE DEF MadeRight
        <3> QED BY <3>1, <3>3, <3>5, <3>6, <3>7, <3>8 DEF MadeOK
    <2> QED BY <2>8, <2>11, <2>13, <2>16 DEF ResultInv
<1>3. CASE CreateRefused
    <2>1. /\ stage = "create" /\ stage' = "refused"
          /\ UNCHANGED <<drives, volumes, pending, plan, exclusive, groups, todo>>
        BY <1>3 DEF CreateRefused, Now
    <2>2. \A k, j : MadeRight(k, j)' <=> MadeRight(k, j)
        BY <2>1 DEF MadeRight, AsAsked, Matches, Specified
    <2>3. MadeOK'
        BY <2>1, <2>2 DEF ResultInv, MadeOK
    <2> QED BY <1>1, <2>1, <2>3 DEF ResultInv
<1>4. CASE CreateDone
    <2>1. /\ stage = "create" /\ stage' = "done" /\ todo = {}
          /\ UNCHANGED <<drives, volumes, pending, plan, exclusive, groups, todo>>
        BY <1>4 DEF CreateDone
    <2>2. \A k, j : MadeRight(k, j)' <=> MadeRight(k, j)
        BY <2>1 DEF MadeRight, AsAsked, Matches, Specified
    <2>3. MadeOK'
        BY <2>1, <2>2 DEF ResultInv, MadeOK
    <2> QED BY <1>1, <2>1, <2>3 DEF ResultInv
<1> QED BY <1>2, <1>3, <1>4

----------------------------------------------------------------------------
(* The theorems.                                                            *)

\* ResultInv is an invariant of the planning and of the creations.
THEOREM PlansAreRight == Spec => []ResultInv
<1>1. PlanInv /\ ResultInv /\ [Next]_vars => ResultInv'
    <2> SUFFICES ASSUME PlanInv, ResultInv, [Next]_vars PROVE ResultInv'
        OBVIOUS
    <2>1. CASE UNCHANGED vars
        <3>1. UNCHANGED <<drives, volumes, pending, plan, groups, stage, todo>>
            BY <2>1 DEF vars
        <3>2. Arrays' = Arrays
            BY <3>1 DEF Arrays
        <3>3. PlansOK'
            BY <3>1, <3>2, RightPlansStay DEF ResultInv, PlansOK
        <3>4. \A k, j : MadeRight(k, j)' <=> MadeRight(k, j)
            BY <3>1 DEF MadeRight, AsAsked, Matches, Specified
        <3>5. MadeOK'
            BY <3>1, <3>4 DEF ResultInv, MadeOK
        <3> QED BY <3>1, <3>2, <3>3, <3>5 DEF ResultInv, DataOK, ArraysOK
    <2> QED BY <2>1, PlanningKeepsResultInv, CreatingKeepsResultInv DEF Next
<1> QED BY <1>1, InitResultInv, PlanIsOrderly, PTL DEF Spec

\* When apply_raid_configuration ends well every pending volume exists once,
\* of the size and level asked for, on an array with the disks named, and on
\* disks of the kind and number asked for unless it joins an array that it
\* did not name.
THEOREM DoneIsAllThatWasAsked == Spec => []DoneMeansAll
<1>1. PlanInv /\ ResultInv => DoneMeansAll
    <2> SUFFICES ASSUME PlanInv, ResultInv, stage = "done", NEW i \in DOMAIN pending
                 PROVE  /\ Cardinality({k \in DOMAIN volumes : volumes[k].for = i}) = 1
                        /\ \A k \in DOMAIN volumes : volumes[k].for = i => MadeRight(k, i)
        BY DEF DoneMeansAll, MadeRight
    <2>1. i # 0
        BY DEF PlanInv, TurnsOK
    <2>2. PICK k \in DOMAIN volumes : volumes[k].for = i
        BY DEF ResultInv, MadeOK
    <2>3. {l \in DOMAIN volumes : volumes[l].for = i} = {k}
        BY <2>1, <2>2 DEF ResultInv, MadeOK
    <2>4. Cardinality({l \in DOMAIN volumes : volumes[l].for = i}) = 1
        BY <2>3, FS_Singleton
    <2> QED BY <2>1, <2>4 DEF ResultInv, MadeOK
<1> QED BY <1>1, PlansAreRight, PlanIsOrderly, PTL

=============================================================================
