-------------------------- MODULE DiskPlanFitProofs --------------------------
(***************************************************************************)
(* Proofs about DiskPlan for any disks, any hardware and any requests: its  *)
(* type correctness, and that the server refuses no volume of a complete    *)
(* plan, but on the group that a sharing MAX volume starts.                 *)
(*                                                                          *)
(* A group keeps one number, used_capacity, and the server one volume after *)
(* the other.  They agree because the creations come in the order of the    *)
(* planning: so the invariant has, for each volume, what those before it    *)
(* take of its array, on paper while the program plans and on the server    *)
(* while it creates.                                                        *)
(***************************************************************************)
EXTENDS DiskPlanProofs, RaidUtilsProofs

\* TypeOK and what it rests on: turns are those of ordered_pending_volumes,
\* volumes have a size, and there are finitely many pending ones.
TypeInv ==
    /\ exclusive \subseteq Disks
    /\ plan \in [DOMAIN pending -> [kind : {"none", "own", "join"}, disks : SUBSET Disks,
                                    span : Nat, group : SUBSET Disks]]
    /\ \A g \in groups : g.used \in Nat \cup {MAX_CAPACITY}
    /\ stage \in {"plan", "create", "done", "failed", "refused"}
    /\ todo \subseteq ordered_pending_volumes
    /\ \A k \in DOMAIN volumes : volumes[k].size \in Nat
    /\ IsFiniteSet(DOMAIN pending)

\* The turn of volume i comes before that of volume j.
Precedes(i, j) ==
    \E t, u \in ordered_pending_volumes : t[2] = i /\ u[2] = j /\ Earlier(t, u)

\* The volumes planned so far on the array of these disks.
Members(disks) == {i \in DOMAIN plan : plan[i] # Unplanned /\ plan[i].group = disks}

\* The array that a sharing MAX volume starts: the exception of PlansFit.
MaxFounded(disks) ==
    \E i \in DOMAIN plan : /\ plan[i].kind = "own" /\ plan[i].disks = disks
                           /\ pending[i].share /\ AutoScale(pending[i])

CapacityOf(x) == ArrayCapacity(drives, x.level, x.span, x.disks)
Old(disks) ==
    TotalSize(volumes, {k \in DOMAIN volumes : volumes[k].for = 0 /\ volumes[k].disks = disks})

\* What the volumes that were there and these pending volumes take of an array
\* of this capacity: all of it, once a MAX volume is among them.
Taken(disks, S, capacity) ==
    IF \E i \in S : AutoScale(pending[i]) THEN capacity ELSE Old(disks) + TotalSize(pending, S)

Least(v) == IF AutoScale(v) THEN 1 ELSE v.size

\* The turns are taken in order.
OrderOK ==
    /\ stage = "plan" => \A i \in DOMAIN plan : plan[i] # Unplanned =>
          \A u \in todo : Precedes(i, u[2])
    /\ stage = "create" => \A i \in DOMAIN plan : (\A t \in todo : t[2] # i) =>
          \A u \in todo : Precedes(i, u[2])

\* One group stands for an array, and its used_capacity is what the volumes
\* there and those planned take.
LedgerOK ==
    /\ \A g, h \in groups : g.disks = h.disks => g = h
    /\ \A g \in groups : ~ MaxFounded(g.disks) =>
          g.used = Taken(g.disks, Members(g.disks), CapacityOf(g))

\* A volume with an array of its own fits it and comes first there.
OwnFits(i) ==
    /\ plan[i].group = plan[i].disks
    /\ LegalCount(pending[i].level, plan[i].span, Cardinality(plan[i].disks))
    /\ ArrayCapacity(drives, pending[i].level, plan[i].span, plan[i].disks) >= Least(pending[i])
    /\ \A j \in Members(plan[i].disks) : j = i \/ Precedes(i, j)

\* A volume that joins comes when the array is there, and fits what those
\* before it leave.
JoinFits(i) ==
    \E g \in groups :
        /\ plan[i].group = g.disks /\ plan[i].disks \subseteq g.disks /\ plan[i].disks # {}
        /\ \/ \E k \in DOMAIN volumes : volumes[k].for = 0 /\ volumes[k].disks = g.disks
           \/ \E j \in DOMAIN plan : /\ plan[j].kind = "own" /\ plan[j].disks = g.disks
                                     /\ Precedes(j, i)
        /\ ~ MaxFounded(g.disks) =>
              Taken(g.disks, {j \in Members(g.disks) : Precedes(j, i)}, CapacityOf(g))
                  + Least(pending[i]) <= CapacityOf(g)

FitsOK ==
    \A i \in DOMAIN plan : /\ plan[i].kind = "own" => OwnFits(i)
                           /\ plan[i].kind = "join" => JoinFits(i)

\* The volumes whose creation is over.
Made == {i \in DOMAIN pending : \A t \in todo : t[2] # i}

\* The server's arrays are as full as the plan says of the turns that are over.
ServerFits ==
    /\ \A k \in DOMAIN volumes : volumes[k].for # 0 =>
          volumes[k].for \in DOMAIN plan /\ volumes[k].disks = plan[volumes[k].for].group
    /\ stage = "plan" => \A i \in DOMAIN plan : plan[i].kind = "own" =>
          \A d \in plan[i].disks : drives[d].good
    /\ stage = "create" => \A t \in todo : plan[t[2]].kind = "own" =>
          \A d \in plan[t[2]].disks : drives[d].good
    /\ stage = "create" => \A x \in Arrays : ~ MaxFounded(x.disks) =>
          TotalSize(volumes, {k \in DOMAIN volumes : volumes[k].disks = x.disks})
              = Taken(x.disks, Members(x.disks) \cap Made, CapacityOf(x))

FitInv == TypeInv /\ OrderOK /\ LedgerOK /\ FitsOK /\ ServerFits /\ PlansFit

----------------------------------------------------------------------------
(* The steps, with what is known of them.                                   *)

\* The turn t lets its volume join the group g, which becomes more.
Joins(t, g, more, p) ==
    /\ t \in Now("plan") /\ t \in todo /\ stage = "plan" /\ t[2] \in DOMAIN plan
    /\ pending[t[2]].share /\ Joined(pending[t[2]]) \subseteq groups
    /\ g \in Joined(pending[t[2]]) /\ g \in groups /\ g.disks # {} /\ g.disks \subseteq Disks
    /\ groups' = (groups \ {g}) \cup {more}
    /\ more.disks = g.disks /\ more.level = g.level /\ more.span = g.span
    /\ more.used = g.used + (IF AutoScale(pending[t[2]]) THEN left_capacity_bytes(g)
                             ELSE pending[t[2]].size)
    /\ p.kind = "join" /\ p.group = g.disks /\ p.disks \subseteq g.disks /\ p.disks # {}
    /\ p \in [kind : {"none", "own", "join"}, disks : SUBSET Disks, span : Nat, group : SUBSET Disks]
    /\ DOMAIN plan' = DOMAIN plan /\ plan'[t[2]] = p /\ plan[t[2]] = Unplanned
    /\ \A j \in DOMAIN plan : j # t[2] => plan'[j] = plan[j]
    /\ plan' = [plan EXCEPT ![t[2]] = p]
    /\ todo' = todo \ {t}
    /\ UNCHANGED <<drives, volumes, pending, stage, exclusive>>

LEMMA JoinStep ==
    ASSUME PlanInv, ResultInv, JoinGroup
    PROVE  \E t, g, more, p : Joins(t, g, more, p)
<1>1. PICK t \in Now("plan") : /\ pending[t[2]].share
        /\ exclusive' = exclusive
        /\ \E g \in Joined(pending[t[2]]), d \in Disks : LET v == pending[t[2]] IN
            /\ groups' = (groups \ {g}) \cup
                    {[g EXCEPT !.used = g.used + (IF AutoScale(v) THEN left_capacity_bytes(g) ELSE v.size)]}
            /\ d \in g.disks
            /\ Planned(t, [kind |-> "join", disks |-> {d}, span |-> 0, group |-> g.disks])
    BY DEF JoinGroup
<1>2. PICK v : v = pending[t[2]]
    OBVIOUS
<1>3. PICK g \in Joined(v), d \in Disks :
            /\ groups' = (groups \ {g}) \cup
                    {[g EXCEPT !.used = g.used + (IF AutoScale(v) THEN left_capacity_bytes(g) ELSE v.size)]}
            /\ d \in g.disks
            /\ Planned(t, [kind |-> "join", disks |-> {d}, span |-> 0, group |-> g.disks])
    BY <1>1, <1>2
<1>4. PICK size : size = IF AutoScale(v) THEN left_capacity_bytes(g) ELSE v.size
    OBVIOUS
<1>5. PICK more : more = [g EXCEPT !.used = g.used + size]
    OBVIOUS
<1>6. g \in groups /\ Joined(v) \subseteq groups
    BY JoinedAreGroups
<1>7. DOMAIN g = {"disks", "level", "span", "used"}
    BY <1>6 DEF ResultInv, DataOK
<1>8. more.disks = g.disks /\ more.level = g.level /\ more.span = g.span /\ more.used = g.used + size
    BY <1>5, <1>7
<1>9. [disks |-> g.disks, level |-> g.level, span |-> g.span] \in Arrays
    BY <1>6 DEF Arrays
<1>10. g.disks # {} /\ g.disks \subseteq Disks
    <2>1. PICK x \in Arrays : x.disks = g.disks
        BY <1>9
    <2> QED BY <2>1 DEF ResultInv, ArraysOK
<1>11. PICK p : p = [kind |-> "join", disks |-> {d}, span |-> 0, group |-> g.disks]
    OBVIOUS
<1>12. Planned(t, p)
    BY <1>3, <1>11
<1>13. /\ t[2] \in DOMAIN plan /\ DOMAIN plan' = DOMAIN plan /\ plan'[t[2]] = p
       /\ \A j \in DOMAIN plan : j # t[2] => plan'[j] = plan[j]
    BY <1>12, <1>11, PlannedKeeps
<1>14. t \in todo /\ stage = "plan" /\ plan[t[2]] = Unplanned
    BY DEF Now, PlanInv, TurnsOK
<1>15. p \in [kind : {"none", "own", "join"}, disks : SUBSET Disks, span : Nat, group : SUBSET Disks]
    BY <1>10, <1>11
<1>16. /\ p.kind = "join" /\ p.group = g.disks /\ p.disks = {d}
    BY <1>11
<1>17. groups' = (groups \ {g}) \cup {more}
    BY <1>3, <1>4, <1>5
<1>18. /\ plan' = [plan EXCEPT ![t[2]] = p] /\ todo' = todo \ {t}
       /\ UNCHANGED <<drives, volumes, pending, stage>>
    BY <1>12 DEF Planned
<1>19. {d} \subseteq g.disks /\ exclusive' = exclusive /\ v.share
    BY <1>1, <1>2, <1>3
<1>20. Joins(t, g, more, p)
    BY <1>2, <1>3, <1>4, <1>6, <1>8, <1>10, <1>13, <1>14, <1>15, <1>16, <1>17, <1>18, <1>19
       DEF Joins
<1> QED BY <1>20

\* The turn t gives its volume disks that are in no array yet.
Owns(t, s, p) ==
    /\ t \in Now("plan") /\ t \in todo /\ stage = "plan" /\ t[2] \in DOMAIN plan
    /\ s.disks # {} /\ s.disks \subseteq Disks /\ s.span \in Spans(pending[t[2]].level)
    /\ \A d \in s.disks : drives[d].good
    /\ \A x \in Arrays : x.disks \cap s.disks = {}
    /\ LegalCount(pending[t[2]].level, s.span, Cardinality(s.disks))
    /\ ArrayCapacity(drives, pending[t[2]].level, s.span, s.disks) >= Least(pending[t[2]])
    /\ \/ groups' = groups /\ ~ pending[t[2]].share
       \/ /\ groups' = groups \cup {NewGroup(pending[t[2]], s, pending[t[2]].size)}
          /\ pending[t[2]].share
    /\ p.kind = "own" /\ p.group = s.disks /\ p.disks = s.disks /\ p.span = s.span
    /\ p \in [kind : {"none", "own", "join"}, disks : SUBSET Disks, span : Nat, group : SUBSET Disks]
    /\ DOMAIN plan' = DOMAIN plan /\ plan'[t[2]] = p /\ plan[t[2]] = Unplanned
    /\ \A j \in DOMAIN plan : j # t[2] => plan'[j] = plan[j]
    /\ plan' = [plan EXCEPT ![t[2]] = p]
    /\ todo' = todo \ {t} /\ exclusive' = exclusive \cup s.disks
    /\ UNCHANGED <<drives, volumes, pending, stage>>

\* A solution is a legal array with the space the volume needs.
LEMMA SolutionsFit ==
    ASSUME DataOK, NEW i \in DOMAIN pending, NEW s \in Solutions(pending[i])
    PROVE  /\ LegalCount(pending[i].level, s.span, Cardinality(s.disks))
           /\ ArrayCapacity(drives, pending[i].level, s.span, s.disks) >= Least(pending[i])
<1> DEFINE v == pending[i]
<1>1. \A available, count : \A b \in BestSolutions(drives, v.level, v.size, available, count) :
        /\ LegalCount(v.level, b.span, Cardinality(b.disks))
        /\ ArrayCapacity(drives, v.level, b.span, b.disks) >= v.size
    BY DEF BestSolutions, LegalSolutions
<1>2. /\ LegalCount(v.level, s.span, Cardinality(s.disks))
      /\ ArrayCapacity(drives, v.level, s.span, s.disks) >= v.size
    <2>1. CASE Specified(v)
        BY <1>1, <2>1 DEF Solutions
    <2>2. CASE ~ Specified(v)
        BY <1>1, <2>2 DEF Solutions
    <2> QED BY <2>1, <2>2
<1>3. ArrayCapacity(drives, v.level, s.span, s.disks) >= 1
    <2>1. s.disks \subseteq Disks /\ s.disks # {} /\ s.span \in Spans(v.level)
        BY SolutionsAreRight
    <2>2. IsFiniteSet(s.disks)
        BY <2>1, HardwareAssumption, FS_Subset
    <2>3. \A d \in s.disks : drives[d].capacity \in Nat \ {0}
        BY <2>1 DEF DataOK
    <2>4. v.level \in DOMAIN RAID_SETTINGS
        BY DEF DataOK
    <2> QED BY <1>2, <2>1, <2>2, <2>3, <2>4, LegalHasRoom
<1> QED BY <1>2, <1>3 DEF Least

LEMMA OwnStep ==
    ASSUME PlanInv, ResultInv, TakeDisks \/ FoundGroup
    PROVE  \E t, s, p : Owns(t, s, p)
<1> DEFINE Gives(t, s) ==
        /\ s \in Solutions(pending[t[2]]) /\ OwnDisks(t, s)
        /\ \/ groups' = groups /\ ~ pending[t[2]].share
           \/ /\ groups' = groups \cup {NewGroup(pending[t[2]], s, pending[t[2]].size)}
              /\ pending[t[2]].share
<1>0. PICK t \in Now("plan") : \E s : Gives(t, s)
    BY DEF TakeDisks, FoundGroup
<1>1. PICK s : Gives(t, s)
    BY <1>0
<1>2. PICK p : p = [kind |-> "own", disks |-> s.disks, span |-> s.span, group |-> s.disks]
    OBVIOUS
<1>3. Planned(t, p) /\ exclusive' = exclusive \cup s.disks
    BY <1>1, <1>2 DEF OwnDisks
<1>4. /\ t[2] \in DOMAIN plan /\ DOMAIN plan' = DOMAIN plan /\ plan'[t[2]] = p
      /\ \A j \in DOMAIN plan : j # t[2] => plan'[j] = plan[j]
    BY <1>2, <1>3, PlannedKeeps
<1>5. t \in todo /\ stage = "plan" /\ plan[t[2]] = Unplanned /\ t[2] \in DOMAIN pending
    BY <1>4 DEF Now, PlanInv, TurnsOK
<1>6. s.disks # {} /\ s.disks \subseteq Disks /\ s.span \in Spans(pending[t[2]].level)
    BY <1>1, <1>5, SolutionsAreRight DEF ResultInv
<1>7. s.disks \cap exclusive = {} /\ \A d \in s.disks : drives[d].good
    BY <1>1, SolutionsAreFree
<1>8. \A x \in Arrays : x.disks \cap s.disks = {}
    BY <1>5, <1>7, FreeDisksAreInNoArray
<1>9. /\ LegalCount(pending[t[2]].level, s.span, Cardinality(s.disks))
      /\ ArrayCapacity(drives, pending[t[2]].level, s.span, s.disks) >= Least(pending[t[2]])
    BY <1>1, <1>5, SolutionsFit DEF ResultInv
<1>10. p \in [kind : {"none", "own", "join"}, disks : SUBSET Disks, span : Nat, group : SUBSET Disks]
    <2>1. s.span \in Nat
        BY <1>5, <1>6, LevelFacts DEF ResultInv, DataOK
    <2> QED BY <1>2, <1>6, <2>1
<1>11. p.kind = "own" /\ p.group = s.disks /\ p.disks = s.disks /\ p.span = s.span
    BY <1>2
<1>12. /\ plan' = [plan EXCEPT ![t[2]] = p] /\ todo' = todo \ {t}
       /\ UNCHANGED <<drives, volumes, pending, stage>>
    BY <1>3 DEF Planned
<1>13. Owns(t, s, p)
    BY <1>1, <1>3, <1>4, <1>5, <1>6, <1>7, <1>8, <1>9, <1>10, <1>11, <1>12 DEF Owns
<1> QED BY <1>13

\* The turn t creates the volume new, the server's n-th.
Creates(t, new, n) ==
    /\ t \in Now("create") /\ t \in todo /\ stage = "create"
    /\ t[2] \in DOMAIN plan /\ t[2] \in DOMAIN pending /\ t[2] # 0
    /\ Acceptable(t[2]) /\ new = VolumeFor(t[2])
    /\ DOMAIN volumes' = DOMAIN volumes \cup {n} /\ n \notin DOMAIN volumes
    /\ \A k \in DOMAIN volumes : volumes'[k] = volumes[k]
    /\ volumes'[n] = new
    /\ \A d \in Disks : /\ drives'[d].capacity = drives[d].capacity
                        /\ drives[d].good /\ (plan[t[2]].kind = "own" => d \notin plan[t[2]].disks)
                              => drives'[d].good
    /\ todo' = todo \ {t}
    /\ UNCHANGED <<pending, plan, exclusive, groups, stage>>

LEMMA CreateStep ==
    ASSUME PlanInv, ResultInv, Create
    PROVE  \E t, new, n : Creates(t, new, n)
<1>1. PICK t \in Now("create") :
        /\ Acceptable(t[2])
        /\ volumes' = Append(volumes, VolumeFor(t[2]))
        /\ drives' = [d \in Disks |-> [drives[d] EXCEPT !.good =
                        @ /\ ~ (plan[t[2]].kind = "own" /\ d \in plan[t[2]].disks)]]
        /\ todo' = todo \ {t}
        /\ UNCHANGED <<pending, plan, exclusive, groups, stage>>
    BY DEF Create
<1>2. PICK new : new = VolumeFor(t[2])
    OBVIOUS
<1>3. PICK n : n = Len(volumes) + 1
    OBVIOUS
<1>4. stage = "create" /\ t \in todo /\ t[2] \in DOMAIN plan /\ t[2] \in DOMAIN pending /\ t[2] # 0
    BY DEF Now, PlanInv, TurnsOK
<1>5. /\ DOMAIN volumes' = DOMAIN volumes \cup {n} /\ n \notin DOMAIN volumes
      /\ \A k \in DOMAIN volumes : volumes'[k] = volumes[k]
      /\ volumes'[n] = new
    <2> DEFINE R == Range(volumes) \cup {new}
    <2>1. volumes \in Seq(R) /\ new \in R
        <3>1. Range(volumes) \subseteq R
            OBVIOUS
        <3> HIDE DEF R
        <3>2. volumes \in Seq(R)
            BY <3>1, SeqMonotonic DEF PlanInv, ServerOK
        <3> QED BY <3>2 DEF R
    <2> HIDE DEF R
    <2>2. /\ Len(volumes') = Len(volumes) + 1 /\ Len(volumes) \in Nat
          /\ DOMAIN volumes = 1..Len(volumes) /\ DOMAIN volumes' = 1..(Len(volumes) + 1)
          /\ \A k \in DOMAIN volumes : volumes'[k] = volumes[k]
          /\ volumes'[Len(volumes) + 1] = new
        BY <1>1, <1>2, <2>1, AppendProperties, LenProperties
    <2> QED BY <1>3, <2>2
<1>6. \A d \in Disks : /\ drives'[d].capacity = drives[d].capacity
                       /\ drives[d].good /\ (plan[t[2]].kind = "own" => d \notin plan[t[2]].disks)
                              => drives'[d].good
    <2>1. \A d \in Disks : drives[d] \in [capacity : Nat \ {0}, media : {"ssd", "hdd"}, good : BOOLEAN]
        BY DEF ResultInv, DataOK
    <2> QED BY <1>1, <2>1
<1>7. Creates(t, new, n)
    BY <1>1, <1>2, <1>4, <1>5, <1>6 DEF Creates
<1> QED BY <1>7

----------------------------------------------------------------------------
(* Type correctness.                                                        *)

\* The groups at first: those of the arrays of the server.
LEMMA FirstGroups ==
    ASSUME Init
    PROVE  /\ \A k \in DOMAIN volumes : volumes[k].size \in Nat /\ volumes[k].for = 0
           /\ DOMAIN volumes \subseteq Nat /\ IsFiniteSet(DOMAIN volumes)
           /\ \A g \in groups : \E i \in DOMAIN volumes :
                /\ g.disks = volumes[i].disks /\ g.level = volumes[i].level
                /\ g.span = volumes[i].span
                /\ g.used = TotalSize(volumes, {k \in DOMAIN volumes :
                                                    volumes[k].disks = volumes[i].disks})
                /\ DOMAIN g = {"disks", "level", "span", "used"}
<1>1. PICK h \in Hardware : drives = h.drives /\ volumes = h.volumes
    BY DEF Init
<1> DEFINE V == [disks : (SUBSET Disks) \ {{}}, level : DOMAIN RAID_SETTINGS, span : Nat,
                 size : Nat, for : {0}]
<1>2. volumes \in Seq(V)
    BY <1>1, HardwareAssumption
<1>3. (\A k \in DOMAIN volumes : volumes[k] \in V) /\ DOMAIN volumes = 1..Len(volumes)
        /\ Len(volumes) \in Nat
    <2> HIDE DEF V
    <2> QED BY <1>2, ElementOfSeq, LenProperties
<1>4. DOMAIN volumes \subseteq Nat /\ IsFiniteSet(DOMAIN volumes)
    BY <1>3, FS_Interval
<1> DEFINE used(i) == TotalSize(volumes, {k \in DOMAIN volumes : volumes[k].disks = volumes[i].disks})
           group(i) == [disks |-> volumes[i].disks, level |-> volumes[i].level,
                        span |-> volumes[i].span, used |-> used(i)]
<1>5. build_disk_groups(volumes) = {group(i) : i \in DOMAIN volumes}
    BY DEF build_disk_groups, TotalSize
<1>6. groups \subseteq build_disk_groups(volumes)
    BY Zenon DEF Init
<1> HIDE DEF used
<1>7. \A g \in groups : \E i \in DOMAIN volumes : g = group(i)
    <2> HIDE DEF group
    <2> QED BY <1>5, <1>6
<1>8. \A g \in groups : \E i \in DOMAIN volumes :
        /\ g.disks = volumes[i].disks /\ g.level = volumes[i].level
        /\ g.span = volumes[i].span /\ g.used = used(i)
        /\ DOMAIN g = {"disks", "level", "span", "used"}
    BY <1>7
<1>9. \A k \in DOMAIN volumes : volumes[k].size \in Nat /\ volumes[k].for = 0
    BY <1>3
<1> QED BY <1>4, <1>8, <1>9 DEF used

\* TypeInv holds when apply_raid_configuration begins to plan.
LEMMA InitTypeInv == Init => TypeInv
<1> SUFFICES ASSUME Init PROVE TypeInv
    OBVIOUS
<1>1. plan \in [DOMAIN pending -> [kind : {"none", "own", "join"}, disks : SUBSET Disks,
                                   span : Nat, group : SUBSET Disks]]
    BY DEF Init, Unplanned
<1>2. \A g \in groups : g.used \in Nat
    <2> SUFFICES ASSUME NEW g \in groups PROVE g.used \in Nat
        OBVIOUS
    <2>1. PICK i \in DOMAIN volumes :
            g.used = TotalSize(volumes, {k \in DOMAIN volumes : volumes[k].disks = volumes[i].disks})
        BY FirstGroups
    <2> DEFINE K == {k \in DOMAIN volumes : volumes[k].disks = volumes[i].disks}
    <2>2. IsFiniteSet(K) /\ \A k \in K : volumes[k].size \in Nat
        BY FirstGroups, FS_Subset
    <2> HIDE DEF K
    <2>3. TotalSize(volumes, K) \in Nat
        BY <2>2, SumIsNat
    <2> QED BY <2>1, <2>3 DEF K
<1>3. \A k \in DOMAIN volumes : volumes[k].size \in Nat
    BY FirstGroups
<1>4. IsFiniteSet(DOMAIN pending)
    <2> DEFINE R == [level : DOMAIN RAID_SETTINGS, size : Nat \cup {MAX_CAPACITY},
                     share : BOOLEAN, disks : SUBSET Disks, count : Nat \cup {AutoCount},
                     media : {"ssd", "hdd", "any"}]
    <2>1. pending \in Seq(R)
        BY RequestsAssumption DEF Init
    <2>2. DOMAIN pending = 1..Len(pending) /\ Len(pending) \in Nat
        <3> HIDE DEF R
        <3> QED BY <2>1, LenProperties
    <2> QED BY <2>2, FS_Interval
<1> QED BY <1>1, <1>2, <1>3, <1>4 DEF Init, TypeInv

\* A group has a capacity, and what it has left is counted from it.
LEMMA GroupHasRoom ==
    ASSUME ResultInv, NEW g \in groups
    PROVE  /\ CapacityOf(g) \in Int
           /\ left_capacity_bytes(g) = CapacityOf(g) - g.used
<1>1. PICK x \in Arrays : x.disks = g.disks /\ x.level = g.level /\ x.span = g.span
    <2>1. [disks |-> g.disks, level |-> g.level, span |-> g.span] \in Arrays
        BY DEF Arrays
    <2> QED BY <2>1
<1>2. /\ g.disks \subseteq Disks /\ g.disks # {}
      /\ g.level \in DOMAIN RAID_SETTINGS /\ g.span \in Spans(g.level)
    BY <1>1 DEF ResultInv, ArraysOK
<1>3. IsFiniteSet(g.disks)
    BY <1>2, HardwareAssumption, FS_Subset
<1>4. \A d \in g.disks : drives[d].capacity \in Nat
    BY <1>2 DEF ResultInv, DataOK
<1> QED BY <1>2, <1>3, <1>4, CapacityIsInt DEF CapacityOf, left_capacity_bytes

\* What a volume asks of the group it joins.
LEMMA JoinedHasRoom ==
    ASSUME ResultInv, TypeInv, NEW i \in DOMAIN pending, Joined(pending[i]) \subseteq groups,
           NEW g \in Joined(pending[i])
    PROVE  /\ left_capacity_bytes(g) \in Int
           /\ left_capacity_bytes(g) >= Least(pending[i])
           /\ Least(pending[i]) \in Nat
           /\ g.used \in Int
<1> DEFINE v == pending[i]
<1>1. has_capacity_for(g, v.size)
    BY DEF Joined, Suitable, get_best_matched_disk_group
<1>2. PICK left \in Int : left = left_capacity_bytes(g)
    BY GroupHasRoom DEF TypeInv, MAX_CAPACITY
<1>3. v.size \in Nat \cup {MAX_CAPACITY}
    BY DEF ResultInv, DataOK
<1>4. left >= Least(v) /\ Least(v) \in Nat
    BY <1>1, <1>2, <1>3 DEF has_capacity_for, Least, AutoScale, MAX_CAPACITY
<1> QED BY <1>2, <1>4 DEF TypeInv, MAX_CAPACITY

\* The server's volumes are finitely many, so their sizes have a sum.
LEMMA VolumesHaveSizes ==
    ASSUME PlanInv, TypeInv, NEW K, K \subseteq DOMAIN volumes
    PROVE  IsFiniteSet(K) /\ TotalSize(volumes, K) \in Nat
<1>1. IsFiniteSet(DOMAIN volumes)
    <2>1. volumes \in Seq(Range(volumes))
        BY DEF PlanInv, ServerOK
    <2>2. DOMAIN volumes = 1..Len(volumes) /\ Len(volumes) \in Nat
        BY <2>1, LenProperties
    <2> QED BY <2>2, FS_Interval
<1>2. IsFiniteSet(K)
    BY <1>1, FS_Subset
<1> QED BY <1>2, SumIsNat DEF TypeInv

\* The room that a volume finds.
LEMMA RoomIsLeft ==
    ASSUME PlanInv, ResultInv, TypeInv, NEW i \in DOMAIN plan
    PROVE  /\ plan[i].kind = "own" =>
                /\ Room(i) = ArrayCapacity(drives, pending[i].level, plan[i].span, plan[i].disks)
                /\ Room(i) \in Int
           /\ plan[i].kind = "join" /\ Home(i) # {} => \E k \in Home(i) :
                /\ k = CHOOSE n \in Home(i) : TRUE
                /\ Room(i) = ArrayCapacity(drives, volumes[k].level, volumes[k].span, volumes[k].disks)
                                - TotalSize(volumes, Home(i))
                /\ Room(i) \in Int
<1>1. \A x \in Arrays : ArrayCapacity(drives, x.level, x.span, x.disks) \in Int
    <2> SUFFICES ASSUME NEW x \in Arrays
                 PROVE  ArrayCapacity(drives, x.level, x.span, x.disks) \in Int
        OBVIOUS
    <2>1. /\ x.disks \subseteq Disks /\ x.disks # {}
          /\ x.level \in DOMAIN RAID_SETTINGS /\ x.span \in Spans(x.level)
        BY DEF ResultInv, ArraysOK
    <2>2. IsFiniteSet(x.disks) /\ \A d \in x.disks : drives[d].capacity \in Nat
        BY <2>1, HardwareAssumption, FS_Subset DEF ResultInv, DataOK
    <2> QED BY <2>1, <2>2, CapacityIsInt
<1>2. ASSUME plan[i].kind = "own"
      PROVE  /\ Room(i) = ArrayCapacity(drives, pending[i].level, plan[i].span, plan[i].disks)
             /\ Room(i) \in Int
    <2>1. PICK x \in Arrays : x.disks = plan[i].disks /\ x.level = pending[i].level /\ x.span = plan[i].span
        <3>1. [disks |-> plan[i].disks, level |-> pending[i].level, span |-> plan[i].span] \in Arrays
            BY <1>2 DEF Arrays
        <3> QED BY <3>1
    <2> QED BY <1>1, <1>2, <2>1 DEF Room
<1>3. ASSUME plan[i].kind = "join", Home(i) # {}
      PROVE  \E k \in Home(i) :
                /\ k = CHOOSE n \in Home(i) : TRUE
                /\ Room(i) = ArrayCapacity(drives, volumes[k].level, volumes[k].span, volumes[k].disks)
                                - TotalSize(volumes, Home(i))
                /\ Room(i) \in Int
    <2>1. PICK k \in Home(i) : k = CHOOSE n \in Home(i) : TRUE
        BY <1>3
    <2>2. k \in DOMAIN volumes /\ Home(i) \subseteq DOMAIN volumes
        BY DEF Home
    <2>3. PICK x \in Arrays : x.disks = volumes[k].disks /\ x.level = volumes[k].level
                                /\ x.span = volumes[k].span
        <3>1. [disks |-> volumes[k].disks, level |-> volumes[k].level, span |-> volumes[k].span] \in Arrays
            BY <2>2 DEF Arrays
        <3> QED BY <3>1
    <2>4. Room(i) = ArrayCapacity(drives, volumes[k].level, volumes[k].span, volumes[k].disks)
                        - TotalSize(volumes, Home(i))
        BY <1>3, <2>1 DEF Room, TotalSize
    <2>5. ArrayCapacity(drives, volumes[k].level, volumes[k].span, volumes[k].disks) \in Int
        BY <1>1, <2>3
    <2>6. TotalSize(volumes, Home(i)) \in Nat
        BY <2>2, VolumesHaveSizes
    <2>7. Room(i) \in Int
        BY <2>4, <2>5, <2>6
    <2> QED BY <2>1, <2>4, <2>7
<1> QED BY <1>2, <1>3

\* A volume that is created has a size.
LEMMA NewSizes ==
    ASSUME PlanInv, ResultInv, TypeInv, NEW i \in DOMAIN plan, Acceptable(i)
    PROVE  /\ VolumeFor(i).size \in Nat
           /\ VolumeFor(i).size = IF AutoScale(pending[i]) THEN Room(i) ELSE pending[i].size
<1>1. VolumeFor(i).size = IF AutoScale(pending[i]) THEN Room(i) ELSE pending[i].size
    BY DEF VolumeFor
<1>2. i \in DOMAIN pending
    BY DEF PlanInv, TurnsOK
<1>3. CASE AutoScale(pending[i])
    <2>1. Room(i) \in Int
        BY RoomIsLeft DEF Acceptable
    <2>2. Room(i) >= 1
        BY <1>3 DEF Acceptable
    <2> QED BY <1>1, <1>3, <2>1, <2>2
<1>4. CASE ~ AutoScale(pending[i])
    <2>1. pending[i].size \in Nat
        BY <1>2, <1>4 DEF ResultInv, DataOK, AutoScale
    <2> QED BY <1>1, <1>4, <2>1
<1> QED BY <1>3, <1>4

\* Every step keeps TypeInv.
LEMMA NextKeepsTypeInv ==
    ASSUME PlanInv, ResultInv, TypeInv, [Next]_vars
    PROVE  TypeInv'
<1> DEFINE Plans == [kind : {"none", "own", "join"}, disks : SUBSET Disks, span : Nat,
                     group : SUBSET Disks]
<1>1. CASE JoinGroup
    <2>1. PICK t, g, more, p : Joins(t, g, more, p)
        BY <1>1, JoinStep
    <2>2. t[2] \in DOMAIN pending /\ DOMAIN plan = DOMAIN pending
        BY <2>1 DEF Joins, PlanInv, TurnsOK
    <2>3. plan' \in [DOMAIN pending -> Plans]
        BY <2>1 DEF Joins, TypeInv
    <2>4. more.used \in Nat \cup {MAX_CAPACITY}
        <3>1. /\ left_capacity_bytes(g) \in Int /\ left_capacity_bytes(g) >= Least(pending[t[2]])
              /\ Least(pending[t[2]]) \in Nat
            BY <2>1, <2>2, JoinedHasRoom DEF Joins
        <3>2. g.used \in Nat \cup {MAX_CAPACITY}
            BY <2>1 DEF Joins, TypeInv
        <3>3. PICK size \in Nat : more.used = g.used + size
            <4>1. CASE AutoScale(pending[t[2]])
                BY <2>1, <3>1, <4>1 DEF Joins
            <4>2. CASE ~ AutoScale(pending[t[2]])
                BY <2>1, <3>1, <4>2 DEF Joins, Least
            <4> QED BY <4>1, <4>2
        <3> QED BY <3>2, <3>3 DEF MAX_CAPACITY
    <2>5. /\ groups' = (groups \ {g}) \cup {more} /\ todo' \subseteq todo
          /\ UNCHANGED <<volumes, pending, stage, exclusive>>
        BY <2>1 DEF Joins
    <2> HIDE DEF Plans
    <2> QED BY <2>3, <2>4, <2>5 DEF TypeInv, ordered_pending_volumes, Plans
<1>2. CASE TakeDisks \/ FoundGroup
    <2>1. PICK t, s, p : Owns(t, s, p)
        BY <1>2, OwnStep
    <2>2. t[2] \in DOMAIN pending /\ DOMAIN plan = DOMAIN pending
        BY <2>1 DEF Owns, PlanInv, TurnsOK
    <2>3. plan' \in [DOMAIN pending -> Plans]
        BY <2>1 DEF Owns, TypeInv
    <2>4. NewGroup(pending[t[2]], s, pending[t[2]].size).used \in Nat \cup {MAX_CAPACITY}
        BY <2>2 DEF NewGroup, ResultInv, DataOK
    <2>5. /\ groups' \subseteq groups \cup {NewGroup(pending[t[2]], s, pending[t[2]].size)}
          /\ exclusive' = exclusive \cup s.disks /\ s.disks \subseteq Disks
          /\ todo' \subseteq todo
          /\ UNCHANGED <<volumes, pending, stage>>
        BY <2>1 DEF Owns
    <2> HIDE DEF Plans
    <2> QED BY <2>3, <2>4, <2>5 DEF TypeInv, ordered_pending_volumes, Plans
<1>3. CASE PlanFails
    <2>1. stage' = "failed" /\ UNCHANGED <<drives, volumes, pending, plan, exclusive, groups, todo>>
        BY <1>3 DEF PlanFails
    <2> QED BY <2>1 DEF TypeInv, ordered_pending_volumes
<1>4. CASE PlanDone
    <2>1. /\ stage' = "create" /\ todo' = ordered_pending_volumes
          /\ UNCHANGED <<drives, volumes, pending, plan, exclusive, groups>>
        BY <1>4 DEF PlanDone
    <2> QED BY <2>1 DEF TypeInv, ordered_pending_volumes
<1>5. CASE Create
    <2>1. PICK t, new, n : Creates(t, new, n)
        BY <1>5, CreateStep
    <2>2. new.size \in Nat
        BY <2>1, NewSizes DEF Creates
    <2>3. /\ \A k \in DOMAIN volumes' : (k \in DOMAIN volumes /\ volumes'[k] = volumes[k]) \/ volumes'[k] = new
          /\ todo' \subseteq todo
          /\ UNCHANGED <<pending, plan, exclusive, groups, stage>>
        BY <2>1 DEF Creates
    <2> QED BY <2>2, <2>3 DEF TypeInv, ordered_pending_volumes
<1>6. CASE CreateRefused
    <2>1. stage' = "refused" /\ UNCHANGED <<drives, volumes, pending, plan, exclusive, groups, todo>>
        BY <1>6 DEF CreateRefused
    <2> QED BY <2>1 DEF TypeInv, ordered_pending_volumes
<1>7. CASE CreateDone
    <2>1. stage' = "done" /\ UNCHANGED <<drives, volumes, pending, plan, exclusive, groups, todo>>
        BY <1>7 DEF CreateDone
    <2> QED BY <2>1 DEF TypeInv, ordered_pending_volumes
<1>8. CASE UNCHANGED vars
    BY <1>8 DEF vars, TypeInv, ordered_pending_volumes
<1> QED BY <1>1, <1>2, <1>3, <1>4, <1>5, <1>6, <1>7, <1>8 DEF Next

\* The turns of ordered_pending_volumes are one for each volume.
LEMMA TurnsAreOnce ==
    ASSUME ResultInv
    PROVE  /\ \A t, u \in ordered_pending_volumes : t[2] = u[2] => t = u
           /\ \A i \in DOMAIN pending : \E t \in ordered_pending_volumes : t[2] = i
BY EachVolumeOnce DEF ResultInv, DataOK

\* TypeInv is an invariant of the planning and of the creations.
LEMMA TypesAreKept == Spec => [](PlanInv /\ ResultInv /\ TypeInv)
<1>1. PlanInv /\ ResultInv /\ TypeInv /\ [Next]_vars => TypeInv'
    BY NextKeepsTypeInv
<1> QED BY <1>1, InitTypeInv, PlanIsOrderly, PlansAreRight, PTL DEF Spec

\* Type correctness of the planning of apply_raid_configuration: plans, groups
\* and turns are what the program takes them for, and a group's used capacity
\* is a size or the mark of the MAX volume that started it.
THEOREM PlanTypesAreRight == Spec => []TypeOK
<1>1. PlanInv /\ ResultInv /\ TypeInv => TypeOK
    <2> SUFFICES ASSUME PlanInv, ResultInv, TypeInv PROVE TypeOK
        OBVIOUS
    <2>1. drives \in [Disks -> [capacity : Nat, media : {"ssd", "hdd"}, good : BOOLEAN]]
        <3>1. drives \in [Disks -> [capacity : Nat \ {0}, media : {"ssd", "hdd"}, good : BOOLEAN]]
            BY DEF ResultInv, DataOK
        <3> QED BY <3>1
    <2>2. \A g \in groups : /\ g.disks \in (SUBSET Disks) \ {{}}
                            /\ g.level \in DOMAIN RAID_SETTINGS
                            /\ g.span \in Spans(g.level)
        <3> SUFFICES ASSUME NEW g \in groups
                     PROVE  /\ g.disks \in (SUBSET Disks) \ {{}}
                            /\ g.level \in DOMAIN RAID_SETTINGS
                            /\ g.span \in Spans(g.level)
            OBVIOUS
        <3>1. PICK x \in Arrays : x.disks = g.disks /\ x.level = g.level /\ x.span = g.span
            <4>1. [disks |-> g.disks, level |-> g.level, span |-> g.span] \in Arrays
                BY DEF Arrays
            <4> QED BY <4>1
        <3> QED BY <3>1 DEF ResultInv, ArraysOK
    <2>3. todo \subseteq (1..7) \X DOMAIN pending
        BY DEF PlanInv, TurnsOK
    <2>4. \A t, u \in todo : t[2] = u[2] => t = u
        BY TurnsAreOnce DEF TypeInv
    <2> QED BY <2>1, <2>2, <2>3, <2>4 DEF TypeInv, TypeOK
<1> QED BY <1>1, TypesAreKept, PTL

----------------------------------------------------------------------------
(* The order of the turns, and what is taken of an array.                   *)

\* No volume comes before one that comes before it.
LEMMA PrecedesIsStrict ==
    ASSUME PlanInv, ResultInv, NEW i, NEW j, Precedes(i, j)
    PROVE  ~ Precedes(j, i)
<1> SUFFICES ASSUME Precedes(j, i) PROVE FALSE
    OBVIOUS
<1>1. PICK t, u \in ordered_pending_volumes : t[2] = i /\ u[2] = j /\ Earlier(t, u)
    BY DEF Precedes
<1>2. PICK w, x \in ordered_pending_volumes : w[2] = j /\ x[2] = i /\ Earlier(w, x)
    BY DEF Precedes
<1>3. w = u /\ x = t
    BY <1>1, <1>2, TurnsAreOnce
<1>4. t[1] \in Int /\ u[1] \in Int /\ t[2] \in Int /\ u[2] \in Int
    BY <1>1 DEF ordered_pending_volumes, PlanInv, TurnsOK
<1> QED BY <1>1, <1>2, <1>3, <1>4 DEF Earlier

\* The turn that the loop is at comes before the others to come.
LEMMA NowIsFirst ==
    ASSUME PlanInv, ResultInv, TypeInv, NEW loop, NEW t \in Now(loop)
    PROVE  /\ \A u \in todo : u = t \/ Precedes(t[2], u[2])
           /\ \A i : Precedes(i, t[2]) => \A u \in todo : u[2] # i
<1>1. t \in todo /\ todo \subseteq ordered_pending_volumes /\ \A u \in todo : ~ Earlier(u, t)
    BY DEF Now, TypeInv
<1>2. ASSUME NEW u \in todo, u # t
      PROVE  Precedes(t[2], u[2])
    <2>1. t[1] \in Int /\ u[1] \in Int /\ t[2] \in Int /\ u[2] \in Int
        BY <1>1 DEF ordered_pending_volumes, PlanInv, TurnsOK
    <2>2. t[2] # u[2]
        BY <1>1, <1>2, TurnsAreOnce
    <2>3. Earlier(t, u)
        BY <1>1, <2>1, <2>2 DEF Earlier
    <2> QED BY <1>1, <2>3 DEF Precedes
<1>3. ASSUME NEW i, Precedes(i, t[2]), NEW u \in todo, u[2] = i
      PROVE  FALSE
    <2>1. PICK a, b \in ordered_pending_volumes : a[2] = i /\ b[2] = t[2] /\ Earlier(a, b)
        BY <1>3 DEF Precedes
    <2>2. a = u /\ b = t
        BY <1>1, <1>3, <2>1, TurnsAreOnce
    <2> QED BY <1>1, <2>1, <2>2
<1> QED BY <1>2, <1>3

\* The order is that of the pending volumes.
LEMMA OrderStays ==
    ASSUME pending' = pending
    PROVE  /\ ordered_pending_volumes' = ordered_pending_volumes
           /\ \A i, j : Precedes(i, j)' <=> Precedes(i, j)
<1>1. ordered_pending_volumes' = ordered_pending_volumes
    BY DEF ordered_pending_volumes
<1> QED BY <1>1 DEF Precedes

\* One volume more on an array that has room for it.
LEMMA OneMore ==
    ASSUME PlanInv, ResultInv, TypeInv, NEW disks, NEW S, S \subseteq DOMAIN pending,
           NEW i \in DOMAIN pending, i \notin S, NEW capacity \in Int
    PROVE  /\ Taken(disks, S, capacity) \in Int
           /\ Taken(disks, S, capacity) + Least(pending[i]) <= capacity =>
                Taken(disks, S \cup {i}, capacity)
                    = Taken(disks, S, capacity) +
                        (IF AutoScale(pending[i]) THEN capacity - Taken(disks, S, capacity)
                         ELSE pending[i].size)
<1>1. Old(disks) \in Nat
    <2>1. {k \in DOMAIN volumes : volumes[k].for = 0 /\ volumes[k].disks = disks} \subseteq DOMAIN volumes
        OBVIOUS
    <2> QED BY <2>1, VolumesHaveSizes DEF Old
<1>2. \A j \in DOMAIN pending : ~ AutoScale(pending[j]) => pending[j].size \in Nat
    BY DEF ResultInv, DataOK, AutoScale
<1>3. IsFiniteSet(S) /\ IsFiniteSet(S \cup {i})
    BY FS_Subset DEF TypeInv
<1>4. ASSUME \A j \in S : ~ AutoScale(pending[j])
      PROVE  TotalSize(pending, S) \in Nat
    BY <1>2, <1>3, <1>4, SumIsNat
<1>5. Taken(disks, S, capacity) \in Int
    BY <1>1, <1>4 DEF Taken
<1>6. CASE \E j \in S : AutoScale(pending[j])
    <2>1. /\ Taken(disks, S, capacity) = capacity
          /\ Taken(disks, S \cup {i}, capacity) = capacity
        BY <1>6 DEF Taken
    <2>2. CASE AutoScale(pending[i])
        BY <2>1, <2>2 DEF Least
    <2>3. CASE ~ AutoScale(pending[i])
        BY <1>2, <2>1, <2>3 DEF Least
    <2> QED BY <1>5, <2>2, <2>3
<1>7. CASE \A j \in S : ~ AutoScale(pending[j])
    <2>1. Taken(disks, S, capacity) = Old(disks) + TotalSize(pending, S)
        BY <1>7 DEF Taken
    <2>2. CASE AutoScale(pending[i])
        <3>1. Taken(disks, S \cup {i}, capacity) = capacity
            BY <2>2 DEF Taken
        <3> QED BY <1>5, <2>2, <3>1
    <2>3. CASE ~ AutoScale(pending[i])
        <3>1. \A j \in S \cup {i} : pending[j].size \in Nat
            BY <1>2, <1>7, <2>3
        <3>2. (S \cup {i}) \ {i} = S
            OBVIOUS
        <3>3. TotalSize(pending, S \cup {i}) = pending[i].size + TotalSize(pending, (S \cup {i}) \ {i})
            BY <1>3, <3>1, SumTakesOut
        <3>4. Taken(disks, S \cup {i}, capacity) = Old(disks) + TotalSize(pending, S \cup {i})
            BY <1>7, <2>3 DEF Taken
        <3>5. TotalSize(pending, S) \in Nat /\ pending[i].size \in Nat
            BY <1>4, <1>7, <3>1
        <3>6. Taken(disks, S \cup {i}, capacity) = Taken(disks, S, capacity) + pending[i].size
            <4>1. PICK old \in Nat : old = Old(disks)
                BY <1>1
            <4>2. PICK sum \in Nat : sum = TotalSize(pending, S)
                BY <3>5
            <4>3. PICK size \in Nat : size = pending[i].size
                BY <3>5
            <4>4. Taken(disks, S, capacity) = old + sum
                BY <2>1, <4>1, <4>2
            <4>5. Taken(disks, S \cup {i}, capacity) = old + (size + sum)
                BY <3>2, <3>3, <3>4, <4>1, <4>2, <4>3
            <4>6. old + (size + sum) = (old + sum) + size
                BY <4>1, <4>2, <4>3
            <4> QED BY <4>3, <4>4, <4>5, <4>6
        <3> QED BY <1>5, <2>3, <3>6
    <2> QED BY <2>2, <2>3
<1> QED BY <1>6, <1>7

\* A volume with a plan has an array.
LEMMA MembersHaveArrays ==
    ASSUME ResultInv, FitsOK, NEW disks, NEW i \in Members(disks)
    PROVE  /\ plan[i].kind \in {"own", "join"}
           /\ \E x \in Arrays : x.disks = disks
<1>1. i \in DOMAIN plan /\ plan[i] # Unplanned /\ plan[i].group = disks
    BY DEF Members
<1>2. plan[i].kind \in {"own", "join"}
    BY <1>1 DEF ResultInv, PlansOK, PlannedRight
<1>3. CASE plan[i].kind = "own"
    <2>1. plan[i].disks = disks
        BY <1>1, <1>3 DEF FitsOK, OwnFits
    <2>2. [disks |-> plan[i].disks, level |-> pending[i].level, span |-> plan[i].span] \in Arrays
        BY <1>1, <1>3 DEF Arrays
    <2> QED BY <1>2, <2>1, <2>2
<1>4. CASE plan[i].kind = "join"
    <2>1. PICK g \in groups : g.disks = disks
        BY <1>1, <1>4 DEF FitsOK, JoinFits
    <2>2. [disks |-> g.disks, level |-> g.level, span |-> g.span] \in Arrays
        BY DEF Arrays
    <2> QED BY <1>2, <2>1, <2>2
<1> QED BY <1>2, <1>3, <1>4

\* While only plans are made, the arrays and their capacities are what they were.
LEMMA PlanningFrame ==
    ASSUME UNCHANGED <<drives, volumes, pending>>
    PROVE  /\ \A disks : Old(disks)' = Old(disks)
           /\ \A disks, S, capacity : Taken(disks, S, capacity)' = Taken(disks, S, capacity)
           /\ \A x : CapacityOf(x)' = CapacityOf(x)
<1>1. \A disks : Old(disks)' = Old(disks)
    BY DEF Old
<1>2. \A disks, S, capacity : Taken(disks, S, capacity)' = Taken(disks, S, capacity)
    BY <1>1 DEF Taken
<1>3. \A x : CapacityOf(x)' = CapacityOf(x)
    BY DEF CapacityOf
<1> QED BY <1>1, <1>2, <1>3

----------------------------------------------------------------------------
(* FitInv: the initial states.                                              *)

\* The existing volumes on one array make one group.
LEMMA FirstGroupsOnce ==
    ASSUME Init, ResultInv
    PROVE  \A g, h \in groups : g.disks = h.disks => g = h
<1> DEFINE used(i) == TotalSize(volumes, {k \in DOMAIN volumes : volumes[k].disks = volumes[i].disks})
           group(i) == [disks |-> volumes[i].disks, level |-> volumes[i].level,
                        span |-> volumes[i].span, used |-> used(i)]
<1>1. build_disk_groups(volumes) = {group(i) : i \in DOMAIN volumes}
    BY DEF build_disk_groups, TotalSize
<1>2. groups \subseteq build_disk_groups(volumes)
    BY Zenon DEF Init
<1>3. \A g \in groups : \E i \in DOMAIN volumes : g = group(i)
    <2> HIDE DEF group
    <2> QED BY <1>1, <1>2
<1>4. ASSUME NEW i \in DOMAIN volumes, NEW j \in DOMAIN volumes, volumes[i].disks = volumes[j].disks
      PROVE  group(i) = group(j)
    <2>1. PICK x \in Arrays : /\ x.disks = volumes[i].disks /\ x.level = volumes[i].level
                              /\ x.span = volumes[i].span
        <3>1. [disks |-> volumes[i].disks, level |-> volumes[i].level, span |-> volumes[i].span] \in Arrays
            BY DEF Arrays
        <3> QED BY <3>1
    <2>2. PICK y \in Arrays : /\ y.disks = volumes[j].disks /\ y.level = volumes[j].level
                              /\ y.span = volumes[j].span
        <3>1. [disks |-> volumes[j].disks, level |-> volumes[j].level, span |-> volumes[j].span] \in Arrays
            BY DEF Arrays
        <3> QED BY <3>1
    <2>3. x = y
        <3>1. x.disks \cap y.disks # {}
            BY <1>4, <2>1, <2>2 DEF ResultInv, ArraysOK
        <3> QED BY <3>1 DEF ResultInv, ArraysOK
    <2>4. used(i) = used(j)
        BY <1>4
    <2> QED BY <1>4, <2>1, <2>2, <2>3, <2>4
<1>5. \A i : group(i).disks = volumes[i].disks
    OBVIOUS
<1> HIDE DEF group
<1> QED BY <1>3, <1>4, <1>5

\* FitInv holds when apply_raid_configuration begins to plan.
LEMMA InitFitInv == Init /\ PlanInv /\ ResultInv => FitInv
<1> SUFFICES ASSUME Init, PlanInv, ResultInv PROVE FitInv
    OBVIOUS
<1>1. TypeInv
    BY InitTypeInv
<1>2. /\ stage = "plan"
      /\ \A i \in DOMAIN plan : plan[i] = Unplanned
    BY DEF Init
<1>3. \A i \in DOMAIN plan : plan[i].kind = "none"
    BY <1>2 DEF Unplanned
<1>4. OrderOK
    BY <1>2 DEF OrderOK
<1>5. FitsOK
    BY <1>3 DEF FitsOK
<1>6. \A k \in DOMAIN volumes : volumes[k].for = 0
    BY FirstGroups
<1>7. ServerFits
    BY <1>2, <1>3, <1>6 DEF ServerFits
<1>8. PlansFit
    BY <1>2 DEF PlansFit
<1>9. LedgerOK
    <2>1. ASSUME NEW g \in groups
          PROVE  g.used = Taken(g.disks, Members(g.disks), CapacityOf(g))
        <3>1. g.used = TotalSize(volumes, {k \in DOMAIN volumes : volumes[k].disks = g.disks})
            BY FirstGroups
        <3>2. {k \in DOMAIN volumes : volumes[k].disks = g.disks}
                = {k \in DOMAIN volumes : volumes[k].for = 0 /\ volumes[k].disks = g.disks}
            BY <1>6
        <3>3. g.used = Old(g.disks)
            BY <3>1, <3>2 DEF Old
        <3>4. Members(g.disks) = {}
            BY <1>2 DEF Members
        <3>5. Taken(g.disks, {}, CapacityOf(g)) = Old(g.disks) + 0
            BY SumOfNone DEF Taken
        <3>6. Old(g.disks) \in Nat
            <4>1. {k \in DOMAIN volumes : volumes[k].for = 0 /\ volumes[k].disks = g.disks}
                    \subseteq DOMAIN volumes
                OBVIOUS
            <4> QED BY <1>1, <4>1, VolumesHaveSizes DEF Old
        <3> QED BY <3>3, <3>4, <3>5, <3>6
    <2> QED BY <2>1, FirstGroupsOnce DEF LedgerOK
<1> QED BY <1>1, <1>4, <1>5, <1>7, <1>8, <1>9 DEF FitInv

----------------------------------------------------------------------------
(* FitInv: the steps that plan.                                             *)

\* The turn t of the planning loop gives its volume the plan p.
Turn(t, p) ==
    /\ t \in Now("plan") /\ t \in todo /\ stage = "plan" /\ t[2] \in DOMAIN plan
    /\ plan[t[2]] = Unplanned /\ p # Unplanned
    /\ DOMAIN plan' = DOMAIN plan /\ plan'[t[2]] = p
    /\ \A j \in DOMAIN plan : j # t[2] => plan'[j] = plan[j]
    /\ todo' = todo \ {t}
    /\ UNCHANGED <<drives, volumes, pending, stage>>

\* What is taken of an array after a turn of the planning loop.
LEMMA TakenNow ==
    ASSUME UNCHANGED <<drives, volumes, pending>>, NEW x
    PROVE  Taken(x.disks, Members(x.disks), CapacityOf(x))'
                = Taken(x.disks, Members(x.disks)', CapacityOf(x))
<1>1. Old(x.disks)' = Old(x.disks) /\ CapacityOf(x)' = CapacityOf(x)
    BY PlanningFrame
<1> QED BY <1>1 DEF Taken

\* The same of what the volumes before i take.
LEMMA TakenBefore ==
    ASSUME UNCHANGED <<drives, volumes, pending>>, NEW x, NEW i
    PROVE  Taken(x.disks, {j \in Members(x.disks) : Precedes(j, i)}, CapacityOf(x))'
                = Taken(x.disks, {j \in Members(x.disks)' : Precedes(j, i)}, CapacityOf(x))
<1>1. Old(x.disks)' = Old(x.disks) /\ CapacityOf(x)' = CapacityOf(x)
    BY PlanningFrame
<1>2. \A j : Precedes(j, i)' <=> Precedes(j, i)
    BY OrderStays
<1>3. {j \in Members(x.disks) : Precedes(j, i)}' = {j \in Members(x.disks)' : Precedes(j, i)}
    BY <1>2
<1> QED BY <1>1, <1>3 DEF Taken

\* A turn comes after all those that are over.
LEMMA TurnKeepsOrder ==
    ASSUME PlanInv, ResultInv, TypeInv, OrderOK, NEW t, NEW p, Turn(t, p)
    PROVE  /\ OrderOK'
           /\ \A j \in DOMAIN plan : plan[j] # Unplanned => Precedes(j, t[2]) /\ ~ Precedes(t[2], j)
           /\ ~ Precedes(t[2], t[2])
<1>1. /\ t \in Now("plan") /\ t \in todo /\ stage = "plan" /\ stage' = "plan"
      /\ DOMAIN plan' = DOMAIN plan /\ todo' = todo \ {t} /\ pending' = pending
      /\ \A j \in DOMAIN plan : j # t[2] => plan'[j] = plan[j]
    BY DEF Turn
<1>2. \A j \in DOMAIN plan : plan[j] # Unplanned => \A u \in todo : Precedes(j, u[2])
    BY <1>1 DEF OrderOK
<1>3. \A j \in DOMAIN plan : plan[j] # Unplanned => Precedes(j, t[2]) /\ ~ Precedes(t[2], j)
    BY <1>1, <1>2, PrecedesIsStrict
<1>4. \A j \in DOMAIN plan' : plan'[j] # Unplanned => \A u \in todo' : Precedes(j, u[2])'
    <2> SUFFICES ASSUME NEW j \in DOMAIN plan, plan'[j] # Unplanned, NEW u \in todo, u # t
                 PROVE  Precedes(j, u[2])
        BY <1>1, OrderStays
    <2>1. CASE j = t[2]
        BY <1>1, <2>1, NowIsFirst
    <2>2. CASE j # t[2]
        BY <1>1, <1>2, <2>2
    <2> QED BY <2>1, <2>2
<1>5. OrderOK'
    BY <1>1, <1>4 DEF OrderOK
<1> QED BY <1>3, <1>5, PrecedesIsStrict

\* The volumes on an array after a turn.
LEMMA TurnAddsMember ==
    ASSUME NEW t, NEW p, Turn(t, p), NEW disks
    PROVE  /\ Members(disks)' = IF p.group = disks THEN Members(disks) \cup {t[2]} ELSE Members(disks)
           /\ t[2] \notin Members(disks)
BY DEF Turn, Members

\* The volumes planned before still fit.
LEMMA OthersStillFit ==
    ASSUME PlanInv, ResultInv, TypeInv, OrderOK, FitsOK, NEW t, NEW p, Turn(t, p),
           \A g \in groups : \E h \in groups' :
                h.disks = g.disks /\ h.level = g.level /\ h.span = g.span,
           NEW j \in DOMAIN plan, j # t[2]
    PROVE  /\ plan'[j].kind = "own" => OwnFits(j)'
           /\ plan'[j].kind = "join" => JoinFits(j)'
<1> DEFINE i == t[2]
<1>1. /\ UNCHANGED <<drives, volumes, pending>> /\ DOMAIN plan' = DOMAIN plan
      /\ plan'[j] = plan[j] /\ i \in DOMAIN plan /\ plan[i] = Unplanned
      /\ \A k \in DOMAIN plan : k # i => plan'[k] = plan[k]
    BY DEF Turn
<1>2. plan[i].kind = "none"
    BY <1>1 DEF Unplanned
<1>3. \A k, l : Precedes(k, l)' <=> Precedes(k, l)
    BY <1>1, OrderStays
<1>4. \A k \in DOMAIN plan : plan[k] # Unplanned => Precedes(k, i) /\ ~ Precedes(i, k)
    BY TurnKeepsOrder
<1>5. \A disks : Members(disks)' \subseteq Members(disks) \cup {i}
    BY TurnAddsMember
<1>6. \A k \in DOMAIN plan : plan[k].kind = "own" => plan'[k] = plan[k]
    BY <1>1, <1>2
<1> HIDE DEF i
<1>7. ASSUME plan[j].kind = "own"
      PROVE  OwnFits(j)'
    <2>1. OwnFits(j) /\ plan[j] # Unplanned
        BY <1>7 DEF FitsOK, Unplanned
    <2>2. PICK D : D = plan[j].disks
        OBVIOUS
    <2>3. \A k \in Members(D)' : k = j \/ Precedes(j, k)'
        <3>1. \A k \in Members(D) : k = j \/ Precedes(j, k)
            BY <2>1, <2>2 DEF OwnFits
        <3> QED BY <1>3, <1>4, <1>5, <2>1, <3>1
    <2> QED BY <1>1, <2>1, <2>2, <2>3 DEF OwnFits, Least
<1>8. ASSUME plan[j].kind = "join"
      PROVE  JoinFits(j)'
    <2>1. plan[j] # Unplanned
        BY <1>8 DEF Unplanned
    <2>2. PICK g \in groups :
            /\ plan[j].group = g.disks /\ plan[j].disks \subseteq g.disks /\ plan[j].disks # {}
            /\ \/ \E k \in DOMAIN volumes : volumes[k].for = 0 /\ volumes[k].disks = g.disks
               \/ \E k \in DOMAIN plan : /\ plan[k].kind = "own" /\ plan[k].disks = g.disks
                                         /\ Precedes(k, j)
            /\ ~ MaxFounded(g.disks) =>
                  Taken(g.disks, {k \in Members(g.disks) : Precedes(k, j)}, CapacityOf(g))
                      + Least(pending[j]) <= CapacityOf(g)
        BY <1>8 DEF FitsOK, JoinFits
    <2>3. PICK h \in groups' : h.disks = g.disks /\ h.level = g.level /\ h.span = g.span
        OBVIOUS
    <2>4. \/ \E k \in DOMAIN volumes' : volumes'[k].for = 0 /\ volumes'[k].disks = h.disks
          \/ \E k \in DOMAIN plan' : /\ plan'[k].kind = "own" /\ plan'[k].disks = h.disks
                                     /\ Precedes(k, j)'
        <3>1. CASE \E k \in DOMAIN volumes : volumes[k].for = 0 /\ volumes[k].disks = g.disks
            BY <1>1, <2>3, <3>1
        <3>2. CASE \E k \in DOMAIN plan : /\ plan[k].kind = "own" /\ plan[k].disks = g.disks
                                          /\ Precedes(k, j)
            BY <1>1, <1>3, <1>6, <2>3, <3>2
        <3> QED BY <2>2, <3>1, <3>2
    <2>5. MaxFounded(g.disks) => MaxFounded(h.disks)'
        <3> SUFFICES ASSUME NEW k \in DOMAIN plan, plan[k].kind = "own", plan[k].disks = g.disks,
                            pending[k].share, AutoScale(pending[k])
                     PROVE  MaxFounded(h.disks)'
            BY DEF MaxFounded
        <3> QED BY <1>1, <1>6, <2>3 DEF MaxFounded, AutoScale
    <2>6. {k \in Members(h.disks)' : Precedes(k, j)} = {k \in Members(g.disks) : Precedes(k, j)}
        <3>1. \A k \in Members(g.disks) : k \in Members(g.disks)'
            BY TurnAddsMember
        <3> QED BY <1>4, <1>5, <2>1, <2>3, <3>1
    <2>7. CapacityOf(h)' = CapacityOf(h) /\ CapacityOf(h) = CapacityOf(g)
        BY <1>1, <2>3 DEF CapacityOf
    <2>8. Taken(h.disks, {k \in Members(h.disks) : Precedes(k, j)}, CapacityOf(h))'
            = Taken(g.disks, {k \in Members(g.disks) : Precedes(k, j)}, CapacityOf(g))
        BY <1>1, <2>3, <2>6, <2>7, TakenBefore
    <2>9. Least(pending[j])' = Least(pending[j])
        BY <1>1 DEF Least
    <2> QED BY <1>1, <2>2, <2>3, <2>4, <2>5, <2>7, <2>8, <2>9 DEF JoinFits
<1> QED BY <1>1, <1>7, <1>8

\* A turn of the planning loop disturbs nothing on the server.
LEMMA TurnKeepsServer ==
    ASSUME PlanInv, ServerFits, NEW t, NEW p, Turn(t, p),
           p.kind = "own" => \A d \in p.disks : drives[d].good
    PROVE  ServerFits' /\ PlansFit'
<1>1. /\ UNCHANGED <<drives, volumes, pending>> /\ DOMAIN plan' = DOMAIN plan /\ plan'[t[2]] = p
      /\ stage = "plan" /\ stage' = "plan"
      /\ \A j \in DOMAIN plan : j # t[2] => plan'[j] = plan[j]
    BY DEF Turn
<1>2. \A k \in DOMAIN volumes : volumes[k].for = 0
    BY <1>1 DEF PlanInv, ServerOK
<1>3. \A j \in DOMAIN plan : plan'[j].kind = "own" => \A d \in plan'[j].disks : drives[d].good
    <2>1. \A j \in DOMAIN plan : plan[j].kind = "own" => \A d \in plan[j].disks : drives[d].good
        BY <1>1 DEF ServerFits
    <2> QED BY <1>1, <2>1
<1>4. ServerFits'
    BY <1>1, <1>2, <1>3 DEF ServerFits
<1>5. PlansFit'
    BY <1>1 DEF PlansFit
<1> QED BY <1>4, <1>5

\* A volume that joins a group: the group counts it, and it finds room when
\* its turn comes.
LEMMA JoinKeepsFit ==
    ASSUME PlanInv, ResultInv, FitInv, NEW t, NEW g, NEW more, NEW p, Joins(t, g, more, p)
    PROVE  OrderOK' /\ LedgerOK' /\ FitsOK' /\ ServerFits' /\ PlansFit'
<1> DEFINE i == t[2]
           A == g.disks
<1>1. /\ Turn(t, p)
      /\ p.kind = "join" /\ p.group = A /\ p.disks \subseteq A /\ p.disks # {}
    <2>1. p # Unplanned
        BY DEF Joins, Unplanned
    <2> QED BY <2>1 DEF Joins, Turn
<1>2. /\ groups' = (groups \ {g}) \cup {more} /\ g \in groups
      /\ more.disks = A /\ more.level = g.level /\ more.span = g.span
      /\ more.used = g.used + (IF AutoScale(pending[i]) THEN left_capacity_bytes(g)
                               ELSE pending[i].size)
      /\ i \in DOMAIN pending /\ i \in DOMAIN plan
    BY DEF Joins, PlanInv, TurnsOK
<1>3. /\ UNCHANGED <<drives, volumes, pending>> /\ DOMAIN plan' = DOMAIN plan
      /\ plan'[i] = p /\ plan[i] = Unplanned
      /\ \A j \in DOMAIN plan : j # i => plan'[j] = plan[j]
    BY <1>1 DEF Turn
<1>4. TypeInv /\ OrderOK /\ LedgerOK /\ FitsOK /\ ServerFits
    BY DEF FitInv
<1>5. \A h \in groups : \E k \in groups' : k.disks = h.disks /\ k.level = h.level /\ k.span = h.span
    BY <1>2
<1>6. /\ left_capacity_bytes(g) \in Int /\ left_capacity_bytes(g) >= Least(pending[i])
      /\ Least(pending[i]) \in Nat /\ g.used \in Int
      /\ CapacityOf(g) \in Int /\ left_capacity_bytes(g) = CapacityOf(g) - g.used
    <2>1. g \in Joined(pending[i]) /\ Joined(pending[i]) \subseteq groups
        BY DEF Joins
    <2> QED BY <1>2, <1>4, <2>1, JoinedHasRoom, GroupHasRoom
<1>7. \A disks : MaxFounded(disks)' <=> MaxFounded(disks)
    <2>1. \A j \in DOMAIN plan : plan'[j].kind = "own" <=> plan[j].kind = "own"
        BY <1>1, <1>3 DEF Unplanned
    <2>2. \A j \in DOMAIN plan : plan[j].kind = "own" => plan'[j] = plan[j]
        BY <1>3 DEF Unplanned
    <2> QED BY <1>3, <2>1, <2>2 DEF MaxFounded, AutoScale
<1> DEFINE M == Members(A)
<1>8. /\ M \subseteq DOMAIN pending /\ i \notin M /\ Members(A)' = M \cup {i}
      /\ \A disks : disks # A => Members(disks)' = Members(disks)
    <2>1. M \subseteq DOMAIN pending
        BY DEF Members, PlanInv, TurnsOK
    <2> HIDE DEF i, A
    <2> QED BY <1>1, <2>1, TurnAddsMember DEF i
<1>9. \A j \in M : Precedes(j, i)
    <2>1. \A j \in M : j \in DOMAIN plan /\ plan[j] # Unplanned
        BY DEF Members
    <2> QED BY <1>1, <1>4, <2>1, TurnKeepsOrder
<1> HIDE DEF i, A, M
<1>10. ASSUME ~ MaxFounded(A)
       PROVE  /\ Taken(A, M, CapacityOf(g)) + Least(pending[i]) <= CapacityOf(g)
              /\ more.used = Taken(A, M \cup {i}, CapacityOf(g))
    <2>1. g.used = Taken(A, M, CapacityOf(g))
        BY <1>2, <1>4, <1>10 DEF LedgerOK, M, A
    <2>2. /\ CapacityOf(g) - Taken(A, M, CapacityOf(g)) >= Least(pending[i])
          /\ Taken(A, M, CapacityOf(g)) \in Int
        BY <1>6, <2>1
    <2>3. Taken(A, M, CapacityOf(g)) + Least(pending[i]) <= CapacityOf(g)
        BY <1>6, <2>2
    <2>4. Taken(A, M \cup {i}, CapacityOf(g))
            = Taken(A, M, CapacityOf(g)) +
                (IF AutoScale(pending[i]) THEN CapacityOf(g) - Taken(A, M, CapacityOf(g))
                 ELSE pending[i].size)
        BY <1>2, <1>4, <1>6, <1>8, <2>3, OneMore
    <2>5. more.used = Taken(A, M \cup {i}, CapacityOf(g))
        <3>1. left_capacity_bytes(g) = CapacityOf(g) - Taken(A, M, CapacityOf(g))
            BY <1>6, <2>1
        <3> QED BY <1>2, <2>1, <2>4, <3>1
    <2> QED BY <2>3, <2>5
<1>11. CapacityOf(more) = CapacityOf(g)
    BY <1>2 DEF CapacityOf, A
<1>12. LedgerOK'
    <2>1. \A h, k \in groups' : h.disks = k.disks => h = k
        <3>1. \A h, k \in groups : h.disks = k.disks => h = k
            BY <1>4 DEF LedgerOK
        <3> QED BY <1>2, <3>1 DEF A
    <2>2. ASSUME NEW h \in groups', ~ MaxFounded(h.disks)'
          PROVE  h.used = Taken(h.disks, Members(h.disks), CapacityOf(h))'
        <3>1. Taken(h.disks, Members(h.disks), CapacityOf(h))'
                = Taken(h.disks, Members(h.disks)', CapacityOf(h))
            BY <1>3, TakenNow
        <3>2. ~ MaxFounded(h.disks)
            BY <1>7, <2>2
        <3>3. CASE h = more
            BY <1>2, <1>8, <1>10, <1>11, <3>1, <3>2, <3>3
        <3>4. CASE h # more
            <4>1. h \in groups /\ h.disks # A
                BY <1>2, <1>4, <3>4 DEF LedgerOK, A
            <4>2. h.used = Taken(h.disks, Members(h.disks), CapacityOf(h))
                BY <1>4, <3>2, <4>1 DEF LedgerOK
            <4> QED BY <1>8, <3>1, <4>1, <4>2
        <3> QED BY <3>3, <3>4
    <2> QED BY <2>1, <2>2 DEF LedgerOK
<1>13. JoinFits(i)'
    <2>1. more \in groups' /\ plan'[i].group = more.disks /\ plan'[i].disks \subseteq more.disks
            /\ plan'[i].disks # {}
        BY <1>1, <1>2, <1>3 DEF A
    <2>2. \/ \E k \in DOMAIN volumes' : volumes'[k].for = 0 /\ volumes'[k].disks = more.disks
          \/ \E j \in DOMAIN plan' : /\ plan'[j].kind = "own" /\ plan'[j].disks = more.disks
                                     /\ Precedes(j, i)'
        <3>1. \/ \E k \in DOMAIN volumes : volumes[k].disks = A
              \/ \E j \in DOMAIN plan : plan[j].kind = "own" /\ plan[j].disks = A
            BY <1>2 DEF PlanInv, OwnersOK, A
        <3>2. \A k \in DOMAIN volumes : volumes[k].for = 0
            BY <1>1 DEF PlanInv, ServerOK, Turn
        <3>3. CASE \E k \in DOMAIN volumes : volumes[k].disks = A
            BY <1>2, <1>3, <3>2, <3>3
        <3>4. CASE \E j \in DOMAIN plan : plan[j].kind = "own" /\ plan[j].disks = A
            <4>1. PICK j \in DOMAIN plan : plan[j].kind = "own" /\ plan[j].disks = A
                BY <3>4
            <4>2. plan[j] # Unplanned
                BY <4>1 DEF Unplanned
            <4>3. j # i /\ Precedes(j, i)
                BY <1>1, <1>3, <1>4, <4>2, TurnKeepsOrder DEF i
            <4>4. Precedes(j, i)'
                BY <1>3, <4>3, OrderStays
            <4> QED BY <1>2, <1>3, <4>1, <4>3, <4>4
        <3> QED BY <3>1, <3>3, <3>4
    <2>3. Taken(more.disks, {j \in Members(more.disks) : Precedes(j, i)}, CapacityOf(more))'
            = Taken(A, M, CapacityOf(g))
        <3>1. {j \in Members(A)' : Precedes(j, i)} = M
            <4>1. ~ Precedes(i, i)
                BY <1>1, <1>4, TurnKeepsOrder DEF i
            <4> QED BY <1>8, <1>9, <4>1
        <3>2. Taken(more.disks, {j \in Members(more.disks) : Precedes(j, i)}, CapacityOf(more))'
                = Taken(more.disks, {j \in Members(more.disks)' : Precedes(j, i)}, CapacityOf(more))
            BY <1>3, TakenBefore
        <3> QED BY <1>2, <1>11, <3>1, <3>2
    <2>4. CapacityOf(more)' = CapacityOf(g) /\ Least(pending[i])' = Least(pending[i])
        BY <1>3, <1>11 DEF CapacityOf, Least
    <2>5. ~ MaxFounded(more.disks)' => ~ MaxFounded(A)
        BY <1>2, <1>7
    <2> QED BY <1>10, <2>1, <2>2, <2>3, <2>4, <2>5 DEF JoinFits
<1>14. FitsOK'
    <2>1. \A j \in DOMAIN plan : j # i =>
            /\ plan'[j].kind = "own" => OwnFits(j)'
            /\ plan'[j].kind = "join" => JoinFits(j)'
        BY <1>1, <1>4, <1>5, OthersStillFit DEF i
    <2>2. plan'[i].kind = "join"
        BY <1>1, <1>3
    <2> QED BY <1>3, <1>13, <2>1, <2>2 DEF FitsOK
<1>15. OrderOK'
    BY <1>1, <1>4, TurnKeepsOrder
<1>16. ServerFits' /\ PlansFit'
    BY <1>1, <1>4, TurnKeepsServer
<1> QED BY <1>12, <1>14, <1>15, <1>16

\* A volume with disks of its own: its array is new, and has room for it.
LEMMA OwnKeepsFit ==
    ASSUME PlanInv, ResultInv, FitInv, NEW t, NEW s, NEW p, Owns(t, s, p)
    PROVE  OrderOK' /\ LedgerOK' /\ FitsOK' /\ ServerFits' /\ PlansFit'
<1> DEFINE i == t[2]
           A == s.disks
           founded == NewGroup(pending[i], s, pending[i].size)
<1>1. /\ Turn(t, p)
      /\ p.kind = "own" /\ p.group = A /\ p.disks = A /\ p.span = s.span
    <2>1. p # Unplanned
        BY DEF Owns, Unplanned
    <2> QED BY <2>1 DEF Owns, Turn
<1>2. /\ \/ groups' = groups
         \/ groups' = groups \cup {founded} /\ pending[i].share
      /\ i \in DOMAIN pending /\ i \in DOMAIN plan
      /\ A # {} /\ A \subseteq Disks /\ s.span \in Spans(pending[i].level)
      /\ \A d \in A : drives[d].good
      /\ \A x \in Arrays : x.disks \cap A = {}
      /\ LegalCount(pending[i].level, s.span, Cardinality(A))
      /\ ArrayCapacity(drives, pending[i].level, s.span, A) >= Least(pending[i])
    BY DEF Owns, PlanInv, TurnsOK
<1>3. /\ UNCHANGED <<drives, volumes, pending>> /\ DOMAIN plan' = DOMAIN plan
      /\ plan'[i] = p /\ plan[i] = Unplanned
      /\ \A j \in DOMAIN plan : j # i => plan'[j] = plan[j]
    BY <1>1 DEF Turn
<1>4. TypeInv /\ OrderOK /\ LedgerOK /\ FitsOK /\ ServerFits
    BY DEF FitInv
<1>5. \A h \in groups : \E k \in groups' : k.disks = h.disks /\ k.level = h.level /\ k.span = h.span
    BY <1>2
<1>6. founded.disks = A /\ founded.level = pending[i].level /\ founded.span = s.span
        /\ founded.used = pending[i].size
    BY DEF NewGroup
<1>7. Members(A) = {}
    <2>1. \A j \in Members(A) : \E x \in Arrays : x.disks = A
        BY <1>4, MembersHaveArrays
    <2> QED BY <1>2, <2>1
<1>8. \A h \in groups : h.disks # A
    <2> SUFFICES ASSUME NEW h \in groups, h.disks = A PROVE FALSE
        OBVIOUS
    <2>1. PICK x \in Arrays : x.disks = A
        <3>1. [disks |-> h.disks, level |-> h.level, span |-> h.span] \in Arrays
            BY DEF Arrays
        <3> QED BY <3>1
    <2> QED BY <1>2, <2>1
<1>9. \A k \in DOMAIN volumes : volumes[k].disks # A
    <2> SUFFICES ASSUME NEW k \in DOMAIN volumes, volumes[k].disks = A PROVE FALSE
        OBVIOUS
    <2>1. PICK x \in Arrays : x.disks = A
        <3>1. [disks |-> volumes[k].disks, level |-> volumes[k].level, span |-> volumes[k].span] \in Arrays
            BY DEF Arrays
        <3> QED BY <3>1
    <2> QED BY <1>2, <2>1
<1>10. /\ \A disks : disks # A => (MaxFounded(disks)' <=> MaxFounded(disks))
       /\ pending[i].share /\ ~ MaxFounded(A)' => ~ AutoScale(pending[i])
    <2>1. \A j \in DOMAIN plan : j # i => (plan'[j].kind = "own" <=> plan[j].kind = "own")
        BY <1>3
    <2>2. \A j \in DOMAIN plan : plan[j].kind = "own" => plan'[j] = plan[j]
        BY <1>3 DEF Unplanned
    <2>3. plan[i].kind # "own"
        BY <1>3 DEF Unplanned
    <2>4. ASSUME NEW disks, disks # A PROVE MaxFounded(disks)' <=> MaxFounded(disks)
        <3>1. \A j \in DOMAIN plan :
                plan'[j].kind = "own" /\ plan'[j].disks = disks
                    <=> plan[j].kind = "own" /\ plan[j].disks = disks
            BY <1>1, <1>3, <2>1, <2>3, <2>4
        <3> QED BY <1>3, <3>1 DEF MaxFounded, AutoScale
    <2>5. pending[i].share /\ AutoScale(pending[i]) => MaxFounded(A)'
        BY <1>1, <1>2, <1>3 DEF MaxFounded, AutoScale
    <2> QED BY <2>4, <2>5
<1>11. Members(A)' = {i} /\ \A disks : disks # A => Members(disks)' = Members(disks)
    <2> HIDE DEF i, A
    <2> QED BY <1>1, <1>7, TurnAddsMember DEF i
<1>12. ASSUME ~ AutoScale(pending[i])
       PROVE  pending[i].size = Taken(A, {i}, CapacityOf(founded))
    <2>1. pending[i].size \in Nat
        BY <1>2, <1>12 DEF ResultInv, DataOK, AutoScale
    <2>2. Old(A) = 0
        <3>1. {k \in DOMAIN volumes : volumes[k].for = 0 /\ volumes[k].disks = A} = {}
            BY <1>9
        <3> QED BY <3>1, SumOfNone DEF Old
    <2>3. TotalSize(pending, {i}) = pending[i].size + TotalSize(pending, {})
        <3>1. {i} \ {i} = {} /\ IsFiniteSet({i}) /\ \A k \in {i} : pending[k].size \in Nat
            BY <2>1, FS_Singleton
        <3> QED BY <3>1, SumTakesOut
    <2>4. Taken(A, {i}, CapacityOf(founded)) = Old(A) + TotalSize(pending, {i})
        BY <1>12 DEF Taken
    <2> QED BY <2>1, <2>2, <2>3, <2>4, SumOfNone
<1> HIDE DEF i, A, founded
<1>13. LedgerOK'
    <2>1. \A h, k \in groups' : h.disks = k.disks => h = k
        <3>1. \A h, k \in groups : h.disks = k.disks => h = k
            BY <1>4 DEF LedgerOK
        <3> QED BY <1>2, <1>6, <1>8, <3>1
    <2>2. ASSUME NEW h \in groups', ~ MaxFounded(h.disks)'
          PROVE  h.used = Taken(h.disks, Members(h.disks), CapacityOf(h))'
        <3>1. Taken(h.disks, Members(h.disks), CapacityOf(h))'
                = Taken(h.disks, Members(h.disks)', CapacityOf(h))
            BY <1>3, TakenNow
        <3>2. CASE h \in groups
            <4>1. ~ MaxFounded(h.disks) /\ h.disks # A
                BY <1>8, <1>10, <2>2, <3>2
            <4>2. h.used = Taken(h.disks, Members(h.disks), CapacityOf(h))
                BY <1>4, <3>2, <4>1 DEF LedgerOK
            <4> QED BY <1>11, <3>1, <4>1, <4>2
        <3>3. CASE h \notin groups
            <4>1. h = founded /\ pending[i].share
                BY <1>2, <3>3
            <4>2. h.disks = A /\ h.used = pending[i].size
                BY <1>6, <4>1
            <4>3. ~ AutoScale(pending[i])
                BY <1>10, <2>2, <4>1, <4>2
            <4> QED BY <1>11, <1>12, <3>1, <4>1, <4>2, <4>3
        <3> QED BY <3>2, <3>3
    <2> QED BY <2>1, <2>2 DEF LedgerOK
<1>14. OwnFits(i)'
    <2>1. plan'[i].group = A /\ plan'[i].disks = A /\ plan'[i].span = s.span
        BY <1>1, <1>3
    <2>2. \A j \in Members(A)' : j = i \/ Precedes(i, j)'
        BY <1>11
    <2>3. Least(pending[i])' = Least(pending[i])
        BY <1>3 DEF Least
    <2> QED BY <1>2, <1>3, <2>1, <2>2, <2>3 DEF OwnFits
<1>15. FitsOK'
    <2>1. \A j \in DOMAIN plan : j # i =>
            /\ plan'[j].kind = "own" => OwnFits(j)'
            /\ plan'[j].kind = "join" => JoinFits(j)'
        BY <1>1, <1>4, <1>5, OthersStillFit DEF i
    <2>2. plan'[i].kind = "own"
        BY <1>1, <1>3
    <2> QED BY <1>3, <1>14, <2>1, <2>2 DEF FitsOK
<1>16. OrderOK'
    BY <1>1, <1>4, TurnKeepsOrder
<1>17. ServerFits' /\ PlansFit'
    BY <1>1, <1>2, <1>4, TurnKeepsServer
<1> QED BY <1>13, <1>15, <1>16, <1>17

----------------------------------------------------------------------------
(* FitInv: the steps of the creation.                                       *)

\* The array a volume joins is the one the server finds by the drive named.
LEMMA HomeOfJoin ==
    ASSUME PlanInv, ResultInv, NEW i \in DOMAIN plan, NEW g \in groups,
           plan[i].disks \subseteq g.disks, plan[i].disks # {}
    PROVE  /\ Home(i) = {k \in DOMAIN volumes : volumes[k].disks = g.disks}
           /\ \A k \in Home(i) : volumes[k].level = g.level /\ volumes[k].span = g.span
<1>1. PICK x \in Arrays : x.disks = g.disks /\ x.level = g.level /\ x.span = g.span
    <2>1. [disks |-> g.disks, level |-> g.level, span |-> g.span] \in Arrays
        BY DEF Arrays
    <2> QED BY <2>1
<1>2. ASSUME NEW k \in Home(i)
      PROVE  /\ k \in DOMAIN volumes /\ volumes[k].disks = g.disks
             /\ volumes[k].level = g.level /\ volumes[k].span = g.span
    <2>1. k \in DOMAIN volumes /\ plan[i].disks \subseteq volumes[k].disks
        BY DEF Home
    <2>2. PICK y \in Arrays : /\ y.disks = volumes[k].disks /\ y.level = volumes[k].level
                              /\ y.span = volumes[k].span
        <3>1. [disks |-> volumes[k].disks, level |-> volumes[k].level, span |-> volumes[k].span] \in Arrays
            BY <2>1 DEF Arrays
        <3> QED BY <3>1
    <2>3. x.disks \cap y.disks # {}
        BY <1>1, <2>1, <2>2
    <2>4. x = y
        BY <2>3 DEF ResultInv, ArraysOK
    <2> QED BY <1>1, <2>1, <2>2, <2>4
<1>3. \A k \in DOMAIN volumes : volumes[k].disks = g.disks => k \in Home(i)
    BY DEF Home
<1> QED BY <1>2, <1>3

\* The volumes made are those before the turn that the loop is at.
LEMMA MadeArePrevious ==
    ASSUME PlanInv, ResultInv, TypeInv, OrderOK, NEW t \in Now("create"), NEW disks
    PROVE  Members(disks) \cap Made = {j \in Members(disks) : Precedes(j, t[2])}
<1>1. stage = "create" /\ t \in todo
    BY DEF Now
<1>2. ASSUME NEW j \in Members(disks), j \in Made
      PROVE  Precedes(j, t[2])
    BY <1>1, <1>2 DEF OrderOK, Members, Made
<1>3. ASSUME NEW j \in Members(disks), Precedes(j, t[2])
      PROVE  j \in Made
    <2>1. \A u \in todo : u[2] # j
        BY <1>3, NowIsFirst
    <2>2. j \in DOMAIN pending
        BY DEF Members, PlanInv, TurnsOK
    <2> QED BY <2>1, <2>2 DEF Made
<1> QED BY <1>2, <1>3

\* The server accepts the volume whose turn it is, but on the group that a
\* sharing MAX volume starts.
LEMMA NowIsAcceptable ==
    ASSUME PlanInv, ResultInv, FitInv, NEW t \in Now("create"), ~ MaxFounded(plan[t[2]].group)
    PROVE  Acceptable(t[2])
<1>1. PICK i : i = t[2]
    OBVIOUS
<1>2. /\ stage = "create" /\ t \in todo /\ i \in DOMAIN plan /\ i \in DOMAIN pending
      /\ plan[i] # Unplanned
    BY <1>1 DEF Now, PlanInv, TurnsOK
<1>3. TypeInv /\ OrderOK /\ FitsOK /\ ServerFits
    BY DEF FitInv
<1>4. plan[i].kind \in {"own", "join"}
    BY <1>2 DEF ResultInv, PlansOK, PlannedRight
<1>5. CASE plan[i].kind = "own"
    <2>1. OwnFits(i)
        BY <1>2, <1>3, <1>5 DEF FitsOK
    <2>2. \A d \in plan[i].disks : drives[d].good
        BY <1>1, <1>2, <1>3, <1>5 DEF ServerFits
    <2>3. Room(i) >= Least(pending[i])
        BY <1>2, <1>3, <1>5, <2>1, RoomIsLeft DEF OwnFits
    <2> QED BY <1>1, <1>5, <2>1, <2>2, <2>3 DEF Acceptable, OwnFits, Least
<1>6. CASE plan[i].kind = "join"
    <2>1. PICK g \in groups :
            /\ plan[i].group = g.disks /\ plan[i].disks \subseteq g.disks /\ plan[i].disks # {}
            /\ \/ \E k \in DOMAIN volumes : volumes[k].for = 0 /\ volumes[k].disks = g.disks
               \/ \E j \in DOMAIN plan : /\ plan[j].kind = "own" /\ plan[j].disks = g.disks
                                         /\ Precedes(j, i)
            /\ ~ MaxFounded(g.disks) =>
                  Taken(g.disks, {j \in Members(g.disks) : Precedes(j, i)}, CapacityOf(g))
                      + Least(pending[i]) <= CapacityOf(g)
        BY <1>2, <1>3, <1>6 DEF FitsOK, JoinFits
    <2>2. \E k \in DOMAIN volumes : volumes[k].disks = g.disks
        <3>1. CASE \E k \in DOMAIN volumes : volumes[k].for = 0 /\ volumes[k].disks = g.disks
            BY <3>1
        <3>2. CASE \E j \in DOMAIN plan : /\ plan[j].kind = "own" /\ plan[j].disks = g.disks
                                          /\ Precedes(j, i)
            <4>1. PICK j \in DOMAIN plan : /\ plan[j].kind = "own" /\ plan[j].disks = g.disks
                                           /\ Precedes(j, i)
                BY <3>2
            <4>2. \A u \in todo : u[2] # j
                BY <1>1, <1>3, <4>1, NowIsFirst
            <4>3. j \in DOMAIN pending /\ j # 0
                BY DEF PlanInv, TurnsOK
            <4>4. PICK k \in DOMAIN volumes : volumes[k].for = j
                BY <1>2, <4>2, <4>3 DEF ResultInv, MadeOK
            <4>5. volumes[k].disks = plan[j].group
                BY <1>3, <4>3, <4>4 DEF ServerFits
            <4>6. plan[j].group = plan[j].disks
                BY <1>3, <4>1 DEF FitsOK, OwnFits
            <4> QED BY <4>1, <4>4, <4>5, <4>6
        <3> QED BY <2>1, <3>1, <3>2
    <2>3. /\ Home(i) = {k \in DOMAIN volumes : volumes[k].disks = g.disks}
          /\ \A k \in Home(i) : volumes[k].level = g.level /\ volumes[k].span = g.span
        BY <1>2, <2>1, HomeOfJoin
    <2>4. Home(i) # {}
        BY <2>2, <2>3
    <2>5. PICK k \in Home(i) :
            /\ Room(i) = ArrayCapacity(drives, volumes[k].level, volumes[k].span, volumes[k].disks)
                            - TotalSize(volumes, Home(i))
            /\ Room(i) \in Int
        BY <1>2, <1>3, <1>6, <2>4, RoomIsLeft
    <2>6. Room(i) = CapacityOf(g) - TotalSize(volumes, Home(i))
        BY <2>3, <2>5 DEF CapacityOf
    <2>7. PICK x \in Arrays : x.disks = g.disks /\ x.level = g.level /\ x.span = g.span
        <3>1. [disks |-> g.disks, level |-> g.level, span |-> g.span] \in Arrays
            BY DEF Arrays
        <3> QED BY <3>1
    <2>8. ~ MaxFounded(g.disks)
        BY <1>1, <2>1
    <2>9. TotalSize(volumes, Home(i))
            = Taken(g.disks, {j \in Members(g.disks) : Precedes(j, i)}, CapacityOf(g))
        <3>1. TotalSize(volumes, {l \in DOMAIN volumes : volumes[l].disks = x.disks})
                = Taken(x.disks, Members(x.disks) \cap Made, CapacityOf(x))
            BY <1>2, <1>3, <2>7, <2>8 DEF ServerFits
        <3>2. Members(x.disks) \cap Made = {j \in Members(x.disks) : Precedes(j, i)}
            BY <1>1, <1>3, MadeArePrevious
        <3>3. CapacityOf(x) = CapacityOf(g)
            BY <2>7 DEF CapacityOf
        <3> QED BY <2>3, <2>7, <3>1, <3>2, <3>3
    <2>10. Room(i) >= Least(pending[i])
        <3>1. PICK sum \in Nat : sum = TotalSize(volumes, Home(i))
            <4>1. Home(i) \subseteq DOMAIN volumes
                BY DEF Home
            <4> QED BY <1>3, <4>1, VolumesHaveSizes
        <3>2. PICK capacity \in Int : capacity = CapacityOf(g)
            BY GroupHasRoom
        <3>3. PICK least \in Nat : least = Least(pending[i])
            <4>1. pending[i].size \in Nat \cup {MAX_CAPACITY}
                BY <1>2 DEF ResultInv, DataOK
            <4> QED BY <4>1 DEF Least, AutoScale
        <3>4. sum + least <= capacity
            BY <2>1, <2>8, <2>9, <3>1, <3>2, <3>3
        <3>5. capacity - sum >= least
            BY <3>1, <3>2, <3>3, <3>4
        <3> QED BY <2>6, <3>1, <3>2, <3>3, <3>5
    <2> QED BY <1>1, <1>6, <2>4, <2>10 DEF Acceptable, Least
<1> QED BY <1>4, <1>5, <1>6

\* A step that changes the stage only.
LEMMA QuietKeepsFit ==
    ASSUME FitInv, UNCHANGED <<drives, volumes, pending, plan, groups>>
    PROVE  /\ LedgerOK' /\ FitsOK'
           /\ \A disks : MaxFounded(disks)' <=> MaxFounded(disks)
<1>1. TypeInv /\ OrderOK /\ LedgerOK /\ FitsOK /\ ServerFits
    BY DEF FitInv
<1>2. \A disks : MaxFounded(disks)' <=> MaxFounded(disks)
    BY DEF MaxFounded, AutoScale
<1>3. \A i, j : Precedes(i, j)' <=> Precedes(i, j)
    BY OrderStays
<1>4. \A disks : Members(disks)' = Members(disks)
    BY DEF Members
<1>5. LedgerOK'
    <2> SUFFICES ASSUME NEW g \in groups, ~ MaxFounded(g.disks)
                 PROVE  g.used = Taken(g.disks, Members(g.disks), CapacityOf(g))'
        BY <1>1, <1>2 DEF LedgerOK
    <2>1. g.used = Taken(g.disks, Members(g.disks), CapacityOf(g))
        BY <1>1 DEF LedgerOK
    <2> QED BY <1>4, <2>1, TakenNow
<1>6. FitsOK'
    <2> SUFFICES ASSUME NEW i \in DOMAIN plan
                 PROVE  /\ plan[i].kind = "own" => OwnFits(i)'
                        /\ plan[i].kind = "join" => JoinFits(i)'
        BY DEF FitsOK
    <2>1. ASSUME plan[i].kind = "own" PROVE OwnFits(i)'
        <3>1. OwnFits(i)
            BY <1>1, <2>1 DEF FitsOK
        <3> QED BY <1>3, <1>4, <3>1 DEF OwnFits, Least, AutoScale
    <2>2. ASSUME plan[i].kind = "join" PROVE JoinFits(i)'
        <3>1. PICK g \in groups :
                /\ plan[i].group = g.disks /\ plan[i].disks \subseteq g.disks /\ plan[i].disks # {}
                /\ \/ \E k \in DOMAIN volumes : volumes[k].for = 0 /\ volumes[k].disks = g.disks
                   \/ \E j \in DOMAIN plan : /\ plan[j].kind = "own" /\ plan[j].disks = g.disks
                                             /\ Precedes(j, i)
                /\ ~ MaxFounded(g.disks) =>
                      Taken(g.disks, {j \in Members(g.disks) : Precedes(j, i)}, CapacityOf(g))
                          + Least(pending[i]) <= CapacityOf(g)
            BY <1>1, <2>2 DEF FitsOK, JoinFits
        <3>2. Taken(g.disks, {j \in Members(g.disks) : Precedes(j, i)}, CapacityOf(g))'
                = Taken(g.disks, {j \in Members(g.disks) : Precedes(j, i)}, CapacityOf(g))
            BY <1>4, TakenBefore
        <3>3. CapacityOf(g)' = CapacityOf(g) /\ Least(pending[i])' = Least(pending[i])
            BY DEF CapacityOf, Least, AutoScale
        <3> QED BY <1>2, <1>3, <3>1, <3>2, <3>3 DEF JoinFits
    <2> QED BY <2>1, <2>2
<1> QED BY <1>2, <1>5, <1>6

\* The end of the planning, and a step that ends all: the server is untouched.
LEMMA StagesKeepFit ==
    ASSUME PlanInv, ResultInv, FitInv,
           PlanFails \/ PlanDone \/ CreateRefused \/ CreateDone \/ UNCHANGED vars
    PROVE  OrderOK' /\ LedgerOK' /\ FitsOK' /\ ServerFits' /\ PlansFit'
<1>1. UNCHANGED <<drives, volumes, pending, plan, groups>>
    BY DEF PlanFails, PlanDone, CreateRefused, CreateDone, vars
<1>2. /\ LedgerOK' /\ FitsOK'
      /\ \A disks : MaxFounded(disks)' <=> MaxFounded(disks)
    BY <1>1, QuietKeepsFit
<1>3. TypeInv /\ OrderOK /\ LedgerOK /\ FitsOK /\ ServerFits /\ PlansFit
    BY DEF FitInv
<1>4. ASSUME stage' \notin {"plan", "create"}
      PROVE  OrderOK' /\ ServerFits'
    BY <1>1, <1>3, <1>4 DEF OrderOK, ServerFits
<1>5. CASE PlanFails
    <2>1. stage' = "failed"
        BY <1>5 DEF PlanFails
    <2> QED BY <1>2, <1>4, <2>1 DEF PlansFit
<1>6. CASE CreateDone
    <2>1. stage' = "done"
        BY <1>6 DEF CreateDone
    <2> QED BY <1>2, <1>4, <2>1 DEF PlansFit
<1>7. CASE CreateRefused
    <2>1. PICK t \in Now("create") : ~ Acceptable(t[2]) /\ stage' = "refused" /\ todo' = todo
        BY <1>7 DEF CreateRefused
    <2>2. MaxFounded(plan[t[2]].group)
        BY <2>1, NowIsAcceptable
    <2>3. t \in todo /\ t[2] \in DOMAIN plan /\ \A u \in todo : ~ Earlier(u, t)
        BY DEF Now, PlanInv, TurnsOK
    <2>4. PICK i \in DOMAIN plan : /\ plan[i].kind = "own" /\ plan[i].disks = plan[t[2]].group
                                   /\ pending[i].share /\ AutoScale(pending[i])
        BY <2>2 DEF MaxFounded
    <2>5. PlansFit'
        <3>1. \E u \in todo : u[2] = t[2] /\ \A w \in todo : ~ Earlier(w, u)
            BY <2>3
        <3> QED BY <1>1, <2>1, <2>3, <2>4, <3>1 DEF PlansFit, AutoScale, Earlier
    <2> QED BY <1>2, <1>4, <2>1, <2>5
<1>8. CASE UNCHANGED vars
    <2>1. UNCHANGED <<stage, todo>>
        BY <1>8 DEF vars
    <2>2. \A i, j : Precedes(i, j)' <=> Precedes(i, j)
        BY <1>1, OrderStays
    <2>3. OrderOK'
        BY <1>1, <1>3, <2>1, <2>2 DEF OrderOK
    <2>4. Arrays' = Arrays /\ Made' = Made /\ \A disks : Members(disks)' = Members(disks)
        BY <1>1, <2>1 DEF Arrays, Made, Members
    <2>5. ASSUME stage = "create", NEW x \in Arrays, ~ MaxFounded(x.disks)
          PROVE  TotalSize(volumes, {k \in DOMAIN volumes : volumes[k].disks = x.disks})'
                    = Taken(x.disks, Members(x.disks) \cap Made, CapacityOf(x))'
        <3>1. TotalSize(volumes, {k \in DOMAIN volumes : volumes[k].disks = x.disks})
                    = Taken(x.disks, Members(x.disks) \cap Made, CapacityOf(x))
            BY <1>3, <2>5 DEF ServerFits
        <3>2. (Members(x.disks) \cap Made)' = Members(x.disks) \cap Made
            BY <2>4
        <3>3. Old(x.disks)' = Old(x.disks) /\ CapacityOf(x)' = CapacityOf(x)
            BY <1>1, PlanningFrame
        <3>4. Taken(x.disks, Members(x.disks) \cap Made, CapacityOf(x))'
                = Taken(x.disks, Members(x.disks) \cap Made, CapacityOf(x))
            BY <1>1, <3>2, <3>3 DEF Taken
        <3> QED BY <1>1, <3>1, <3>4
    <2>6. ServerFits'
        BY <1>1, <1>2, <1>3, <2>1, <2>4, <2>5 DEF ServerFits
    <2>7. PlansFit'
        BY <1>1, <1>3, <2>1 DEF PlansFit, AutoScale, Earlier
    <2> QED BY <1>2, <2>3, <2>6, <2>7
<1>9. CASE PlanDone
    <2>1. stage = "plan" /\ stage' = "create" /\ todo' = ordered_pending_volumes
        BY <1>9 DEF PlanDone
    <2>2. DOMAIN plan = DOMAIN pending /\ todo' \subseteq (1..7) \X DOMAIN pending
        BY <2>1 DEF PlanInv, TurnsOK, ordered_pending_volumes
    <2>3. \A i \in DOMAIN pending : \E t \in todo' : t[2] = i
        BY <2>1, TurnsAreOnce
    <2>4. OrderOK'
        BY <1>1, <2>1, <2>2, <2>3 DEF OrderOK
    <2>5. Made' = {}
        BY <1>1, <2>3 DEF Made
    <2>6. \A k \in DOMAIN volumes : volumes[k].for = 0
        BY <2>1 DEF PlanInv, ServerOK
    <2>7. \A t \in todo' : plan[t[2]].kind = "own" => \A d \in plan[t[2]].disks : drives[d].good
        <3>1. \A t \in todo' : t[2] \in DOMAIN plan
            BY <2>2
        <3> QED BY <1>3, <2>1, <3>1 DEF ServerFits
    <2>8. ASSUME NEW x \in Arrays
          PROVE  TotalSize(volumes, {k \in DOMAIN volumes : volumes[k].disks = x.disks})
                    = Taken(x.disks, Members(x.disks) \cap Made, CapacityOf(x))'
        <3>1. {k \in DOMAIN volumes : volumes[k].disks = x.disks}
                = {k \in DOMAIN volumes : volumes[k].for = 0 /\ volumes[k].disks = x.disks}
            BY <2>6
        <3>2. (Members(x.disks) \cap Made)' = {}
            BY <2>5
        <3>3. Old(x.disks)' = Old(x.disks)
            BY <1>1, PlanningFrame
        <3>4. Taken(x.disks, Members(x.disks) \cap Made, CapacityOf(x))'
                = Old(x.disks) + TotalSize(pending, {})
            BY <1>1, <3>2, <3>3 DEF Taken
        <3>5. Old(x.disks) \in Nat
            <4>1. {k \in DOMAIN volumes : volumes[k].for = 0 /\ volumes[k].disks = x.disks}
                    \subseteq DOMAIN volumes
                OBVIOUS
            <4> QED BY <1>3, <4>1, VolumesHaveSizes DEF Old
        <3>6. Old(x.disks) = TotalSize(volumes, {k \in DOMAIN volumes : volumes[k].disks = x.disks})
            BY <3>1 DEF Old
        <3> QED BY <3>4, <3>5, <3>6, SumOfNone
    <2>9. Arrays' = Arrays
        BY <1>1 DEF Arrays
    <2>10. ServerFits'
        BY <1>1, <2>1, <2>6, <2>7, <2>8, <2>9 DEF ServerFits
    <2>11. PlansFit'
        BY <2>1 DEF PlansFit
    <2> QED BY <1>2, <2>4, <2>10, <2>11
<1> QED BY <1>5, <1>6, <1>7, <1>8, <1>9

\* The new volume goes to the array of its plan, and the server counts its
\* room as the plan does.
LEMMA NewVolumeFits ==
    ASSUME PlanInv, ResultInv, FitInv, NEW t, NEW new, NEW n, Creates(t, new, n)
    PROVE  /\ new.for = t[2] /\ new.disks = plan[t[2]].group
           /\ t[2] \in Members(new.disks) /\ t[2] \notin Made
           /\ \E x \in Arrays :
                /\ x.disks = new.disks /\ x.level = new.level /\ x.span = new.span
                /\ CapacityOf(x) \in Int
                /\ Room(t[2]) = CapacityOf(x) -
                        TotalSize(volumes, {k \in DOMAIN volumes : volumes[k].disks = x.disks})
<1>1. PICK i : i = t[2]
    OBVIOUS
<1>2. /\ t \in Now("create") /\ t \in todo /\ stage = "create"
      /\ i \in DOMAIN plan /\ i \in DOMAIN pending /\ i # 0 /\ plan[i] # Unplanned
      /\ Acceptable(i) /\ new = VolumeFor(i)
    BY <1>1 DEF Creates, PlanInv, TurnsOK
<1>3. TypeInv /\ OrderOK /\ FitsOK /\ ServerFits
    BY DEF FitInv
<1>4. new.for = i
    BY <1>2 DEF VolumeFor
<1>5. i \notin Made
    BY <1>1, <1>2 DEF Made
<1>6. PICK x \in Arrays : x.disks = new.disks /\ x.level = new.level /\ x.span = new.span
    <2>1. [disks |-> new.disks, level |-> new.level, span |-> new.span] \in Arrays
        BY <1>2, NewVolumesAreRight
    <2> QED BY <2>1
<1>7. CapacityOf(x) \in Int
    <2>1. /\ x.disks \subseteq Disks /\ x.disks # {}
          /\ x.level \in DOMAIN RAID_SETTINGS /\ x.span \in Spans(x.level)
        BY DEF ResultInv, ArraysOK
    <2>2. IsFiniteSet(x.disks) /\ \A d \in x.disks : drives[d].capacity \in Nat
        BY <2>1, HardwareAssumption, FS_Subset DEF ResultInv, DataOK
    <2> QED BY <2>1, <2>2, CapacityIsInt DEF CapacityOf
<1> DEFINE K == {k \in DOMAIN volumes : volumes[k].disks = x.disks}
<1>8. new.disks = plan[i].group /\ Room(i) = CapacityOf(x) - TotalSize(volumes, K)
    <2>1. plan[i].kind \in {"own", "join"}
        BY <1>2 DEF Acceptable
    <2>2. CASE plan[i].kind = "own"
        <3>1. OwnFits(i)
            BY <1>2, <1>3, <2>2 DEF FitsOK
        <3>2. new.disks = plan[i].disks /\ new.level = pending[i].level /\ new.span = plan[i].span
            BY <1>2, <2>2 DEF VolumeFor
        <3>3. Room(i) = CapacityOf(x)
            BY <1>2, <1>3, <1>6, <2>2, <3>2, RoomIsLeft DEF CapacityOf
        <3>4. K = {}
            <4> SUFFICES ASSUME NEW k \in DOMAIN volumes, volumes[k].disks = plan[i].disks
                         PROVE  FALSE
                BY <1>6, <3>2
            <4>1. plan[i].disks # {}
                BY <1>6, <3>2 DEF ResultInv, ArraysOK
            <4>2. volumes[k].for # 0
                BY <1>2, <2>2, <4>1 DEF PlanInv, DisksUsedOnce
            <4>3. PICK j : j = volumes[k].for
                OBVIOUS
            <4>4. j \in DOMAIN plan /\ plan[j].group = plan[i].disks /\ plan[j] # Unplanned
                BY <1>2, <1>3, <4>2, <4>3 DEF ServerFits, PlanInv, TurnsOK
            <4>5. \A u \in todo : u[2] # j
                BY <1>2, <4>3 DEF ResultInv, MadeOK
            <4>6. j \in Members(plan[i].disks) /\ j # i
                BY <1>1, <1>2, <4>4, <4>5 DEF Members
            <4>7. Precedes(i, j)
                BY <3>1, <4>6 DEF OwnFits
            <4>8. Precedes(j, i)
                BY <1>1, <1>2, <1>3, <4>4, <4>5 DEF OrderOK
            <4> QED BY <4>7, <4>8, PrecedesIsStrict
        <3> QED BY <1>7, <3>1, <3>2, <3>3, <3>4, SumOfNone DEF OwnFits
    <2>3. CASE plan[i].kind = "join"
        <3>1. JoinFits(i)
            BY <1>2, <1>3, <2>3 DEF FitsOK
        <3>2. PICK g \in groups :
                plan[i].group = g.disks /\ plan[i].disks \subseteq g.disks /\ plan[i].disks # {}
            BY <3>1 DEF JoinFits
        <3>3. Home(i) = {k \in DOMAIN volumes : volumes[k].disks = g.disks}
            BY <1>2, <3>2, HomeOfJoin
        <3>4. Home(i) # {}
            BY <1>2, <2>3 DEF Acceptable
        <3>5. PICK k \in Home(i) :
                /\ k = CHOOSE m \in Home(i) : TRUE
                /\ Room(i) = ArrayCapacity(drives, volumes[k].level, volumes[k].span, volumes[k].disks)
                                - TotalSize(volumes, Home(i))
            BY <1>2, <1>3, <2>3, <3>4, RoomIsLeft
        <3>6. new.disks = volumes[k].disks /\ new.level = volumes[k].level /\ new.span = volumes[k].span
            BY <1>2, <2>3, <3>5 DEF VolumeFor
        <3>7. new.disks = g.disks
            BY <3>3, <3>6
        <3>8. K = Home(i)
            BY <1>6, <3>3, <3>7
        <3> QED BY <1>6, <3>2, <3>5, <3>6, <3>7, <3>8 DEF CapacityOf
    <2> QED BY <2>1, <2>2, <2>3
<1>9. i \in Members(new.disks)
    BY <1>2, <1>8 DEF Members
<1> QED BY <1>1, <1>4, <1>5, <1>6, <1>7, <1>8, <1>9

\* What a creation changes: one volume more, and drives that are no longer
\* good.
LEMMA CreationFrame ==
    ASSUME PlanInv, ResultInv, FitInv, NEW t, NEW new, NEW n, Creates(t, new, n)
    PROVE  /\ Arrays' \subseteq Arrays
           /\ \A x \in Arrays : CapacityOf(x)' = CapacityOf(x)
           /\ \A disks : Old(disks)' = Old(disks) /\ Members(disks)' = Members(disks)
           /\ \A disks : MaxFounded(disks)' <=> MaxFounded(disks)
           /\ \A i, j : Precedes(i, j)' <=> Precedes(i, j)
           /\ Made' = Made \cup {t[2]}
<1>1. /\ DOMAIN volumes' = DOMAIN volumes \cup {n} /\ n \notin DOMAIN volumes
      /\ \A k \in DOMAIN volumes : volumes'[k] = volumes[k]
      /\ volumes'[n] = new
      /\ \A d \in Disks : drives'[d].capacity = drives[d].capacity
      /\ UNCHANGED <<pending, plan, groups>> /\ todo' = todo \ {t} /\ t \in todo
      /\ t[2] \in DOMAIN pending /\ t[2] # 0 /\ stage = "create"
    BY DEF Creates
<1>2. new.for = t[2] /\ \E x \in Arrays : x.disks = new.disks /\ x.level = new.level /\ x.span = new.span
    BY NewVolumeFits
<1>3. Arrays' \subseteq Arrays
    <2> DEFINE V == {[disks |-> volumes[k].disks, level |-> volumes[k].level,
                      span |-> volumes[k].span] : k \in DOMAIN volumes}
               P == {[disks |-> plan[j].disks, level |-> pending[j].level, span |-> plan[j].span]
                        : j \in {m \in DOMAIN plan : plan[m].kind = "own"}}
               G == {[disks |-> g.disks, level |-> g.level, span |-> g.span] : g \in groups}
    <2>1. Arrays = V \cup P \cup G
        BY DEF Arrays
    <2>2. Arrays' = V' \cup P' \cup G'
        BY DEF Arrays
    <2>3. P' = P /\ G' = G
        BY <1>1
    <2>4. V' \subseteq V \cup {[disks |-> new.disks, level |-> new.level, span |-> new.span]}
        BY <1>1
    <2>5. [disks |-> new.disks, level |-> new.level, span |-> new.span] \in Arrays
        <3>1. Acceptable(t[2]) /\ new = VolumeFor(t[2]) /\ t[2] \in DOMAIN plan
            BY DEF Creates
        <3> QED BY <3>1, NewVolumesAreRight
    <2> HIDE DEF V, P, G
    <2> QED BY <2>1, <2>2, <2>3, <2>4, <2>5
<1>4. ASSUME NEW x \in Arrays PROVE CapacityOf(x)' = CapacityOf(x)
    <2>1. x.disks \subseteq Disks
        BY DEF ResultInv, ArraysOK
    <2>2. \A d \in x.disks : drives'[d].capacity = drives[d].capacity
        BY <1>1, <2>1
    <2>3. ArrayCapacity(drives', x.level, x.span, x.disks) = ArrayCapacity(drives, x.level, x.span, x.disks)
        BY <2>2, CapacityOfSame
    <2> QED BY <2>3 DEF CapacityOf
<1>5. ASSUME NEW disks PROVE Old(disks)' = Old(disks)
    <2> DEFINE K == {k \in DOMAIN volumes : volumes[k].for = 0 /\ volumes[k].disks = disks}
    <2>1. K' = K
        BY <1>1, <1>2
    <2>2. K \subseteq DOMAIN volumes /\ \A k \in K : volumes'[k].size = volumes[k].size
        BY <1>1
    <2>3. PICK L : L = K
        OBVIOUS
    <2>4. IsFiniteSet(L)
        BY <2>2, <2>3, VolumesHaveSizes DEF FitInv
    <2>5. TotalSize(volumes', L) = TotalSize(volumes, L)
        BY <2>2, <2>3, <2>4, SumOfSame
    <2>6. Old(disks)' = TotalSize(volumes', K') /\ Old(disks) = TotalSize(volumes, K)
        BY DEF Old
    <2> HIDE DEF K
    <2> QED BY <2>1, <2>3, <2>5, <2>6
<1>6. \A disks : Members(disks)' = Members(disks)
    BY <1>1 DEF Members
<1>7. \A disks : MaxFounded(disks)' <=> MaxFounded(disks)
    BY <1>1 DEF MaxFounded, AutoScale
<1>8. \A i, j : Precedes(i, j)' <=> Precedes(i, j)
    BY <1>1, OrderStays
<1>9. Made' = Made \cup {t[2]}
    <2>1. \A u \in todo : u[2] = t[2] => u = t
        BY <1>1 DEF ResultInv, MadeOK
    <2> QED BY <1>1, <2>1 DEF Made
<1> QED BY <1>3, <1>4, <1>5, <1>6, <1>7, <1>8, <1>9

\* A volume that is created takes of its array what the plan says.
LEMMA CreateKeepsFit ==
    ASSUME PlanInv, ResultInv, FitInv, NEW t, NEW new, NEW n, Creates(t, new, n)
    PROVE  OrderOK' /\ LedgerOK' /\ FitsOK' /\ ServerFits' /\ PlansFit'
<1>1. PICK i : i = t[2]
    OBVIOUS
<1>2. /\ t \in Now("create") /\ t \in todo /\ stage = "create" /\ stage' = "create"
      /\ i \in DOMAIN plan /\ i \in DOMAIN pending /\ i # 0
      /\ Acceptable(i) /\ new = VolumeFor(i)
      /\ DOMAIN volumes' = DOMAIN volumes \cup {n} /\ n \notin DOMAIN volumes
      /\ \A k \in DOMAIN volumes : volumes'[k] = volumes[k]
      /\ volumes'[n] = new
      /\ \A d \in Disks : drives[d].good /\ (plan[i].kind = "own" => d \notin plan[i].disks)
                              => drives'[d].good
      /\ todo' = todo \ {t} /\ UNCHANGED <<pending, plan, groups>>
    BY <1>1 DEF Creates
<1>3. TypeInv /\ OrderOK /\ LedgerOK /\ FitsOK /\ ServerFits
    BY DEF FitInv
<1>4. /\ Arrays' \subseteq Arrays
      /\ \A x \in Arrays : CapacityOf(x)' = CapacityOf(x)
      /\ \A disks : Old(disks)' = Old(disks) /\ Members(disks)' = Members(disks)
      /\ \A disks : MaxFounded(disks)' <=> MaxFounded(disks)
      /\ \A j, k : Precedes(j, k)' <=> Precedes(j, k)
      /\ Made' = Made \cup {i}
    BY <1>1, CreationFrame
<1>5. /\ new.for = i /\ new.disks = plan[i].group
      /\ i \in Members(new.disks) /\ i \notin Made
    BY <1>1, NewVolumeFits
<1>6. PICK home \in Arrays :
        /\ home.disks = new.disks /\ home.level = new.level /\ home.span = new.span
        /\ CapacityOf(home) \in Int
        /\ Room(t[2]) = CapacityOf(home) -
                TotalSize(volumes, {k \in DOMAIN volumes : volumes[k].disks = home.disks})
    BY NewVolumeFits
<1>7. \A disks, S, capacity : Taken(disks, S, capacity)' = Taken(disks, S, capacity)
    BY <1>2, <1>4 DEF Taken, AutoScale
<1>8. \A g \in groups : CapacityOf(g)' = CapacityOf(g)
    <2> SUFFICES ASSUME NEW g \in groups PROVE CapacityOf(g)' = CapacityOf(g)
        OBVIOUS
    <2>1. PICK x \in Arrays : x.disks = g.disks /\ x.level = g.level /\ x.span = g.span
        <3>1. [disks |-> g.disks, level |-> g.level, span |-> g.span] \in Arrays
            BY DEF Arrays
        <3> QED BY <3>1
    <2> QED BY <1>4, <2>1 DEF CapacityOf
<1>9. OrderOK'
    <2> SUFFICES ASSUME NEW j \in DOMAIN plan, \A u \in todo' : u[2] # j, NEW u \in todo'
                 PROVE  Precedes(j, u[2])
        BY <1>2, <1>4 DEF OrderOK
    <2>1. CASE j = i
        BY <1>1, <1>2, <1>3, <2>1, NowIsFirst
    <2>2. CASE j # i
        BY <1>1, <1>2, <1>3, <2>2 DEF OrderOK
    <2> QED BY <2>1, <2>2
<1>10. LedgerOK'
    <2> SUFFICES ASSUME NEW g \in groups, ~ MaxFounded(g.disks)
                 PROVE  g.used = Taken(g.disks, Members(g.disks), CapacityOf(g))'
        BY <1>2, <1>3, <1>4 DEF LedgerOK
    <2>1. g.used = Taken(g.disks, Members(g.disks), CapacityOf(g))
        BY <1>3 DEF LedgerOK
    <2>2. Taken(g.disks, Members(g.disks), CapacityOf(g))'
            = Taken(g.disks, Members(g.disks), CapacityOf(g))
        BY <1>2, <1>4, <1>8 DEF Taken, AutoScale
    <2> QED BY <2>1, <2>2
<1>11. FitsOK'
    <2> SUFFICES ASSUME NEW j \in DOMAIN plan
                 PROVE  /\ plan[j].kind = "own" => OwnFits(j)'
                        /\ plan[j].kind = "join" => JoinFits(j)'
        BY <1>2 DEF FitsOK
    <2>1. ASSUME plan[j].kind = "own" PROVE OwnFits(j)'
        <3>1. OwnFits(j)
            BY <1>3, <2>1 DEF FitsOK
        <3>2. PICK x \in Arrays :
                x.disks = plan[j].disks /\ x.level = pending[j].level /\ x.span = plan[j].span
            <4>1. [disks |-> plan[j].disks, level |-> pending[j].level, span |-> plan[j].span] \in Arrays
                BY <2>1 DEF Arrays
            <4> QED BY <4>1
        <3>3. ArrayCapacity(drives', pending[j].level, plan[j].span, plan[j].disks)
                = ArrayCapacity(drives, pending[j].level, plan[j].span, plan[j].disks)
            BY <1>4, <3>2 DEF CapacityOf
        <3>4. Least(pending[j])' = Least(pending[j])
            BY <1>2 DEF Least, AutoScale
        <3> QED BY <1>2, <1>4, <3>1, <3>3, <3>4 DEF OwnFits
    <2>2. ASSUME plan[j].kind = "join" PROVE JoinFits(j)'
        <3>1. PICK g \in groups :
                /\ plan[j].group = g.disks /\ plan[j].disks \subseteq g.disks /\ plan[j].disks # {}
                /\ \/ \E k \in DOMAIN volumes : volumes[k].for = 0 /\ volumes[k].disks = g.disks
                   \/ \E k \in DOMAIN plan : /\ plan[k].kind = "own" /\ plan[k].disks = g.disks
                                             /\ Precedes(k, j)
                /\ ~ MaxFounded(g.disks) =>
                      Taken(g.disks, {k \in Members(g.disks) : Precedes(k, j)}, CapacityOf(g))
                          + Least(pending[j]) <= CapacityOf(g)
            BY <1>3, <2>2 DEF FitsOK, JoinFits
        <3>2. {k \in Members(g.disks) : Precedes(k, j)}' = {k \in Members(g.disks) : Precedes(k, j)}
            BY <1>4
        <3>3. Taken(g.disks, {k \in Members(g.disks) : Precedes(k, j)}, CapacityOf(g))'
                = Taken(g.disks, {k \in Members(g.disks) : Precedes(k, j)}, CapacityOf(g))
            BY <1>2, <1>4, <1>8, <3>2 DEF Taken, AutoScale
        <3>4. CapacityOf(g)' = CapacityOf(g) /\ Least(pending[j])' = Least(pending[j])
            BY <1>2, <1>8 DEF Least, AutoScale
        <3>5. \/ \E k \in DOMAIN volumes' : volumes'[k].for = 0 /\ volumes'[k].disks = g.disks
              \/ \E k \in DOMAIN plan' : /\ plan'[k].kind = "own" /\ plan'[k].disks = g.disks
                                         /\ Precedes(k, j)'
            BY <1>2, <1>4, <3>1
        <3> QED BY <1>2, <1>4, <3>1, <3>3, <3>4, <3>5 DEF JoinFits
    <2> QED BY <2>1, <2>2
<1>12. ASSUME NEW y \in Arrays, ~ MaxFounded(y.disks)
       PROVE  TotalSize(volumes', {k \in DOMAIN volumes' : volumes'[k].disks = y.disks})
                = Taken(y.disks, Members(y.disks) \cap (Made \cup {i}), CapacityOf(y))
    <2> DEFINE D == y.disks
               K == {k \in DOMAIN volumes : volumes[k].disks = D}
               S == Members(D) \cap Made
    <2>1. TotalSize(volumes, K) = Taken(D, S, CapacityOf(y))
        BY <1>2, <1>3, <1>12 DEF ServerFits
    <2>2. K \subseteq DOMAIN volumes /\ IsFiniteSet(K)
        BY <1>3, VolumesHaveSizes
    <2>3. TotalSize(volumes', K) = TotalSize(volumes, K)
        <3>1. \A k \in K : volumes'[k].size = volumes[k].size
            BY <1>2
        <3>2. PICK L : L = K
            OBVIOUS
        <3>3. TotalSize(volumes', L) = TotalSize(volumes, L)
            BY <2>2, <3>1, <3>2, SumOfSame
        <3> QED BY <3>2, <3>3
    <2>4. CASE new.disks = D
        <3>1. /\ home.disks = new.disks /\ CapacityOf(home) \in Int
              /\ Room(i) = CapacityOf(home) -
                        TotalSize(volumes, {k \in DOMAIN volumes : volumes[k].disks = home.disks})
            BY <1>1, <1>6
        <3>2. home = y
            <4>1. home.disks \cap y.disks # {}
                BY <2>4, <3>1 DEF ResultInv, ArraysOK
            <4> QED BY <4>1 DEF ResultInv, ArraysOK
        <3>3. PICK capacity \in Int : capacity = CapacityOf(y)
            BY <3>1, <3>2
        <3>4. PICK sum \in Nat : sum = TotalSize(volumes, K)
            BY <1>3, <2>2, VolumesHaveSizes
        <3>5. Room(i) = capacity - sum
            BY <3>1, <3>2, <3>3, <3>4
        <3>6. PICK least \in Nat : least = Least(pending[i])
            <4>1. pending[i].size \in Nat \cup {MAX_CAPACITY}
                BY <1>2 DEF ResultInv, DataOK
            <4> QED BY <4>1 DEF Least, AutoScale
        <3>7. Room(i) >= least
            BY <1>2, <3>6 DEF Acceptable, Least
        <3>8. sum + least <= capacity
            BY <3>3, <3>4, <3>5, <3>6, <3>7
        <3>9. S \subseteq DOMAIN pending /\ i \notin S
            BY <1>5 DEF Made
        <3>10. Taken(D, S, capacity) = sum
            BY <2>1, <3>3, <3>4
        <3>11. Taken(D, S \cup {i}, capacity)
                = sum + (IF AutoScale(pending[i]) THEN capacity - sum ELSE pending[i].size)
            <4>1. Taken(D, S, capacity) + Least(pending[i]) <= capacity
                BY <3>6, <3>8, <3>10
            <4> HIDE DEF S, D
            <4> QED BY <1>2, <1>3, <3>9, <3>10, <4>1, OneMore
        <3>12. new.size = IF AutoScale(pending[i]) THEN capacity - sum ELSE pending[i].size
            BY <1>2, <1>3, <3>5, NewSizes
        <3>13. PICK size \in Nat : size = new.size
            BY <1>2, <1>3, NewSizes
        <3>14. {k \in DOMAIN volumes' : volumes'[k].disks = D} = K \cup {n}
            BY <1>2, <2>4
        <3>15. TotalSize(volumes', K \cup {n}) = size + sum
            <4>1. PICK L : L = K
                OBVIOUS
            <4>2. IsFiniteSet(L \cup {n}) /\ (L \cup {n}) \ {n} = L
                <5>1. n \notin K
                    BY <1>2
                <5>2. IsFiniteSet(L \cup {n})
                    BY <2>2, <4>1, FS_AddElement
                <5> QED BY <4>1, <5>1, <5>2
            <4>3. \A k \in L \cup {n} : volumes'[k].size \in Nat
                BY <1>2, <1>3, <2>2, <3>13, <4>1 DEF TypeInv
            <4>4. PICK w : w = volumes'
                OBVIOUS
            <4>5. TotalSize(w, L \cup {n}) = w[n].size + TotalSize(w, L)
                <5>1. \A k \in L \cup {n} : w[k].size \in Nat
                    BY <4>3, <4>4
                <5>2. n \in L \cup {n}
                    OBVIOUS
                <5> QED BY <4>2, <5>1, <5>2, SumTakesOut
            <4> QED BY <1>2, <2>3, <3>4, <3>13, <4>1, <4>4, <4>5
        <3>16. Members(D) \cap (Made \cup {i}) = S \cup {i}
            BY <1>5, <2>4
        <3>17. size + sum = sum + size
            BY <3>4, <3>13
        <3> QED BY <3>3, <3>11, <3>12, <3>13, <3>14, <3>15, <3>16, <3>17
    <2>5. CASE new.disks # D
        <3>1. {k \in DOMAIN volumes' : volumes'[k].disks = D} = K
            BY <1>2, <2>5
        <3>2. Members(D) \cap (Made \cup {i}) = S
            BY <1>5, <2>5 DEF Members
        <3> QED BY <2>1, <2>3, <3>1, <3>2
    <2> QED BY <2>4, <2>5
<1>13. ServerFits'
    <2>1. \A k \in DOMAIN volumes' : volumes'[k].for # 0 =>
            volumes'[k].for \in DOMAIN plan /\ volumes'[k].disks = plan[volumes'[k].for].group
        BY <1>2, <1>3, <1>5 DEF ServerFits
    <2>2. ASSUME NEW u \in todo', plan[u[2]].kind = "own", NEW d \in plan[u[2]].disks
          PROVE  drives'[d].good
        <3>1. u \in todo /\ u[2] # i /\ u[2] \in DOMAIN plan
            BY <1>1, <1>2 DEF ResultInv, MadeOK, PlanInv, TurnsOK
        <3>2. drives[d].good
            BY <1>2, <1>3, <2>2, <3>1 DEF ServerFits
        <3>3. plan[i].kind = "own" => d \notin plan[i].disks
            BY <1>2, <2>2, <3>1 DEF PlanInv, DisksUsedOnce
        <3>4. d \in Disks
            <4>1. plan[u[2]].disks \subseteq Disks
                <5>1. PICK x \in Arrays : x.disks = plan[u[2]].disks
                    <6>1. [disks |-> plan[u[2]].disks, level |-> pending[u[2]].level,
                           span |-> plan[u[2]].span] \in Arrays
                        BY <2>2, <3>1 DEF Arrays
                    <6> QED BY <6>1
                <5> QED BY <5>1 DEF ResultInv, ArraysOK
            <4> QED BY <2>2, <4>1
        <3> QED BY <1>2, <3>2, <3>3, <3>4
    <2>3. ASSUME NEW y \in Arrays', ~ MaxFounded(y.disks)'
          PROVE  TotalSize(volumes, {k \in DOMAIN volumes : volumes[k].disks = y.disks})'
                    = Taken(y.disks, Members(y.disks) \cap Made, CapacityOf(y))'
        <3>1. y \in Arrays /\ ~ MaxFounded(y.disks)
            BY <1>4, <2>3
        <3>2. (Members(y.disks) \cap Made)' = Members(y.disks) \cap (Made \cup {i})
            BY <1>4
        <3>3. CapacityOf(y)' = CapacityOf(y) /\ Old(y.disks)' = Old(y.disks)
            BY <1>4, <3>1
        <3>4. Taken(y.disks, Members(y.disks) \cap Made, CapacityOf(y))'
                = Taken(y.disks, Members(y.disks) \cap (Made \cup {i}), CapacityOf(y))
            BY <1>2, <3>2, <3>3 DEF Taken, AutoScale
        <3>5. TotalSize(volumes', {k \in DOMAIN volumes' : volumes'[k].disks = y.disks})
                = Taken(y.disks, Members(y.disks) \cap (Made \cup {i}), CapacityOf(y))
            BY <1>12, <3>1
        <3> QED BY <3>4, <3>5
    <2> QED BY <1>2, <2>1, <2>2, <2>3 DEF ServerFits
<1>14. PlansFit'
    BY <1>2 DEF PlansFit
<1> QED BY <1>9, <1>10, <1>11, <1>13, <1>14

----------------------------------------------------------------------------
(* The theorem.                                                             *)

\* FitInv is an invariant of the planning and of the creations.
LEMMA PlanKeepsFit == Spec => []FitInv
<1>1. PlanInv /\ ResultInv /\ FitInv /\ [Next]_vars => FitInv'
    <2> SUFFICES ASSUME PlanInv, ResultInv, FitInv, [Next]_vars PROVE FitInv'
        OBVIOUS
    <2>1. TypeInv'
        BY NextKeepsTypeInv DEF FitInv
    <2>2. OrderOK' /\ LedgerOK' /\ FitsOK' /\ ServerFits' /\ PlansFit'
        <3>1. CASE JoinGroup
            <4>1. PICK t, g, more, p : Joins(t, g, more, p)
                BY <3>1, JoinStep
            <4> QED BY <4>1, JoinKeepsFit
        <3>2. CASE TakeDisks \/ FoundGroup
            <4>1. PICK t, s, p : Owns(t, s, p)
                BY <3>2, OwnStep
            <4> QED BY <4>1, OwnKeepsFit
        <3>3. CASE Create
            <4>1. PICK t, new, n : Creates(t, new, n)
                BY <3>3, CreateStep
            <4> QED BY <4>1, CreateKeepsFit
        <3>4. CASE PlanFails \/ PlanDone \/ CreateRefused \/ CreateDone \/ UNCHANGED vars
            BY <3>4, StagesKeepFit
        <3> QED BY <3>1, <3>2, <3>3, <3>4 DEF Next
    <2> QED BY <2>1, <2>2 DEF FitInv
<1> QED BY <1>1, InitFitInv, PlanIsOrderly, PlansAreRight, PTL DEF Spec

\* The server refuses no volume of a complete plan of apply_raid_configuration:
\* what the groups have left on paper is what the arrays have left, in the
\* order of the creations.  The exception is the group that a sharing MAX
\* volume starts.
THEOREM PlansFitTheServer == Spec => []PlansFit
<1>1. FitInv => PlansFit
    BY DEF FitInv
<1> QED BY <1>1, PlanKeepsFit, PTL
=============================================================================
