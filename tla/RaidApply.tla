----------------------------- MODULE RaidApply -----------------------------
(***************************************************************************)
(* The two operations of IBMCStorageClient (api/system/storage.py) that     *)
(* change every controller of a server, delete_all_raid_configuration and   *)
(* apply_raid_configuration, called one after another by one program, with  *)
(* requests that fail half-way, a server on which a task goes on when the   *)
(* program has given up waiting for it, and takes effect with a delay, and  *)
(* other programs that change the same controllers meanwhile.               *)
(*                                                                          *)
(* Disks are planned in module DiskPlan; here a volume takes one drive.     *)
(* RAID_TASK_EFFECT_SECONDS are taken to be long enough for the server, and *)
(* StorageConfigReady, where the server reports it, to be off as long as a  *)
(* controller is at work.                                                   *)
(***************************************************************************)
EXTENDS Naturals, Sequences, FiniteSets, FiniteSetsExt, SequencesExt

CONSTANTS
    Controllers,    \* the controllers, a sequence, as the collection lists them
    Manageable,     \* which controllers may be the ones that can be managed
    Old,            \* [controller -> drives with a volume at the start]
    Drives,         \* the drives of each controller
    HotSpares,      \* which of them may be hot spares at the start, if they have no volume
    Names,          \* [controller -> what a hint may call it; names may be shared]
    Levels,         \* [controller -> RAID levels it supports]
    Requests,       \* what apply may be asked: sequences of logical disks [hint, level, few]
    MaxOperations,  \* bound: operations called
    MaxTroubles     \* bound: requests and tasks that fail, and changes made by other programs;
                    \* the same change of the same drive at the same time counts once

JBOD == "JBOD"
NoHint == "no hint"
Ctrls == Range(Controllers)

ASSUME RaidApplyAssumption ==
    /\ Controllers \in Seq(Ctrls) /\ IsInjective(Controllers) /\ Manageable \subseteq SUBSET Ctrls
    /\ Old \in [Ctrls -> SUBSET Drives]
    /\ HotSpares \subseteq SUBSET Drives /\ IsFiniteSet(Drives)
    /\ DOMAIN Names = Ctrls /\ DOMAIN Levels = Ctrls
    /\ \A r \in Requests : /\ r \in Seq(Range(r))
                           /\ \A i \in DOMAIN r : DOMAIN r[i] = {"hint", "level", "few"} /\ r[i].few \in BOOLEAN
    /\ MaxOperations \in Nat /\ MaxTroubles \in Nat

VARIABLES
    reports,   \* the server has a StorageConfigReady
    server,    \* [Ctrls -> [support_oob, volumes, spares, settling, jbod]]
    tasks,     \* tasks the server runs for the program: [ctrl, op, drive, since]
    prog,      \* the operation under way
    history,   \* [op, result, alone] of the operations that have ended
    last,      \* [request, touched] of the last of them, until the next begins
    faults,    \* requests that have failed
    foreign    \* what other programs have changed: [time, did], did is <<what, controller, drive>>

vars == <<reports, server, tasks, prog, history, last, faults, foreign>>

\* at: where the operation is; seen: the StorageConfigReady it read last;
\* queue: controllers to do, the current one first; todo: drives of the volumes
\* still to delete or create, or to restore; done: drives of the volumes of this
\* controller already asked for; stale: controllers set by others since they
\* were listed; touched: history, something was asked of the server that changes
\* it; alone: history, nothing else was at work on a server that does not report.
Idle == [op |-> "none", at |-> "idle", request |-> <<>>, seen |-> FALSE, queue |-> <<>>,
         todo |-> {}, done |-> {}, stale |-> {}, touched |-> FALSE, alone |-> TRUE]
Nothing == [request |-> <<>>, touched |-> FALSE]

Init ==
    /\ reports \in BOOLEAN
    /\ \E spare \in HotSpares, managed \in Manageable :
        server = [c \in Ctrls |-> [support_oob |-> c \in managed,
                                   volumes |-> {[drive |-> d, since |-> 0, mine |-> FALSE] : d \in Old[c]},
                                   spares |-> spare \ Old[c], settling |-> {}, jbod |-> FALSE]]
    /\ tasks = {}
    /\ prog = Idle
    /\ history = <<>>
    /\ last = Nothing
    /\ faults = 0
    /\ foreign = {}

Current == Head(prog.queue)
Troubles == faults + Cardinality(foreign)
Used(c) == {v.drive : v \in server[c].volumes}

\* Operation n runs at time 2n-1; between n and n+1 it is 2n.
Now == 2 * Len(history) + (IF prog = Idle THEN 0 ELSE 1)

----------------------------------------------------------------------------
(* The server, and the other programs that use it.                          *)

Ready == tasks = {} /\ \A c \in Ctrls : server[c].settling = {}

\* There is no volume to delete; or a volume can not be made on a controller
\* still at work, or on a drive in use.
Refuses(op, c, d) ==
    \/ \E t \in tasks : t.ctrl = c /\ (t.drive = d \/ op = "apply")
    \/ op = "delete" /\ d \notin Used(c)
    \/ op = "apply" /\ (server[c].settling # {} \/ d \in Used(c))

\* A task completes, and its drive takes a while to settle; or it fails.
TaskCompletes ==
    \E t \in tasks :
        /\ tasks' = tasks \ {t}
        /\ server' = [server EXCEPT
                ![t.ctrl].settling = @ \cup {t.drive},
                ![t.ctrl].volumes =
                    IF t.op = "apply" THEN @ \cup {[drive |-> t.drive, since |-> t.since, mine |-> TRUE]}
                    ELSE {v \in @ : v.drive # t.drive}]
        /\ prog' = IF prog.at = "wait" /\ t.since = Now THEN [prog EXCEPT !.at = "completed"] ELSE prog
        /\ UNCHANGED <<reports, history, last, faults, foreign>>

TaskFails ==
    \E t \in tasks :
        /\ Troubles < MaxTroubles /\ faults' = faults + 1
        /\ tasks' = tasks \ {t}
        /\ prog' = IF prog.at = "wait" /\ t.since = Now THEN [prog EXCEPT !.at = "failed"] ELSE prog
        /\ UNCHANGED <<reports, server, history, last, foreign>>

Settle ==
    \E c \in Ctrls, d \in Drives :
        /\ d \in server[c].settling
        /\ server' = [server EXCEPT ![c].settling = @ \ {d}]
        /\ UNCHANGED <<reports, tasks, prog, history, last, faults, foreign>>

OtherDid(what) ==
    /\ Troubles < MaxTroubles
    /\ foreign' = foreign \cup {[time |-> Now, did |-> what]}
    /\ UNCHANGED <<reports, tasks, history, last, faults>>

\* Another program has a volume made, or deleted, or changes the settings of a
\* controller, and its ETag with them.
OtherCreates ==
    \E c \in Ctrls, d \in Drives :
        /\ ~ Refuses("apply", c, d) /\ d \notin server[c].spares
        /\ server' = [server EXCEPT
                ![c].volumes = @ \cup {[drive |-> d, since |-> Now, mine |-> FALSE]},
                ![c].settling = @ \cup {d}]
        /\ OtherDid(<<"create", c, d>>) /\ UNCHANGED prog

OtherDeletes ==
    \E c \in Ctrls, d \in Drives :
        /\ ~ Refuses("delete", c, d)
        /\ server' = [server EXCEPT ![c].volumes = {v \in @ : v.drive # d}, ![c].settling = @ \cup {d}]
        /\ OtherDid(<<"delete", c, d>>) /\ UNCHANGED prog

OtherSets ==
    \E c \in Ctrls :
        /\ prog' = [prog EXCEPT !.stale = IF prog.at \in {"idle", "ready", "list"} THEN @ ELSE @ \cup {c}]
        /\ OtherDid(<<"set", c>>) /\ UNCHANGED server

----------------------------------------------------------------------------
(* The program.                                                             *)

Ended(result, touched) ==
    /\ history' = Append(history, [op |-> prog.op, result |-> result, alone |-> prog.alone])
    /\ last' = [request |-> prog.request, touched |-> touched]
    /\ prog' = Idle
End(result) == Ended(result, prog.touched)

\* The first GET of the system in waiting_storage_ready.
Start(op, request) ==
    /\ prog = Idle /\ Len(history) < MaxOperations
    /\ prog' = [Idle EXCEPT !.op = op, !.request = request, !.at = "ready", !.seen = Ready,
                           !.alone = reports \/ Ready]
    /\ last' = Nothing
    /\ UNCHANGED <<reports, server, tasks, history, faults, foreign>>

delete_all_raid_configuration == Start("delete", <<>>)
apply_raid_configuration == \E r \in Requests : Start("apply", r)

\* Mutant: the system is loaded once, before the loop.
waiting_storage_ready_Once ==
    /\ prog.at = "ready"
    /\ prog' = IF prog.seen \/ ~ reports THEN [prog EXCEPT !.at = "list"] ELSE prog
    /\ UNCHANGED <<reports, server, tasks, history, last, faults, foreign>>

\* Mutant: the storage is taken to be ready.
waiting_storage_ready_Never ==
    /\ prog.at = "ready"
    /\ prog' = [prog EXCEPT !.at = "list"]
    /\ UNCHANGED <<reports, server, tasks, history, last, faults, foreign>>

\* Sleep and load the system again until it is ready, or does not say
\* (FeatureNotSupported).
waiting_storage_ready ==
    /\ prog.at = "ready"
    /\ prog' = IF prog.seen \/ ~ reports THEN [prog EXCEPT !.at = "list"]
               ELSE [prog EXCEPT !.seen = Ready]
    /\ UNCHANGED <<reports, server, tasks, history, last, faults, foreign>>

\* init_ctrl: the first controller that the hint may mean.
controller(disk) ==
    LET meant == {i \in DOMAIN Controllers : disk.hint = NoHint \/ disk.hint \in Names[Controllers[i]]}
    IN  {Controllers[i] : i \in {j \in meant : \A k \in meant : j <= k}}

\* LogicalDisk takes no number of disks below what the level needs: few means
\* that a disk asks for one.
EnoughDisks(disk) == ~ disk.few

\* Not NoRaidControllerFound, NoControllerMatchesHint, ControllerHintRequired,
\* ControllerNotSupportOOB or NotSupportedRaidLevel.
Usable(disk) ==
    /\ disk.hint = NoHint => Len(Controllers) = 1
    /\ \E c \in controller(disk) :
        server[c].support_oob /\ disk.level \in Levels[c] \cup {JBOD}

\* The groups of pending volumes.
Group(request, c) == {i \in DOMAIN request : c \in controller(request[i])}
Grouped(request) == {c \in Ctrls : Group(request, c) # {}}
Jbods(request, c) == {i \in Group(request, c) : request[i].level = JBOD}

\* The logical disks are made, init_ctrl of each, and validate_pending_volumes.
Invalid(request) ==
    \/ \E i \in DOMAIN request : ~ EnoughDisks(request[i]) \/ ~ Usable(request[i])
    \/ \E c \in Grouped(request) : Jbods(request, c) \notin {{}, Group(request, c)}

\* Mutant: a controller is validated when its turn comes, only the first at once.
ListControllers_First ==
    /\ prog.at = "list"
    /\ \/ /\ prog.op = "delete"
          /\ prog' = [prog EXCEPT !.at = "controller", !.queue = Controllers]
          /\ UNCHANGED <<history, last>>
       \/ /\ prog.op = "apply" /\ ~ Usable(prog.request[1])
          /\ End("invalid")
       \/ /\ prog.op = "apply" /\ Usable(prog.request[1])
          /\ \E order \in SetToSeqs(Grouped(prog.request)) :
                prog' = [prog EXCEPT !.at = "controller", !.queue = order]
          /\ UNCHANGED <<history, last>>
    /\ UNCHANGED <<reports, server, tasks, faults, foreign>>

\* The groups of pending volumes are in the order of a dict.
ListControllers ==
    /\ prog.at = "list"
    /\ \/ /\ prog.op = "delete"
          /\ prog' = [prog EXCEPT !.at = "controller", !.queue = Controllers]
          /\ UNCHANGED <<history, last>>
       \/ /\ prog.op = "apply" /\ Invalid(prog.request)
          /\ End("invalid")
       \/ /\ prog.op = "apply" /\ ~ Invalid(prog.request)
          /\ \E order \in SetToSeqs(Grouped(prog.request)) :
                prog' = [prog EXCEPT !.at = "controller", !.queue = order]
          /\ UNCHANGED <<history, last>>
    /\ UNCHANGED <<reports, server, tasks, faults, foreign>>

AllDone ==
    /\ prog.at = "controller" /\ prog.queue = <<>>
    /\ End("ok")
    /\ UNCHANGED <<reports, server, tasks, faults, foreign>>

\* ControllerNotSupportOOB is raised when its turn comes.
DeleteNotSupported ==
    /\ prog.at = "controller" /\ prog.op = "delete" /\ prog.queue # <<>>
    /\ ~ server[Current].support_oob
    /\ End("not supported")
    /\ UNCHANGED <<reports, server, tasks, faults, foreign>>

\* delete_volume_collection reads the members of the collection once.
LoadVolumes ==
    /\ prog.at = "controller" /\ prog.op = "delete" /\ prog.queue # <<>>
    /\ server[Current].support_oob
    /\ prog' = [prog EXCEPT !.at = "delete", !.todo = Used(Current), !.done = {}]
    /\ UNCHANGED <<reports, server, tasks, history, last, faults, foreign>>

\* Mutant: only the last deletion is waited for.
DeleteVolume_NoWait ==
    /\ prog.at = "delete"
    /\ \E d \in prog.todo :
        IF Refuses("delete", Current, d)
        THEN End("refused") /\ UNCHANGED tasks
        ELSE /\ tasks' = tasks \cup {[ctrl |-> Current, op |-> "delete", drive |-> d, since |-> Now]}
             /\ prog' = [prog EXCEPT !.at = IF prog.todo = {d} THEN "wait" ELSE @, !.todo = @ \ {d},
                                    !.done = @ \cup {d}, !.touched = TRUE]
             /\ UNCHANGED <<history, last>>
    /\ UNCHANGED <<reports, server, faults, foreign>>

DeleteVolume ==
    /\ prog.at = "delete"
    /\ \E d \in prog.todo :
        IF Refuses("delete", Current, d)
        THEN End("refused") /\ UNCHANGED tasks
        ELSE /\ tasks' = tasks \cup {[ctrl |-> Current, op |-> "delete", drive |-> d, since |-> Now]}
             /\ prog' = [prog EXCEPT !.at = "wait", !.todo = @ \ {d}, !.done = @ \cup {d}, !.touched = TRUE]
             /\ UNCHANGED <<history, last>>
    /\ UNCHANGED <<reports, server, faults, foreign>>

\* Sleep once after the last deletion, if there was one.
VolumesDeleted ==
    /\ prog.at = "delete" /\ prog.todo = {}
    /\ prog.done \cap server[Current].settling = {}
    /\ prog' = [prog EXCEPT !.at = "restore", !.todo = server[Current].spares]
    /\ UNCHANGED <<reports, server, tasks, history, last, faults, foreign>>

\* Mutant: the loop over the drives ends after the first.
RestoreDrive_First ==
    /\ prog.at = "restore"
    /\ \/ /\ prog.todo = {}
          /\ prog' = [prog EXCEPT !.at = "controller", !.queue = Tail(@)]
          /\ UNCHANGED server
       \/ \E d \in prog.todo :
            /\ server' = [server EXCEPT ![Current].spares = @ \ {d}]
            /\ prog' = [prog EXCEPT !.todo = {}, !.touched = TRUE]
    /\ UNCHANGED <<reports, tasks, history, last, faults, foreign>>

\* Drive.restore for all drives: a hot spare is no hot spare any longer.
RestoreDrive ==
    /\ prog.at = "restore"
    /\ \/ /\ prog.todo = {}
          /\ prog' = [prog EXCEPT !.at = "controller", !.queue = Tail(@)]
          /\ UNCHANGED server
       \/ \E d \in prog.todo :
            /\ server' = [server EXCEPT ![Current].spares = @ \ {d}]
            /\ prog' = [prog EXCEPT !.todo = @ \ {d}, !.touched = TRUE]
    /\ UNCHANGED <<reports, tasks, history, last, faults, foreign>>

SettingJbod ==
    /\ prog.at = "controller" /\ prog.op = "apply" /\ prog.queue # <<>>
    /\ Jbods(prog.request, Current) # {}

\* The ETag is the one of the list of controllers.
SetJbod ==
    /\ SettingJbod
    /\ IF Current \in prog.stale
       THEN End("refused") /\ UNCHANGED server
       ELSE /\ server' = [server EXCEPT ![Current].jbod = TRUE]
            /\ prog' = [prog EXCEPT !.queue = Tail(@), !.touched = TRUE]
            /\ UNCHANGED <<history, last>>
    /\ UNCHANGED <<reports, tasks, faults, foreign>>

\* The drives the program sees as unconfigured and good: what has not settled
\* still has its old state.
SeenFree(c) ==
    {d \in Drives \ server[c].spares :
        IF d \in server[c].settling THEN d \in Used(c) ELSE d \notin Used(c)}

\* init_disks of all pending volumes of the controller, before any is created.
Plan ==
    /\ prog.at = "controller" /\ prog.op = "apply" /\ prog.queue # <<>>
    /\ Jbods(prog.request, Current) = {}
    /\ IF Cardinality(SeenFree(Current)) < Cardinality(Group(prog.request, Current))
       THEN End("no disks")
       ELSE /\ \E chosen \in kSubset(Cardinality(Group(prog.request, Current)), SeenFree(Current)) :
                prog' = [prog EXCEPT !.at = "create", !.todo = chosen, !.done = {}]
            /\ UNCHANGED <<history, last>>
    /\ UNCHANGED <<reports, server, tasks, faults, foreign>>

CreateVolume ==
    /\ prog.at = "create"
    /\ \E d \in prog.todo :
        IF Refuses("apply", Current, d)
        THEN End("refused") /\ UNCHANGED tasks
        ELSE /\ tasks' = tasks \cup {[ctrl |-> Current, op |-> "apply", drive |-> d, since |-> Now]}
             /\ prog' = [prog EXCEPT !.at = "wait", !.todo = @ \ {d}, !.done = @ \cup {d}, !.touched = TRUE]
             /\ UNCHANGED <<history, last>>
    /\ UNCHANGED <<reports, server, faults, foreign>>

VolumesCreated ==
    /\ prog.at = "create" /\ prog.todo = {}
    /\ prog' = [prog EXCEPT !.at = "controller", !.queue = Tail(@)]
    /\ UNCHANGED <<reports, server, tasks, history, last, faults, foreign>>

\* Mutant: the next volume is created at once.
TaskDone_NoSleep ==
    /\ prog.at = "completed"
    /\ prog' = [prog EXCEPT !.at = IF prog.op = "delete" THEN "delete" ELSE "create"]
    /\ UNCHANGED <<reports, server, tasks, history, last, faults, foreign>>

\* wait_task returns.  After a creation the program sleeps.
TaskDone ==
    /\ prog.at = "completed"
    /\ prog.op = "apply" => prog.done \cap server[Current].settling = {}
    /\ prog' = [prog EXCEPT !.at = IF prog.op = "delete" THEN "delete" ELSE "create"]
    /\ UNCHANGED <<reports, server, tasks, history, last, faults, foreign>>

\* Mutant: the task of a deletion is not asked how it ended.
TaskFailed_Ignored ==
    /\ prog.at = "failed"
    /\ IF prog.op = "delete"
       THEN prog' = [prog EXCEPT !.at = "delete"] /\ UNCHANGED <<history, last>>
       ELSE End("error")
    /\ UNCHANGED <<reports, server, tasks, faults, foreign>>

\* raise_if_failed.
TaskFailed ==
    /\ prog.at = "failed"
    /\ End("error")
    /\ UNCHANGED <<reports, server, tasks, faults, foreign>>

\* A request fails, or its answer is lost: the operation ends where it is.  The
\* server may have done what was asked, and a task that was waited for goes on.
RequestFails ==
    /\ prog # Idle /\ Troubles < MaxTroubles /\ faults' = faults + 1
    /\ \/ UNCHANGED <<tasks, server>>
       \/ /\ prog.at = "restore" /\ UNCHANGED tasks
          /\ \E d \in prog.todo : server' = [server EXCEPT ![Current].spares = @ \ {d}]
       \/ /\ SettingJbod /\ Current \notin prog.stale /\ UNCHANGED tasks
          /\ server' = [server EXCEPT ![Current].jbod = TRUE]
       \/ /\ prog.at \in {"delete", "create"} /\ UNCHANGED server
          /\ \E d \in prog.todo :
                /\ ~ Refuses(prog.op, Current, d)
                /\ tasks' = tasks \cup {[ctrl |-> Current, op |-> prog.op, drive |-> d, since |-> Now]}
    /\ Ended("error", prog.touched \/ <<tasks, server>>' # <<tasks, server>>)
    /\ UNCHANGED <<reports, foreign>>

ServerStep == TaskCompletes \/ Settle
ProgramStep ==
    \/ waiting_storage_ready \/ ListControllers \/ AllDone
    \/ DeleteNotSupported \/ LoadVolumes \/ DeleteVolume \/ VolumesDeleted \/ RestoreDrive
    \/ SetJbod \/ Plan \/ CreateVolume \/ VolumesCreated
    \/ TaskDone \/ TaskFailed

Next ==
    \/ delete_all_raid_configuration \/ apply_raid_configuration
    \/ ProgramStep \/ RequestFails
    \/ ServerStep \/ TaskFails
    \/ OtherCreates \/ OtherDeletes \/ OtherSets

Spec == Init /\ [][Next]_vars /\ WF_vars(ProgramStep) /\ WF_vars(ServerStep)

----------------------------------------------------------------------------
(* Properties.                                                              *)

Results == {"ok", "error", "invalid", "not supported", "no disks", "refused"}

\* One drive has one volume at most, and exactly one task of this operation is
\* under way while it waits; what it still has to delete or create is on the drives
\* of the controller whose turn it is.
TypeOK ==
    /\ \A c \in Ctrls : /\ Used(c) \cup server[c].spares \cup server[c].settling \subseteq Drives
                        /\ Cardinality(Used(c)) = Cardinality(server[c].volumes)
    /\ prog.at = "wait" => Cardinality({t \in tasks : t.since = Now}) = 1
    /\ prog.todo \subseteq Drives
    /\ prog.todo # {} => prog.queue # <<>>
    /\ \A i \in DOMAIN history : history[i].op \in {"delete", "apply"} /\ history[i].result \in Results

LastEnded == history[Len(history)]
JustEnded(op, result) ==
    prog = Idle /\ history # <<>> /\ LastEnded.op = op /\ LastEnded.result = result

\* Operation n did not begin while a server that does not report it was at work,
\* and no other program has changed anything since.
LeftAlone(n) == history[n].alone /\ \A f \in foreign : f.time < 2 * n - 1
Quiet == tasks = {} /\ \A c \in Ctrls : server[c].settling = {}

\* After a deletion of everything that reports no error there is no hot spare
\* and no volume that was there when it began, and none of an earlier operation
\* that gave up appears later, whatever others did meanwhile; left alone, there
\* is no volume at all, and the next operation can begin at once even where the
\* server does not tell that it is ready.
DeletedMeansGone ==
    JustEnded("delete", "ok") /\ LastEnded.alone =>
        /\ \A c \in Ctrls : /\ server[c].spares = {}
                            /\ \A v \in server[c].volumes : v.since >= 2 * Len(history) - 1
        /\ tasks = {}
        /\ LeftAlone(Len(history)) => Quiet /\ \A c \in Ctrls : server[c].volumes = {}

\* After an application that reports no error every controller has exactly the
\* volumes it was asked to have besides those it had, all made by this
\* operation, less what others have deleted; when everything was deleted just
\* before, there are no others.  Left alone, the server has finished.
AppliedMeansAll ==
    JustEnded("apply", "ok") =>
        LET n == Len(history)
            made(c) == {v \in server[c].volumes : v.mine /\ v.since = 2 * n - 1}
            cleared == /\ n > 1 /\ LeftAlone(n - 1)
                       /\ history[n - 1].op = "delete" /\ history[n - 1].result = "ok"
            lost(c) == Cardinality({f \in foreign : /\ f.did \in {<<"delete", c, d>> : d \in Drives}
                                                   /\ f.time >= 2 * n - 1})
        IN  /\ \A c \in Grouped(last.request) :
                LET asked == Cardinality(Group(last.request, c))
                IN  IF Jbods(last.request, c) # {} THEN server[c].jbod
                    ELSE /\ Cardinality(made(c)) \in (asked - lost(c))..asked
                         /\ cleared => server[c].volumes = made(c)
            /\ LeftAlone(n) => Quiet

\* An application that is wrong for one logical disk (a hint that means no
\* controller, a level it does not have, too few disks, JBOD besides volumes)
\* changes nothing, on any controller.
InvalidChangesNothing == Invalid(last.request) => ~ last.touched

\* The server has no reason to refuse what the program asks of it: no volume on
\* a drive that is not free or on a controller still at work, no deletion of a
\* volume that is gone, no settings under an old ETag; unless another program
\* changes something during the operation.  An operation that began while a
\* server that does not report its state was at work is left out: nothing told
\* the program to wait.
RefusedMeansDisturbed ==
    \A n \in DOMAIN history : history[n].result = "refused" =>
        ~ history[n].alone \/ \E f \in foreign : f.time = 2 * n - 1

\* Disks that a deletion just before has freed are never missed: an application
\* that ends for want of disks leaves a controller that really has too few.  Said
\* only of a program that was left alone, and of an operation that began on an
\* idle server where the server does not report.
NoDisksMeansNone ==
    JustEnded("apply", "no disks") /\ LeftAlone(Len(history)) =>
        \E c \in Grouped(last.request) :
            LET others == {v \in server[c].volumes : ~ (v.mine /\ v.since = 2 * Len(history) - 1)}
            IN  Cardinality(Drives \ (server[c].spares \cup {v.drive : v \in others}))
                    < Cardinality(Group(last.request, c))

\* Nothing is made to wait for ever: each operation ends.
OperationsEnd == prog # Idle ~> prog = Idle

=============================================================================
