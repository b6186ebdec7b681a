----------------------------- MODULE VolumeTask -----------------------------
(***************************************************************************)
(* Volume operations that run as tasks on the server: IbmcVolumeClient      *)
(* (api/system/volume.py) creates or deletes a volume, and IbmcTaskClient   *)
(* (api/task/task.py) waits for the task the server answers with.           *)
(*                                                                          *)
(* The program holds a snapshot of the task; between two GETs of it the     *)
(* server goes on.  An HTTP request either is answered, or fails without    *)
(* effect, or is lost: then the program gets an error and the server may    *)
(* or may not have acted (that a request acts at most once is module        *)
(* Connector).  The server gives a new volume an id not in use, also one of *)
(* a volume deleted before; 0 is no volume.                                 *)
(***************************************************************************)
EXTENDS Naturals, Sequences

CONSTANTS
    Programs,   \* one operation each; a program with several is several programs
    MaxTasks,   \* bound: tasks the server starts
    Busy,       \* states a task of this server goes through before it ends
    OldVolumes  \* ids of the volumes present at the start

ASSUME VolumeTaskAssumption ==
    /\ MaxTasks \in Nat
    /\ Busy \cap {"Interrupted", "Exception", "Killed", "Completed"} = {}
    /\ 0 \notin OldVolumes

VARIABLES
    call,     \* [Programs -> the operation under way]
    tasks,    \* the tasks of the server, in order
    volumes,  \* ids of the volumes that exist
    boot,     \* those marked bootable
    lost,     \* history: tasks whose volume has been deleted since they made it
    finished, \* history: tasks that have completed, in order
    done      \* history: [Programs -> the operation, once it has ended]

vars == <<call, tasks, volumes, boot, lost, finished, done>>
server == <<tasks, volumes, boot, lost, finished>>

----------------------------------------------------------------------------
TASK_STATUS_PROCESSING == {"New", "Starting", "Running", "Suspended", "Pending", "Stopping"}

\* Mutant: a task that is stopping counts as processed.
TASK_STATUS_PROCESSED_Stopping ==
    {"Interrupted", "Exception", "Killed", "Completed", "Stopping"}
TASK_STATUS_PROCESSED == {"Interrupted", "Exception", "Killed", "Completed"}

TASK_STATUS_FAILED == {"Interrupted", "Killed", "Exception"}

Final == {"Interrupted", "Exception", "Killed", "Completed"}
States == {"New"} \cup Busy \cup Final

AllVolumes == OldVolumes \cup 1 .. MaxTasks
NoVolume == 0

\* What a GET of a task returns: its state, and the volume that its messages, a
\* dict then, name in their first argument.  "when messages is empty, ibmc will
\* return []": then they name none.
Document(t) == [state |-> tasks[t].state, names |-> tasks[t].names]
NewDocument == [state |-> "New", names |-> NoVolume]

\* at: "idle", "post" (the request is to be sent), "wait" (in wait_task, the
\* snapshot not examined yet), "boot" (set_bootable is to be sent); snapshot: the
\* document the program holds; vol: the volume to delete, or the one created.
NoCall == [op |-> "none", at |-> "idle", bootable |-> FALSE,
           task |-> 0, snapshot |-> NewDocument, vol |-> NoVolume]
NotDone == [op |-> "none", outcome |-> "none", bootable |-> FALSE, task |-> 0,
            vol |-> NoVolume]

Init ==
    /\ call = [p \in Programs |-> NoCall]
    /\ tasks = <<>>
    /\ volumes = OldVolumes
    /\ boot = {}
    /\ lost = {}
    /\ finished = <<>>
    /\ done = [p \in Programs |-> NotDone]

----------------------------------------------------------------------------
(* The programs.                                                            *)

Ended(p, k, outcome) ==
    /\ call' = [call EXCEPT ![p] = NoCall]
    /\ done' = [done EXCEPT ![p] = [op |-> k.op, outcome |-> outcome,
                                    bootable |-> k.bootable, task |-> k.task,
                                    vol |-> k.vol]]

Create(p, bootable) ==
    /\ call[p].at = "idle" /\ done[p] = NotDone
    /\ call' = [call EXCEPT ![p] = [NoCall EXCEPT !.op = "create", !.at = "post",
                                                  !.bootable = bootable]]
    /\ UNCHANGED <<server, done>>

Delete(p, v) ==
    /\ call[p].at = "idle" /\ done[p] = NotDone
    /\ call' = [call EXCEPT ![p] = [NoCall EXCEPT !.op = "delete", !.at = "post",
                                                  !.vol = v]]
    /\ UNCHANGED <<server, done>>

\* wait_task_by_id for a task somebody started: it is loaded first.
WaitById(p, t) ==
    /\ call[p].at = "idle" /\ done[p] = NotDone
    /\ call' = [call EXCEPT ![p] = [NoCall EXCEPT !.op = "wait", !.at = "wait", !.task = t,
                                                  !.snapshot = Document(t)]]
    /\ UNCHANGED <<server, done>>

\* The server starts a task for the POST or DELETE.
Started(p, k) ==
    tasks' = Append(tasks, [op |-> k.op, vol |-> k.vol, state |-> "New", by |-> p,
                            names |-> NoVolume])

Posted(p) ==
    LET k == call[p]
    IN  /\ k.at = "post" /\ Len(tasks) < MaxTasks
        /\ Started(p, k)
        /\ call' = [call EXCEPT ![p].at = "wait", ![p].task = Len(tasks) + 1]
        /\ UNCHANGED <<volumes, boot, lost, finished, done>>

\* An error response, or no response: the operation ends, though the server
\* may have started the task.
PostFailed(p) ==
    LET k == call[p]
    IN  /\ k.at = "post"
        /\ \/ UNCHANGED tasks
           \/ Len(tasks) < MaxTasks /\ Started(p, k)
        /\ Ended(p, k, "error")
        /\ UNCHANGED <<volumes, boot, lost, finished>>

\* Mutant: the task is loaded again only as long as it is new.
Reload_OnlyNew(p) ==
    LET k == call[p]
    IN  /\ k.at = "wait" /\ k.snapshot.state = "New"
        /\ call' = [call EXCEPT ![p].snapshot = Document(k.task)]
        /\ UNCHANGED <<server, done>>

\* Still processing: sleep, then load the task again.
Reload(p) ==
    LET k == call[p]
    IN  /\ k.at = "wait" /\ k.snapshot.state \in TASK_STATUS_PROCESSING
        /\ call' = [call EXCEPT ![p].snapshot = Document(k.task)]
        /\ UNCHANGED <<server, done>>

ReloadFailed(p) ==
    LET k == call[p]
    IN  /\ k.at = "wait" /\ k.snapshot.state \in TASK_STATUS_PROCESSING
        /\ Ended(p, k, "error")
        /\ UNCHANGED server

\* A snapshot that is neither processing nor processed is examined again and
\* again, without sleeping and without a reload: no action is possible.
Processed(k) == k.at = "wait" /\ k.snapshot.state \in TASK_STATUS_PROCESSED

\* Mutant: a task that is stopping is taken for failed.
CreateFailed_Impatient(p) ==
    LET k == call[p]
    IN  /\ k.at = "wait" /\ k.op = "create"
        /\ k.snapshot.state \in TASK_STATUS_FAILED \cup {"Stopping"}
        /\ Ended(p, k, "TaskFailed")
        /\ UNCHANGED server

\* task.raise_if_failed() in create().
CreateFailed(p) ==
    LET k == call[p]
    IN  /\ Processed(k) /\ k.op = "create" /\ k.snapshot.state \in TASK_STATUS_FAILED
        /\ Ended(p, k, "TaskFailed")
        /\ UNCHANGED server

Completed(k) == Processed(k) /\ k.op = "create" /\ k.snapshot.state \notin TASK_STATUS_FAILED

\* Mutant: create() returns without making the volume bootable.
Created_NotBootable(p) ==
    LET k == [call[p] EXCEPT !.vol = call[p].snapshot.names]
    IN  /\ Completed(k) /\ k.vol # NoVolume
        /\ Ended(p, k, "ok")
        /\ UNCHANGED server

\* Mutant: the volume is read from the newest task.
Created_Newest(p) ==
    /\ Completed(call[p]) /\ ~call[p].bootable
    /\ LET k == [call[p] EXCEPT !.vol = tasks[Len(tasks)].names]
       IN  k.vol # NoVolume /\ Ended(p, k, "ok")
    /\ UNCHANGED server

\* message_args[0] names the volume; set_bootable follows if asked for.
Created(p) ==
    LET k == [call[p] EXCEPT !.vol = call[p].snapshot.names]
    IN  /\ Completed(k) /\ k.vol # NoVolume
        /\ IF k.bootable THEN /\ call' = [call EXCEPT ![p] = [k EXCEPT !.at = "boot"]]
                              /\ UNCHANGED done
                         ELSE Ended(p, k, "ok")
        /\ UNCHANGED server

\* message_args is None, and create() raises with the volume made and its id
\* lost.
CreatedNameless(p) ==
    LET k == call[p]
    IN  /\ Completed(k) /\ k.snapshot.names = NoVolume
        /\ Ended(p, k, "TypeError")
        /\ UNCHANGED server

\* Mutant: a volume that is gone is made bootable.
SetBootable_Gone(p) ==
    LET k == call[p]
    IN  /\ k.at = "boot"
        /\ boot' = boot \cup {k.vol}
        /\ Ended(p, k, "ok")
        /\ UNCHANGED <<tasks, volumes, lost, finished>>

SetBootable(p) ==
    LET k == call[p]
    IN  /\ k.at = "boot" /\ k.vol \in volumes
        /\ boot' = boot \cup {k.vol}
        /\ Ended(p, k, "ok")
        /\ UNCHANGED <<tasks, volumes, lost, finished>>

\* The volume stays, though create() raises; it is bootable if only the answer
\* was lost.
SetBootableFailed(p) ==
    LET k == call[p]
    IN  /\ k.at = "boot"
        /\ boot' = boot \/ boot' = boot \cup ({k.vol} \cap volumes)
        /\ Ended(p, k, "error")
        /\ UNCHANGED <<tasks, volumes, lost, finished>>

\* delete() and wait_task_by_id() hand the processed task to their caller, which
\* may examine it.
Deleted(p) ==
    LET k == call[p]
    IN  /\ Processed(k) /\ k.op \in {"delete", "wait"}
        /\ Ended(p, k, IF k.snapshot.state \in TASK_STATUS_FAILED THEN "TaskFailed" ELSE "ok")
        /\ UNCHANGED server

----------------------------------------------------------------------------
(* The server.                                                              *)

Advance(t) ==
    /\ tasks[t].state \notin Final
    /\ \E s \in Busy :
         tasks' = [tasks EXCEPT ![t].state = s]
    /\ UNCHANGED <<call, volumes, boot, lost, finished, done>>

\* The tasks whose volume is removed with volume v.
MadeBy(v) == {u \in DOMAIN tasks : /\ tasks[u].op = "create" /\ tasks[u].state = "Completed"
                                   /\ tasks[u].vol = v}

\* A task makes its volume when it completes; its messages may name it.
FinishCreate(t) ==
    /\ tasks[t].op = "create"
    /\ \E v \in AllVolumes \ volumes, named \in BOOLEAN :
         /\ tasks' = [tasks EXCEPT ![t].state = "Completed", ![t].vol = v,
                                   ![t].names = IF named THEN v ELSE NoVolume]
         /\ volumes' = volumes \cup {v}
    /\ UNCHANGED <<boot, lost>>

\* A task removes its volume when it completes; one that is gone it cannot.
FinishDelete(t) ==
    /\ tasks[t].op = "delete" /\ tasks[t].vol \in volumes
    /\ tasks' = [tasks EXCEPT ![t].state = "Completed"]
    /\ volumes' = volumes \ {tasks[t].vol}
    /\ boot' = boot \ {tasks[t].vol}
    /\ lost' = lost \cup MadeBy(tasks[t].vol)

\* A task that ends otherwise changes nothing.
Fail(t) ==
    /\ \E s \in Final \ {"Completed"} : tasks' = [tasks EXCEPT ![t].state = s]
    /\ UNCHANGED <<volumes, boot, lost, finished>>

Finish(t) ==
    /\ tasks[t].state \notin Final
    /\ \/ Fail(t)
       \/ (FinishCreate(t) \/ FinishDelete(t)) /\ finished' = Append(finished, t)
    /\ UNCHANGED <<call, done>>

----------------------------------------------------------------------------
Start(p) == \/ \E b \in BOOLEAN : Create(p, b)
            \/ \E v \in volumes : Delete(p, v)
            \/ \E t \in DOMAIN tasks : WaitById(p, t)

Step(p) == \/ Posted(p) \/ PostFailed(p) \/ Reload(p) \/ CreateFailed(p)
           \/ Created(p) \/ CreatedNameless(p) \/ SetBootable(p) \/ SetBootableFailed(p) \/ Deleted(p)

Next == \/ \E p \in Programs : Start(p) \/ Step(p) \/ ReloadFailed(p)
        \/ \E t \in DOMAIN tasks : Advance(t) \/ Finish(t)

\* The program runs on, and the server brings every task to an end.  A GET of
\* the task may fail, but nothing makes it fail: ReloadFailed is not fair.
Fairness == /\ \A p \in Programs : WF_vars(Step(p))
            /\ \A t \in 1 .. MaxTasks : WF_vars(t \in DOMAIN tasks /\ Finish(t))

Spec == Init /\ [][Next]_vars /\ Fairness

----------------------------------------------------------------------------
(* Properties.                                                              *)

VolumeOrNone == AllVolumes \cup {NoVolume}

\* Every variable holds a value of its kind.
TypeOK ==
    /\ \A p \in Programs :
         /\ call[p] \in [op : {"none", "create", "delete", "wait"},
                         at : {"idle", "post", "wait", "boot"}, bootable : BOOLEAN,
                         task : 0 .. Len(tasks), vol : VolumeOrNone,
                         snapshot : [state : States, names : VolumeOrNone]]
         /\ done[p] \in [op : {"none", "create", "delete", "wait"},
                         outcome : {"none", "ok", "TaskFailed", "TypeError", "error"},
                         bootable : BOOLEAN, task : 0 .. Len(tasks), vol : VolumeOrNone]
    /\ \A t \in DOMAIN tasks :
         tasks[t] \in [op : {"create", "delete"}, state : States, vol : VolumeOrNone,
                      by : Programs, names : VolumeOrNone]
    /\ finished \in Seq(DOMAIN tasks)
    /\ volumes \subseteq AllVolumes /\ boot \subseteq volumes /\ lost \subseteq DOMAIN tasks

CreateOk(p) == done[p].op = "create" /\ done[p].outcome = "ok"

\* The volume id create() returns is that of the volume which its own task made,
\* and which is there, unless somebody deleted it since; two programs that both
\* still have their volumes have different ones.  However the tasks of several
\* programs interleave, and though ids are used again.
CreatedMeansThere ==
    /\ \A p \in Programs : CreateOk(p) =>
         LET t == done[p].task
         IN  /\ tasks[t].op = "create" /\ tasks[t].by = p /\ tasks[t].state = "Completed"
             /\ done[p].vol = tasks[t].vol
             /\ t \notin lost => done[p].vol \in volumes
    /\ \A p, q \in Programs :
         CreateOk(p) /\ CreateOk(q) /\ done[p].task \notin lost /\ done[q].task \notin lost
             => p = q \/ done[p].vol # done[q].vol

\* create(bootable=True) returns only when that volume can boot the server.
BootableWhenAsked ==
    \A p \in Programs :
        CreateOk(p) /\ done[p].bootable => done[p].vol \in boot \/ done[p].task \in lost

\* An operation that raised TaskFailed, or returned a failed task, has not
\* changed the volumes and will not: the caller may repeat it.
FailedMeansUnchanged ==
    \A p \in Programs : done[p].outcome = "TaskFailed" =>
        tasks[done[p].task].state \in Final \ {"Completed"}

\* The operations keep the promise of CallPromise, as the calls of the connector
\* do: a volume is made or deleted at most once per call; when the call returns it
\* has been, when it raises TaskFailed it never will be, and only a call that
\* failed on the way leaves a task behind that may still do it.
Outcome(x) == CASE x = "error" -> "ConnectionError"
                [] x = "TaskFailed" -> "412"
                [] OTHER -> x

Promise == INSTANCE CallPromise
               WITH Clients <- Programs, Ops <- {"create", "delete", "wait"},
                    Effects <- {"create", "delete"},
                    Outcomes <- {"ok", "412", "TypeError", "ConnectionError"},
                    current <- [p \in Programs |-> call[p].op],
                    done <- [p \in Programs |->
                               IF done[p] = NotDone THEN <<>>
                               ELSE <<[op |-> done[p].op, outcome |-> Outcome(done[p].outcome)]>>],
                    performed <- [i \in DOMAIN finished |->
                                    [client |-> tasks[finished[i]].by, n |-> 1]]

KeepsPromise == Promise!Spec

\* wait_task returns: every operation comes to an end when the server brings
\* every task to an end.  task.py:54 says "wait a task util it becomes stable."
WaitEnds == \A p \in Programs : call[p].at # "idle" ~> call[p].at = "idle"
=============================================================================
