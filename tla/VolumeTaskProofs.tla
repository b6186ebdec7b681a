-------------------------- MODULE VolumeTaskProofs --------------------------
(***************************************************************************)
(* Proofs about VolumeTask: what an operation reports about its task is     *)
(* true and stays true, and the operations keep the promise of CallPromise. *)
(***************************************************************************)
EXTENDS VolumeTask, SequenceTheorems, TLAPS

DocumentRecord == [state : States, names : VolumeOrNone]
CallRecord == [op : {"none", "create", "delete", "wait"},
               at : {"idle", "post", "wait", "boot"}, bootable : BOOLEAN,
               task : Nat, snapshot : DocumentRecord, vol : VolumeOrNone]
DoneRecord == [op : {"none", "create", "delete", "wait"},
               outcome : {"none", "ok", "TaskFailed", "TypeError", "error"},
               bootable : BOOLEAN, task : Nat, vol : VolumeOrNone]
TaskRecord == [op : {"create", "delete"}, state : States, vol : VolumeOrNone,
               by : Programs, names : VolumeOrNone]

\* The types, and that the bound on the tasks holds.
TypeInv ==
    /\ call \in [Programs -> CallRecord] /\ done \in [Programs -> DoneRecord]
    /\ tasks \in Seq(TaskRecord) /\ Len(tasks) <= MaxTasks
    /\ finished \in Seq(DOMAIN tasks)
    /\ volumes \subseteq AllVolumes /\ boot \subseteq volumes /\ lost \subseteq DOMAIN tasks
    /\ \A p \in Programs : call[p].task <= Len(tasks) /\ done[p].task <= Len(tasks)

Own(p, t, op) == t \in DOMAIN tasks /\ tasks[t].by = p /\ tasks[t].op = op

\* A program waits for a task there is, its own unless it only waits, and a
\* snapshot that shows the end is no longer out of date.
CallOK(p) ==
    LET k == call[p]
    IN  /\ k.at = "idle" <=> k.op = "none"
        /\ k.at # "idle" => done[p] = NotDone
        /\ k.at = "post" => k.op \in {"create", "delete"} /\ k.snapshot = NewDocument
        /\ k.at = "wait" => /\ k.task \in DOMAIN tasks
                            /\ k.op # "wait" => Own(p, k.task, k.op)
                            /\ k.snapshot.state \in Final => k.snapshot = Document(k.task)
        /\ k.at = "boot" => /\ k.op = "create" /\ k.vol = tasks[k.task].vol
                            /\ Own(p, k.task, "create") /\ tasks[k.task].state = "Completed"

\* What an operation has reported is what its task has come to.
DoneOK(p) ==
    LET e == done[p]
    IN  e # NotDone =>
        /\ e.op # "none" /\ e.outcome # "none"
        /\ e.outcome \in {"ok", "TaskFailed", "TypeError"} =>
             /\ e.task \in DOMAIN tasks /\ tasks[e.task].state \in Final
             /\ e.outcome = "TaskFailed" <=> tasks[e.task].state # "Completed"
             /\ e.op # "wait" => Own(p, e.task, e.op)
        /\ e.op = "create" /\ e.outcome = "ok" => e.vol = tasks[e.task].vol
        /\ e.op = "create" /\ e.outcome = "ok" /\ e.bootable =>
              e.vol \in boot \/ e.task \in lost

\* Every task belongs to the operation under way that waits for it, to the one
\* that has reported its end, or to one that ended with an error.
Owned(t) ==
    LET p == tasks[t].by
    IN  \/ call[p].at \in {"wait", "boot"} /\ call[p].op = tasks[t].op /\ call[p].task = t
        \/ /\ done[p] # NotDone /\ done[p].op = tasks[t].op
           /\ done[p].outcome = "error" \/ (done[p].task = t /\ tasks[t].state \in Final)

OneEach == \A t, u \in DOMAIN tasks : tasks[t].by = tasks[u].by => t = u

Made(t) == tasks[t].op = "create" /\ tasks[t].state = "Completed"

\* A task has had its effect exactly if it has completed; a volume it made is
\* there unless it was deleted, and its messages name no other.
EffectOK(t) ==
    /\ tasks[t].state = "Completed" <=> \E i \in DOMAIN finished : finished[i] = t
    /\ tasks[t].names # NoVolume => tasks[t].names = tasks[t].vol
    /\ Made(t) /\ t \notin lost => tasks[t].vol \in volumes

\* No two tasks made the volume of one id, but that the first was deleted.
Apart == \A t, u \in DOMAIN tasks :
            Made(t) /\ Made(u) /\ t \notin lost /\ u \notin lost /\ tasks[t].vol = tasks[u].vol
                => t = u

TaskInv == /\ \A p \in Programs : CallOK(p) /\ DoneOK(p)
           /\ \A t \in DOMAIN tasks : Owned(t) /\ EffectOK(t)
           /\ OneEach /\ Apart

----------------------------------------------------------------------------
(* Type correctness.                                                        *)

\* What the program makes of the record of its operation is such a record again.
LEMMA CallRecords ==
    ASSUME NEW k \in CallRecord
    PROVE  /\ \A n \in Nat : [k EXCEPT !.at = "wait", !.task = n] \in CallRecord
           /\ \A d \in DocumentRecord : [k EXCEPT !.snapshot = d] \in CallRecord
           /\ \A v \in VolumeOrNone : [k EXCEPT !.vol = v] \in CallRecord
           /\ [k EXCEPT !.at = "boot"] \in CallRecord
BY DEF CallRecord

LEMMA TaskTypes ==
    ASSUME TypeInv, NEW t \in DOMAIN tasks
    PROVE  tasks[t] \in TaskRecord /\ Document(t) \in DocumentRecord
<1>1. tasks[t] \in TaskRecord
  BY DEF TypeInv
<1> QED
  BY <1>1 DEF TaskRecord, Document, DocumentRecord

LEMMA NoCallOK == NoCall \in CallRecord /\ NewDocument \in DocumentRecord
  BY DEF NoCall, NewDocument, CallRecord, DocumentRecord, VolumeOrNone, States

LEMMA TypeInit == Init => TypeInv
<1> SUFFICES ASSUME Init PROVE TypeInv
  OBVIOUS
<1>1. NotDone \in DoneRecord
  BY DEF NotDone, DoneRecord, VolumeOrNone
<1>2. NoCall.task = 0 /\ NotDone.task = 0
  BY DEF NoCall, NotDone
<1> QED
  BY <1>1, <1>2, NoCallOK, VolumeTaskAssumption DEF Init, TypeInv, AllVolumes

\* An operation that ends with a known task leaves the types as they are.
LEMMA TypeEnded ==
    ASSUME TypeInv, NEW p \in Programs, NEW k \in CallRecord, NEW n,
           n \in {"ok", "TaskFailed", "TypeError", "error"},
           k.task <= Len(tasks), Ended(p, k, n)
    PROVE  /\ call' \in [Programs -> CallRecord] /\ done' \in [Programs -> DoneRecord]
           /\ \A q \in Programs : call'[q].task <= Len(tasks) /\ done'[q].task <= Len(tasks)
<1> DEFINE e == [op |-> k.op, outcome |-> n, bootable |-> k.bootable,
                 task |-> k.task, vol |-> k.vol]
<1>1. NoCall \in CallRecord /\ NoCall.task <= Len(tasks)
  BY NoCallOK, VolumeTaskAssumption DEF TypeInv, NoCall
<1>2. e \in DoneRecord /\ e.task <= Len(tasks)
  BY DEF CallRecord, DoneRecord
<1>3. call' = [call EXCEPT ![p] = NoCall] /\ done' = [done EXCEPT ![p] = e]
  BY DEF Ended
<1> HIDE DEF e
<1> QED
  BY <1>1, <1>2, <1>3 DEF TypeInv

\* An operation that goes on with a known task does so, too.
LEMMA TypeGoesOn ==
    ASSUME TypeInv, NEW p \in Programs, NEW k \in CallRecord, k.task <= Len(tasks'),
           Len(tasks) <= Len(tasks'), Len(tasks') \in Nat,
           call' = [call EXCEPT ![p] = k], done' = done
    PROVE  /\ call' \in [Programs -> CallRecord] /\ done' \in [Programs -> DoneRecord]
           /\ \A q \in Programs : call'[q].task <= Len(tasks') /\ done'[q].task <= Len(tasks')
<1>1. \A q \in Programs : call[q].task \in Nat /\ done[q].task \in Nat
  BY DEF TypeInv, CallRecord, DoneRecord
<1>2. Len(tasks) \in Nat
  BY DEF TypeInv
<1> QED
  BY <1>1, <1>2 DEF TypeInv

LEMMA TypeBegin ==
    ASSUME TypeInv, NEW p \in Programs, Start(p)
    PROVE  TypeInv'
<1>1. \A t \in DOMAIN tasks : tasks[t] \in TaskRecord /\ t \in Nat /\ t <= Len(tasks)
  BY DEF TypeInv
<1>2. NoCall \in CallRecord /\ NoCall.task <= Len(tasks)
  BY NoCallOK, VolumeTaskAssumption DEF TypeInv, NoCall
<1>3. PICK k : /\ k \in CallRecord /\ k.task <= Len(tasks)
               /\ call' = [call EXCEPT ![p] = k]
  <2>1. CASE \E b \in BOOLEAN : Create(p, b)
    BY <1>2, <2>1 DEF Create, CallRecord, NoCall
  <2>2. CASE \E v \in volumes : Delete(p, v)
    <3>1. \A v \in volumes : v \in VolumeOrNone
      BY DEF TypeInv, VolumeOrNone
    <3> QED
      BY <1>2, <2>2, <3>1 DEF Delete, CallRecord, NoCall
  <2>3. CASE \E t \in DOMAIN tasks : WaitById(p, t)
    BY <1>1, <1>2, <2>3, TaskTypes DEF WaitById, CallRecord, NoCall
  <2> QED
    BY <2>1, <2>2, <2>3 DEF Start
<1>4. UNCHANGED <<server, done>>
  BY DEF Start, Create, Delete, WaitById
<1>5. /\ Len(tasks') \in Nat /\ Len(tasks) <= Len(tasks') /\ k.task <= Len(tasks')
      /\ done' = done
  BY <1>3, <1>4 DEF TypeInv, server
<1>6. /\ call' \in [Programs -> CallRecord] /\ done' \in [Programs -> DoneRecord]
      /\ \A q \in Programs : call'[q].task <= Len(tasks') /\ done'[q].task <= Len(tasks')
  BY <1>3, <1>4, <1>5, TypeGoesOn
<1> QED
  BY <1>4, <1>6 DEF TypeInv, server

LEMMA TypeStarted ==
    ASSUME TypeInv, NEW p \in Programs, call[p].at = "post", call[p].op \in {"create", "delete"},
           Len(tasks) < MaxTasks, Started(p, call[p])
    PROVE  /\ tasks' \in Seq(TaskRecord) /\ Len(tasks') <= MaxTasks
           /\ Len(tasks') = Len(tasks) + 1 /\ DOMAIN tasks \subseteq DOMAIN tasks'
<1> DEFINE t == [op |-> call[p].op, vol |-> call[p].vol, state |-> "New", by |-> p,
                 names |-> NoVolume]
<1>1. t \in TaskRecord
  BY DEF TypeInv, CallRecord, TaskRecord, States, VolumeOrNone
<1>2. tasks' = Append(tasks, t)
  BY DEF Started
<1> HIDE DEF t
<1> QED
  BY <1>1, <1>2, VolumeTaskAssumption DEF TypeInv

\* The steps of a program, and those of the server.
LEMMA TypeProgram ==
    ASSUME TypeInv, TaskInv, NEW p \in Programs, Step(p) \/ ReloadFailed(p)
    PROVE  TypeInv'
<1> DEFINE k == call[p]
<1>1. /\ k \in CallRecord /\ k.task <= Len(tasks) /\ CallOK(p)
      /\ Len(tasks) \in Nat /\ done \in [Programs -> DoneRecord]
      /\ [k EXCEPT !.vol = k.snapshot.names] \in CallRecord
  <2>1. k \in CallRecord /\ k.task <= Len(tasks) /\ Len(tasks) \in Nat
    BY DEF TypeInv
  <2>2. k.snapshot.names \in VolumeOrNone
    BY <2>1 DEF CallRecord, DocumentRecord
  <2>3. CallOK(p)
    BY DEF TaskInv
  <2> QED
    BY <2>1, <2>2, <2>3, CallRecords DEF TypeInv
<1> DEFINE CallDone == /\ call' \in [Programs -> CallRecord] /\ done' \in [Programs -> DoneRecord]
                       /\ \A q \in Programs : /\ call'[q].task <= Len(tasks')
                                              /\ done'[q].task <= Len(tasks')
<1>2. CASE Posted(p)
  <2>1. /\ tasks' \in Seq(TaskRecord) /\ Len(tasks') <= MaxTasks
        /\ Len(tasks') = Len(tasks) + 1 /\ DOMAIN tasks \subseteq DOMAIN tasks'
    BY <1>1, <1>2, TypeStarted DEF Posted, CallOK
  <2>2. [k EXCEPT !.at = "wait", !.task = Len(tasks) + 1] \in CallRecord
    <3>1. k \in CallRecord /\ Len(tasks) + 1 \in Nat
      BY <1>1
    <3> QED
      BY <3>1, CallRecords
  <2>3. call' = [call EXCEPT ![p] = [k EXCEPT !.at = "wait", !.task = Len(tasks) + 1]]
    BY <1>2 DEF Posted, TypeInv
  <2>4. CallDone
    <3>1. /\ Len(tasks) <= Len(tasks') /\ Len(tasks') \in Nat /\ done' = done
          /\ [k EXCEPT !.at = "wait", !.task = Len(tasks) + 1].task <= Len(tasks')
      BY <1>1, <1>2, <2>1 DEF Posted, CallRecord
    <3> QED
      BY <2>2, <2>3, <3>1, TypeGoesOn
  <2>5. finished \in Seq(DOMAIN tasks')
    BY <2>1, SeqMonotonic DEF TypeInv
  <2> QED
    BY <1>2, <2>1, <2>4, <2>5 DEF Posted, TypeInv
<1>3. CASE PostFailed(p)
  <2>1. /\ tasks' \in Seq(TaskRecord) /\ Len(tasks') <= MaxTasks
        /\ Len(tasks') >= Len(tasks) /\ DOMAIN tasks \subseteq DOMAIN tasks'
        /\ Len(tasks') \in Nat
    <3>1. CASE UNCHANGED tasks
      BY <1>1, <3>1 DEF TypeInv
    <3>2. CASE Len(tasks) < MaxTasks /\ Started(p, k)
      BY <1>1, <1>3, <3>2, TypeStarted DEF PostFailed, CallOK
    <3> QED
      BY <1>3, <3>1, <3>2 DEF PostFailed
  <2>2. /\ call' \in [Programs -> CallRecord] /\ done' \in [Programs -> DoneRecord]
        /\ \A q \in Programs : call'[q].task <= Len(tasks) /\ done'[q].task <= Len(tasks)
    BY <1>1, <1>3, TypeEnded DEF PostFailed
  <2>3. \A q \in Programs : call'[q].task \in Nat /\ done'[q].task \in Nat
    BY <2>2 DEF CallRecord, DoneRecord
  <2>4. finished \in Seq(DOMAIN tasks')
    BY <2>1, SeqMonotonic DEF TypeInv
  <2>5. CallDone
    BY <1>1, <2>1, <2>2, <2>3
  <2> QED
    BY <1>3, <2>1, <2>4, <2>5 DEF PostFailed, TypeInv
<1>4. ASSUME tasks' = tasks, volumes' = volumes, lost' = lost, finished' = finished,
             boot' \subseteq volumes, CallDone
      PROVE  TypeInv'
  BY <1>4 DEF TypeInv
<1>5. ASSUME NEW j \in CallRecord, j.task <= Len(tasks), NEW n,
             n \in {"ok", "TaskFailed", "TypeError", "error"},
             tasks' = tasks, Ended(p, j, n)
      PROVE  CallDone
  BY <1>5, TypeEnded
<1>6. ASSUME NEW j \in CallRecord, j.task <= Len(tasks), tasks' = tasks, done' = done,
             call' = [call EXCEPT ![p] = j]
      PROVE  CallDone
  <2>1. j.task <= Len(tasks') /\ Len(tasks) <= Len(tasks') /\ Len(tasks') \in Nat
    BY <1>1, <1>6
  <2> QED
    BY <1>6, <2>1, TypeGoesOn
<1> HIDE DEF CallDone
<1>7. CASE Reload(p)
  <2>1. [k EXCEPT !.snapshot = Document(k.task)] \in CallRecord
    <3>1. k.task \in DOMAIN tasks
      BY <1>1, <1>7 DEF Reload, CallOK
    <3> QED
      BY <1>1, <3>1, TaskTypes, CallRecords
  <2>2. call' = [call EXCEPT ![p] = [k EXCEPT !.snapshot = Document(k.task)]]
    BY <1>7 DEF Reload, TypeInv
  <2>3. [k EXCEPT !.snapshot = Document(k.task)].task <= Len(tasks)
    BY <1>1 DEF CallRecord
  <2>4. CallDone
    BY <1>6, <1>7, <2>1, <2>2, <2>3 DEF Reload, server
  <2> QED
    BY <1>4, <1>7, <2>4 DEF Reload, server, TypeInv
<1>8. CASE Created(p)
  <2> DEFINE j == [k EXCEPT !.vol = k.snapshot.names]
  <2>1. j \in CallRecord /\ j.task <= Len(tasks)
        /\ [j EXCEPT !.at = "boot"] \in CallRecord /\ [j EXCEPT !.at = "boot"].task <= Len(tasks)
    BY <1>1 DEF CallRecord
  <2>2. \/ call' = [call EXCEPT ![p] = [j EXCEPT !.at = "boot"]] /\ done' = done
        \/ Ended(p, j, "ok")
    BY <1>8 DEF Created
  <2> HIDE DEF j
  <2>3. CallDone
    BY <1>5, <1>6, <1>8, <2>1, <2>2 DEF Created, server
  <2> QED
    BY <1>4, <1>8, <2>3 DEF Created, server, TypeInv
<1>9. CASE SetBootable(p)
  <2>1. CallDone
    BY <1>1, <1>5, <1>9 DEF SetBootable
  <2> QED
    BY <1>4, <1>9, <2>1 DEF SetBootable, TypeInv
<1>10. CASE \/ CreateFailed(p) \/ CreatedNameless(p) \/ SetBootableFailed(p) \/ Deleted(p)
            \/ ReloadFailed(p)
  <2>1. /\ UNCHANGED <<tasks, volumes, lost, finished>> /\ boot' \subseteq volumes
        /\ \E n \in {"ok", "TaskFailed", "TypeError", "error"} : Ended(p, k, n)
    <3>1. boot \subseteq volumes
      BY DEF TypeInv
    <3> QED
      BY <1>10, <3>1 DEF CreateFailed, CreatedNameless, SetBootableFailed, Deleted,
         ReloadFailed, server
  <2>2. CallDone
    BY <1>1, <1>5, <2>1
  <2> QED
    BY <1>4, <2>1, <2>2
<1> QED
  BY <1>2, <1>3, <1>7, <1>8, <1>9, <1>10 DEF Step

\* Task t becomes k, with what that changes: nothing, a new volume, or one less.
Becomes(t, k) ==
    /\ tasks' = [tasks EXCEPT ![t] = k]
    /\ k.op = tasks[t].op /\ k.by = tasks[t].by
    /\ \/ /\ k.state # "Completed" /\ k.vol = tasks[t].vol /\ k.names = tasks[t].names
          /\ UNCHANGED <<volumes, boot, lost, finished>>
       \/ /\ k.state = "Completed" /\ finished' = Append(finished, t)
          /\ k.op = "create" /\ k.vol \in AllVolumes \ volumes /\ k.names \in {k.vol, NoVolume}
          /\ volumes' = volumes \cup {k.vol} /\ UNCHANGED <<boot, lost>>
       \/ /\ k.state = "Completed" /\ finished' = Append(finished, t)
          /\ k.op = "delete" /\ k.vol = tasks[t].vol /\ k.names = tasks[t].names
          /\ volumes' = volumes \ {k.vol} /\ boot' = boot \ {k.vol}
          /\ lost' = lost \cup MadeBy(k.vol)

LEMMA ServerStep ==
    ASSUME TypeInv, NEW t \in DOMAIN tasks, Advance(t) \/ Finish(t)
    PROVE  /\ UNCHANGED <<call, done>> /\ tasks[t].state \notin Final
           /\ \E k \in TaskRecord : Becomes(t, k)
<1>1. tasks \in [DOMAIN tasks -> TaskRecord] /\ tasks[t] \in TaskRecord
  BY DEF TypeInv
<1>2. UNCHANGED <<call, done>> /\ tasks[t].state \notin Final
  BY DEF Advance, Finish
<1>3. ASSUME NEW s \in States
      PROVE  /\ [tasks[t] EXCEPT !.state = s] \in TaskRecord
             /\ [tasks[t] EXCEPT !.state = s].state = s
             /\ [tasks[t] EXCEPT !.state = s].op = tasks[t].op
             /\ [tasks[t] EXCEPT !.state = s].by = tasks[t].by
             /\ [tasks[t] EXCEPT !.state = s].vol = tasks[t].vol
             /\ [tasks[t] EXCEPT !.state = s].names = tasks[t].names
  BY <1>1, <1>3 DEF TaskRecord
<1>4. ASSUME NEW s \in States, s # "Completed", tasks' = [tasks EXCEPT ![t].state = s],
             UNCHANGED <<volumes, boot, lost, finished>>
      PROVE  \E k \in TaskRecord : Becomes(t, k)
  <2>1. PICK k \in TaskRecord : k = [tasks[t] EXCEPT !.state = s]
    BY <1>3, <1>4
  <2>2. tasks' = [tasks EXCEPT ![t] = k]
    BY <1>4, <2>1
  <2>3. /\ k.state = s /\ k.op = tasks[t].op /\ k.by = tasks[t].by
        /\ k.vol = tasks[t].vol /\ k.names = tasks[t].names
    BY <1>3, <1>4, <2>1
  <2> QED
    BY <1>4, <2>2, <2>3 DEF Becomes
<1>5. CASE Advance(t)
  <2>1. PICK s \in Busy : tasks' = [tasks EXCEPT ![t].state = s]
    BY <1>5 DEF Advance
  <2>2. s \in States /\ s # "Completed"
    BY VolumeTaskAssumption DEF States
  <2> QED
    BY <1>2, <1>4, <1>5, <2>1, <2>2 DEF Advance
<1>6. CASE Fail(t)
  <2>1. PICK s \in Final \ {"Completed"} : tasks' = [tasks EXCEPT ![t].state = s]
    BY <1>6 DEF Fail
  <2>2. s \in States /\ s # "Completed" /\ UNCHANGED <<volumes, boot, lost, finished>>
    BY <1>6 DEF States, Fail
  <2> QED
    BY <1>2, <1>4, <2>1, <2>2
<1>7. CASE FinishCreate(t) /\ finished' = Append(finished, t)
  <2>1. PICK v \in AllVolumes \ volumes, named \in BOOLEAN :
          /\ tasks' = [tasks EXCEPT ![t].state = "Completed", ![t].vol = v,
                                    ![t].names = IF named THEN v ELSE NoVolume]
          /\ volumes' = volumes \cup {v}
    BY <1>7 DEF FinishCreate
  <2>2. PICK n \in {v, NoVolume} : n = IF named THEN v ELSE NoVolume
    OBVIOUS
  <2> DEFINE k == [tasks[t] EXCEPT !.state = "Completed", !.vol = v, !.names = n]
  <2>3. tasks' = [tasks EXCEPT ![t] = k]
    BY <1>1, <2>1, <2>2
  <2>4. n \in VolumeOrNone /\ v \in VolumeOrNone /\ "Completed" \in States
    BY DEF VolumeOrNone, States, Final
  <2>5. k \in TaskRecord
    BY <1>1, <2>4 DEF TaskRecord
  <2>6. /\ k.state = "Completed" /\ k.op = tasks[t].op /\ k.by = tasks[t].by
        /\ k.vol = v /\ k.names = n
    BY <1>1 DEF TaskRecord
  <2> HIDE DEF k
  <2> QED
    <3>1. /\ UNCHANGED <<boot, lost>> /\ finished' = Append(finished, t)
          /\ tasks[t].op = "create"
      BY <1>7 DEF FinishCreate
    <3>2. Becomes(t, k)
      BY <2>1, <2>2, <2>3, <2>6, <3>1 DEF Becomes
    <3> QED
      BY <1>2, <2>5, <3>2
<1>8. CASE FinishDelete(t) /\ finished' = Append(finished, t)
  <2>1. "Completed" \in States
    BY DEF States, Final
  <2>2. PICK k \in TaskRecord : k = [tasks[t] EXCEPT !.state = "Completed"]
    BY <1>3, <2>1
  <2>3. /\ k.state = "Completed" /\ k.op = tasks[t].op /\ k.by = tasks[t].by
        /\ k.vol = tasks[t].vol /\ k.names = tasks[t].names
    BY <1>3, <2>1, <2>2
  <2>4. tasks' = [tasks EXCEPT ![t] = k]
    BY <1>8, <2>2 DEF FinishDelete
  <2> QED
    <3>1. /\ volumes' = volumes \ {tasks[t].vol} /\ boot' = boot \ {tasks[t].vol}
          /\ lost' = lost \cup MadeBy(tasks[t].vol) /\ finished' = Append(finished, t)
          /\ tasks[t].op = "delete"
      BY <1>8 DEF FinishDelete
    <3>2. Becomes(t, k)
      BY <2>3, <2>4, <3>1 DEF Becomes
    <3> QED
      BY <1>2, <3>2
<1> QED
  BY <1>2, <1>5, <1>6, <1>7, <1>8 DEF Finish

LEMMA TypeServer ==
    ASSUME TypeInv, NEW t \in DOMAIN tasks, Advance(t) \/ Finish(t)
    PROVE  TypeInv'
<1>1. UNCHANGED <<call, done>>
  BY ServerStep
<1>2. PICK k \in TaskRecord : Becomes(t, k)
  BY ServerStep
<1>3. tasks' \in Seq(TaskRecord) /\ Len(tasks') = Len(tasks) /\ DOMAIN tasks' = DOMAIN tasks
  BY <1>2 DEF Becomes, TypeInv
<1>4. finished' \in Seq(DOMAIN tasks')
  <2>1. finished \in Seq(DOMAIN tasks)
    BY DEF TypeInv
  <2>2. Append(finished, t) \in Seq(DOMAIN tasks)
    BY <2>1
  <2> QED
    BY <1>2, <1>3, <2>1, <2>2 DEF Becomes
<1>5. volumes' \subseteq AllVolumes /\ boot' \subseteq volumes' /\ lost' \subseteq DOMAIN tasks
  BY <1>2 DEF Becomes, TypeInv, MadeBy
<1> QED
  BY <1>1, <1>3, <1>4, <1>5 DEF TypeInv

LEMMA TypeNext == TypeInv /\ TaskInv /\ [Next]_vars => TypeInv'
<1> SUFFICES ASSUME TypeInv, TaskInv, [Next]_vars PROVE TypeInv'
  OBVIOUS
<1>1. ASSUME NEW p \in Programs, Start(p) PROVE TypeInv'
  BY <1>1, TypeBegin
<1>2. ASSUME NEW p \in Programs, Step(p) \/ ReloadFailed(p) PROVE TypeInv'
  BY <1>2, TypeProgram
<1>3. ASSUME NEW t \in DOMAIN tasks, Advance(t) \/ Finish(t) PROVE TypeInv'
  BY <1>3, TypeServer
<1>4. CASE UNCHANGED vars
  BY <1>4 DEF vars, TypeInv
<1> QED
  BY <1>1, <1>2, <1>3, <1>4 DEF Next

LEMMA TypeImplied == TypeInv => TypeOK
<1> SUFFICES ASSUME TypeInv PROVE TypeOK
  OBVIOUS
<1>1. ASSUME NEW p \in Programs
      PROVE /\ call[p] \in CallRecord /\ call[p].task <= Len(tasks)
            /\ done[p] \in DoneRecord /\ done[p].task <= Len(tasks)
  BY DEF TypeInv
<1>2. Len(tasks) \in Nat
  BY DEF TypeInv
<1>3. ASSUME NEW p \in Programs
      PROVE  /\ call[p] \in [op : {"none", "create", "delete", "wait"},
                             at : {"idle", "post", "wait", "boot"}, bootable : BOOLEAN,
                             task : 0 .. Len(tasks), vol : VolumeOrNone,
                             snapshot : [state : States, names : VolumeOrNone]]
             /\ done[p] \in [op : {"none", "create", "delete", "wait"},
                             outcome : {"none", "ok", "TaskFailed", "TypeError", "error"},
                             bootable : BOOLEAN, task : 0 .. Len(tasks), vol : VolumeOrNone]
  BY <1>1, <1>2 DEF CallRecord, DoneRecord, DocumentRecord
<1>4. \A t \in DOMAIN tasks : tasks[t] \in TaskRecord
  BY TaskTypes
<1> QED
  BY <1>3, <1>4 DEF TypeOK, TypeInv, TaskRecord

----------------------------------------------------------------------------
(* What an operation reports is so.                                         *)

LEMMA TaskInit == Init => TaskInv
BY DEF Init, TaskInv, CallOK, DoneOK, Owned, EffectOK, OneEach, Apart, NoCall

\* An operation under way has not been reported, so its tasks are those it
\* waits for.
LEMMA OwnTask ==
    ASSUME TypeInv, TaskInv, NEW p \in Programs, NEW t \in DOMAIN tasks, tasks[t].by = p,
           done[p] = NotDone
    PROVE  call[p].at \in {"wait", "boot"} /\ call[p].op = tasks[t].op /\ call[p].task = t
BY DEF TaskInv, Owned

\* A step of program p that at most adds tasks of its own and bootable volumes
\* disturbs no other program and no task.
LEMMA OthersStay ==
    ASSUME TypeInv, TaskInv, NEW p \in Programs, NEW k, NEW e,
           call' = [call EXCEPT ![p] = k], done' = [done EXCEPT ![p] = e],
           \A t \in DOMAIN tasks : t \in DOMAIN tasks' /\ tasks'[t] = tasks[t],
           boot \subseteq boot', UNCHANGED <<volumes, lost, finished>>
    PROVE  /\ \A q \in Programs \ {p} : (CallOK(q) /\ DoneOK(q))'
           /\ \A t \in DOMAIN tasks : EffectOK(t)' /\ (tasks[t].by # p => Owned(t)')
<1>1. ASSUME NEW q \in Programs \ {p} PROVE (CallOK(q) /\ DoneOK(q))'
  <2>1. call'[q] = call[q] /\ done'[q] = done[q]
    BY DEF TypeInv
  <2>2. CallOK(q) /\ DoneOK(q)
    BY DEF TaskInv
  <2>3. CallOK(q)'
    BY <2>1, <2>2 DEF CallOK, Own, Document
  <2>4. DoneOK(q)'
    BY <2>1, <2>2 DEF DoneOK, Own
  <2> QED
    BY <2>3, <2>4
<1>2. ASSUME NEW t \in DOMAIN tasks PROVE EffectOK(t)' /\ (tasks[t].by # p => Owned(t)')
  <2>1. tasks'[t] = tasks[t] /\ tasks[t].by \in Programs
    BY TaskTypes DEF TaskRecord
  <2>2. EffectOK(t) /\ Owned(t)
    BY DEF TaskInv
  <2>3. EffectOK(t)'
    BY <2>1, <2>2 DEF EffectOK, Made
  <2>4. ASSUME tasks[t].by # p PROVE Owned(t)'
    BY <2>1, <2>2, <2>4 DEF Owned, TypeInv
  <2> QED
    BY <2>3, <2>4
<1> QED
  BY <1>1, <1>2

\* The same, for a step that adds no task: what is left to show is about p.
LEMMA ProgramStays ==
    ASSUME TypeInv, TaskInv, NEW p \in Programs, NEW k, NEW e,
           call' = [call EXCEPT ![p] = k], done' = [done EXCEPT ![p] = e],
           boot \subseteq boot', UNCHANGED <<tasks, volumes, lost, finished>>,
           CallOK(p)', DoneOK(p)',
           \A t \in DOMAIN tasks : tasks[t].by = p => Owned(t)'
    PROVE  TaskInv'
<1>1. /\ \A q \in Programs \ {p} : (CallOK(q) /\ DoneOK(q))'
      /\ \A t \in DOMAIN tasks : EffectOK(t)' /\ (tasks[t].by # p => Owned(t)')
  BY OthersStay
<1>2. OneEach' /\ Apart'
  BY DEF TaskInv, OneEach, Apart, Made
<1> QED
  BY <1>1, <1>2 DEF TaskInv

LEMMA TaskBegin ==
    ASSUME TypeInv, TaskInv, NEW p \in Programs, Start(p)
    PROVE  TaskInv'
<1>1. UNCHANGED <<server, done>> /\ call[p].at = "idle" /\ done[p] = NotDone
  BY DEF Start, Create, Delete, WaitById
<1>2. \A t \in DOMAIN tasks : tasks[t].by # p
  BY <1>1, OwnTask
<1>3. done' = [done EXCEPT ![p] = NotDone]
  BY <1>1 DEF TypeInv
<1>4. ASSUME NEW k, call' = [call EXCEPT ![p] = k],
             \/ /\ k.at = "post" /\ k.snapshot = NewDocument /\ k.op \in {"create", "delete"}
             \/ /\ k.at = "wait" /\ k.op = "wait" /\ k.task \in DOMAIN tasks
                /\ k.snapshot = Document(k.task)
      PROVE  TaskInv'
  <2>1. call'[p] = k /\ done'[p] = NotDone /\ tasks' = tasks
    BY <1>1, <1>3, <1>4 DEF TypeInv, server
  <2>2. CallOK(p)' /\ DoneOK(p)'
    BY <1>4, <2>1 DEF CallOK, DoneOK, Document
  <2> QED
    BY <1>1, <1>2, <1>3, <1>4, <2>2, ProgramStays DEF server
<1>5. CASE \E b \in BOOLEAN : Create(p, b)
  BY <1>4, <1>5 DEF Create, NoCall
<1>6. CASE \E v \in volumes : Delete(p, v)
  BY <1>4, <1>6 DEF Delete, NoCall
<1>7. CASE \E t \in DOMAIN tasks : WaitById(p, t)
  BY <1>4, <1>7 DEF WaitById, NoCall
<1> QED
  BY <1>5, <1>6, <1>7 DEF Start

\* An operation that ends tells the truth if its task has come to the end it
\* reports.
LEMMA TaskEnded ==
    ASSUME TypeInv, TaskInv, NEW p \in Programs, NEW k, NEW n, Ended(p, k, n),
           call[p].at \in {"wait", "boot"}, k.op = call[p].op, k.task = call[p].task,
           n # "none",
           n # "error" => /\ tasks[k.task].state \in Final
                          /\ n = "TaskFailed" <=> tasks[k.task].state # "Completed",
           k.op = "create" /\ n = "ok" => /\ k.vol = tasks[k.task].vol
                                          /\ (k.bootable => k.vol \in boot'),
           boot \subseteq boot', UNCHANGED <<tasks, volumes, lost, finished>>
    PROVE  TaskInv'
<1> DEFINE e == [op |-> k.op, outcome |-> n, bootable |-> k.bootable,
                 task |-> k.task, vol |-> k.vol]
<1>1. CallOK(p) /\ done[p] = NotDone
  BY DEF TaskInv, CallOK
<1>2. call' = [call EXCEPT ![p] = NoCall] /\ done' = [done EXCEPT ![p] = e]
  BY DEF Ended
<1>3. call'[p] = NoCall /\ done'[p] = e
  BY <1>2 DEF TypeInv
<1>4. CallOK(p)'
  BY <1>3 DEF CallOK, NoCall
<1>5. DoneOK(p)'
  BY <1>1, <1>3 DEF DoneOK, CallOK, Own
<1>6. ASSUME NEW t \in DOMAIN tasks, tasks[t].by = p PROVE Owned(t)'
  <2>1. call[p].op = tasks[t].op /\ call[p].task = t
    BY <1>1, <1>6, OwnTask
  <2>2. e # NotDone
    BY <1>1 DEF CallOK, NotDone
  <2> QED
    BY <1>3, <1>6, <2>1, <2>2 DEF Owned
<1> QED
  BY <1>2, <1>4, <1>5, <1>6, ProgramStays

LEMMA TaskPosted ==
    ASSUME TypeInv, TaskInv, NEW p \in Programs, Posted(p) \/ PostFailed(p)
    PROVE  TaskInv'
<1> DEFINE k == call[p]
           e == [op |-> k.op, outcome |-> "error", bootable |-> k.bootable,
                 task |-> k.task, vol |-> k.vol]
<1>0. PICK n \in Nat : n = Len(tasks) + 1
  BY DEF TypeInv
<1>1. /\ k.at = "post" /\ k.op \in {"create", "delete"} /\ k.snapshot = NewDocument
      /\ done[p] = NotDone
  BY DEF TaskInv, CallOK, Posted, PostFailed
<1>2. \A t \in DOMAIN tasks : tasks[t].by # p
  BY <1>1, OwnTask
<1>3. \/ tasks' = tasks
      \/ Started(p, k)
  BY DEF Posted, PostFailed
<1>4. /\ DOMAIN tasks = 1 .. Len(tasks) /\ Len(tasks) \in Nat
      /\ \A i \in DOMAIN finished : finished[i] \in DOMAIN tasks
      /\ n \notin DOMAIN tasks
  BY <1>0 DEF TypeInv
<1>5. /\ \A t \in DOMAIN tasks : t \in DOMAIN tasks' /\ tasks'[t] = tasks[t]
      /\ \A t \in DOMAIN tasks' \ DOMAIN tasks :
            t = n /\ tasks'[t].by = p /\ tasks'[t].op = k.op /\ tasks'[t].state = "New"
            /\ tasks'[t].names = NoVolume
  BY <1>0, <1>3, <1>4 DEF Started, TypeInv
<1>6. UNCHANGED <<volumes, boot, lost, finished>>
  BY DEF Posted, PostFailed
<1>7. \/ /\ n \in DOMAIN tasks' /\ done' = [done EXCEPT ![p] = NotDone]
         /\ call' = [call EXCEPT ![p] = [k EXCEPT !.at = "wait", !.task = n]]
      \/ call' = [call EXCEPT ![p] = NoCall] /\ done' = [done EXCEPT ![p] = e]
  <2>1. CASE Posted(p)
    <3>1. n \in DOMAIN tasks'
      BY <1>0, <1>4, <2>1 DEF Posted, Started, TypeInv
    <3>2. done' = [done EXCEPT ![p] = NotDone]
      BY <1>1, <2>1 DEF Posted, TypeInv
    <3>3. call' = [call EXCEPT ![p] = [k EXCEPT !.at = "wait", !.task = n]]
      BY <1>0, <2>1 DEF Posted, TypeInv
    <3> QED
      BY <3>1, <3>2, <3>3
  <2>2. CASE PostFailed(p)
    BY <2>2 DEF PostFailed, Ended
  <2> QED
    BY <2>1, <2>2
<1>8. /\ \A q \in Programs \ {p} : (CallOK(q) /\ DoneOK(q))'
      /\ \A t \in DOMAIN tasks : EffectOK(t)' /\ (tasks[t].by # p => Owned(t)')
  BY <1>5, <1>6, <1>7, OthersStay
<1>9. CallOK(p)' /\ DoneOK(p)' /\ (n \in DOMAIN tasks' \ DOMAIN tasks => Owned(n)')
  <2>1. CASE /\ n \in DOMAIN tasks' /\ done' = [done EXCEPT ![p] = NotDone]
             /\ call' = [call EXCEPT ![p] = [k EXCEPT !.at = "wait", !.task = n]]
    <3>1. call'[p] = [k EXCEPT !.at = "wait", !.task = n] /\ done'[p] = NotDone
      BY <2>1 DEF TypeInv
    <3>2. call'[p].at = "wait" /\ call'[p].task = n /\ call'[p].op = k.op
          /\ call'[p].snapshot = NewDocument
      BY <1>1, <3>1 DEF TypeInv, CallRecord
    <3>3. n \notin DOMAIN tasks
      BY <1>4
    <3>4. tasks'[n].by = p /\ tasks'[n].op = k.op
      BY <1>5, <2>1, <3>3
    <3>5. CallOK(p)'
      BY <1>1, <2>1, <3>1, <3>2, <3>4 DEF CallOK, Own, Final, NewDocument
    <3>6. DoneOK(p)'
      BY <3>1 DEF DoneOK
    <3>7. Owned(n)'
      BY <3>2, <3>4 DEF Owned
    <3> QED
      BY <3>5, <3>6, <3>7
  <2>2. CASE call' = [call EXCEPT ![p] = NoCall] /\ done' = [done EXCEPT ![p] = e]
    <3>1. call'[p] = NoCall /\ done'[p] = e
      BY <2>2 DEF TypeInv
    <3>2. CallOK(p)' /\ DoneOK(p)'
      BY <1>1, <3>1 DEF CallOK, DoneOK, NoCall
    <3>3. e # NotDone
      BY <1>1 DEF NotDone
    <3>4. ASSUME n \in DOMAIN tasks' \ DOMAIN tasks PROVE Owned(n)'
      BY <1>5, <3>1, <3>3, <3>4 DEF Owned
    <3> QED
      BY <3>2, <3>4
  <2> QED
    BY <1>7, <2>1, <2>2
<1>10. ASSUME NEW t \in DOMAIN tasks' PROVE Owned(t)' /\ EffectOK(t)'
  <2>1. CASE t \in DOMAIN tasks
    BY <1>2, <1>8, <2>1
  <2>2. CASE t \notin DOMAIN tasks
    BY <1>4, <1>5, <1>6, <1>9, <1>10, <2>2 DEF EffectOK, Made
  <2> QED
    BY <2>1, <2>2
<1>11. OneEach' /\ Apart'
  <2>1. OneEach'
    BY <1>2, <1>5 DEF TaskInv, OneEach
  <2>2. Apart'
    BY <1>5, <1>6 DEF TaskInv, Apart, Made
  <2> QED
    BY <2>1, <2>2
<1> QED
  BY <1>8, <1>9, <1>10, <1>11 DEF TaskInv

LEMMA TaskProgram ==
    ASSUME TypeInv, TaskInv, NEW p \in Programs, Step(p) \/ ReloadFailed(p)
    PROVE  TaskInv'
<1> DEFINE k == call[p]
<1>1. k \in CallRecord /\ CallOK(p) /\ (k.at # "idle" => done[p] = NotDone)
  BY DEF TypeInv, TaskInv, CallOK
<1>2. CASE Posted(p) \/ PostFailed(p)
  BY <1>2, TaskPosted
<1>3. ASSUME NEW j, call' = [call EXCEPT ![p] = j], UNCHANGED <<server, done>>,
             done[p] = NotDone, j.at \in {"wait", "boot"}, j.op = k.op, j.task = k.task,
             k.at \in {"wait", "boot"}, CallOK(p)'
      PROVE  TaskInv'
  <2>1. call'[p] = j /\ done' = [done EXCEPT ![p] = NotDone] /\ done'[p] = NotDone
    BY <1>3 DEF TypeInv
  <2>2. DoneOK(p)'
    BY <2>1 DEF DoneOK
  <2>3. ASSUME NEW t \in DOMAIN tasks, tasks[t].by = p PROVE Owned(t)'
    BY <1>3, <2>1, <2>3, OwnTask DEF Owned, server
  <2> QED
    BY <1>3, <2>1, <2>2, <2>3, ProgramStays DEF server
<1>4. CASE Reload(p)
  <2> DEFINE j == [k EXCEPT !.snapshot = Document(k.task)]
  <2>1. call' = [call EXCEPT ![p] = j] /\ UNCHANGED <<server, done>> /\ k.at = "wait"
    BY <1>4 DEF Reload, TypeInv
  <2>2. call'[p] = j /\ j.at = "wait" /\ j.op = k.op /\ j.task = k.task
        /\ j.snapshot = Document(k.task)
    BY <1>1, <2>1 DEF TypeInv, CallRecord
  <2>3. CallOK(p)'
    BY <1>1, <2>1, <2>2 DEF CallOK, Own, Document, server
  <2> QED
    BY <1>1, <1>3, <2>1, <2>2, <2>3
<1>5. CASE ReloadFailed(p)
  BY <1>1, <1>5, TaskEnded DEF ReloadFailed, server
<1>6. CASE CreateFailed(p)
  <2>1. tasks[k.task].state \in Final \ {"Completed"}
    BY <1>1, <1>6 DEF CreateFailed, Processed, CallOK, TASK_STATUS_FAILED, Final, Document
  <2> QED
    BY <1>6, <2>1, TaskEnded DEF CreateFailed, Processed, server
<1>7. CASE Created(p)
  <2> DEFINE j == [k EXCEPT !.vol = k.snapshot.names]
  <2>0. PICK n : n = k.snapshot.names
    OBVIOUS
  <2>1. /\ k.at = "wait" /\ k.op = "create" /\ UNCHANGED server
        /\ Own(p, k.task, "create") /\ tasks[k.task].state = "Completed"
        /\ n # NoVolume /\ tasks[k.task].names = n
    <3>1. /\ j.at = k.at /\ j.op = k.op /\ j.snapshot = k.snapshot /\ j.vol = n
      BY <1>1, <2>0 DEF CallRecord
    <3>2. Completed(j) /\ j.vol # NoVolume /\ UNCHANGED server
      BY <1>7 DEF Created
    <3> HIDE DEF j
    <3>3. k.at = "wait" /\ k.op = "create" /\ k.snapshot.state = "Completed" /\ n # NoVolume
      BY <3>1, <3>2 DEF Completed, Processed, TASK_STATUS_FAILED, TASK_STATUS_PROCESSED
    <3>4. k.snapshot = Document(k.task) /\ Own(p, k.task, "create")
      BY <1>1, <3>3 DEF CallOK, Final
    <3> QED
      BY <2>0, <3>2, <3>3, <3>4 DEF Document
  <2>v. tasks[k.task].vol = n
    BY <2>1 DEF TaskInv, EffectOK, Own
  <2>2. /\ j.op = "create" /\ j.task = k.task /\ j.vol = n /\ j.bootable = k.bootable
    BY <1>1, <2>0, <2>1 DEF CallRecord
  <2>3. CASE call' = [call EXCEPT ![p] = [j EXCEPT !.at = "boot"]] /\ done' = done
    <3>1. call'[p] = [j EXCEPT !.at = "boot"]
      BY <2>3 DEF TypeInv
    <3>2. /\ call'[p].at = "boot" /\ call'[p].op = "create" /\ call'[p].task = k.task
          /\ call'[p].vol = n
      BY <1>1, <2>0, <2>1, <3>1 DEF CallRecord
    <3>3. CallOK(p)'
      BY <1>1, <2>1, <2>3, <2>v, <3>2 DEF CallOK, Own, server
    <3> QED
      BY <1>1, <1>3, <2>1, <2>3, <3>1, <3>2, <3>3
  <2>4. CASE Ended(p, j, "ok") /\ ~ k.bootable
    <3> HIDE DEF j
    <3> QED
      BY <2>1, <2>2, <2>v, <2>4, TaskEnded DEF server, Final
  <2>5. \/ call' = [call EXCEPT ![p] = [j EXCEPT !.at = "boot"]] /\ done' = done
        \/ Ended(p, j, "ok") /\ ~ j.bootable
    BY <1>7 DEF Created
  <2> QED
    BY <2>2, <2>3, <2>4, <2>5
<1>8. CASE CreatedNameless(p)
  <2>1. tasks[k.task].state = "Completed" /\ k.at = "wait" /\ k.op = "create"
    <3>1. k.at = "wait" /\ k.op = "create" /\ k.snapshot.state = "Completed"
      BY <1>8 DEF CreatedNameless, Completed, Processed, TASK_STATUS_FAILED,
         TASK_STATUS_PROCESSED
    <3> QED
      BY <1>1, <3>1 DEF CallOK, Final, Document
  <2> QED
    BY <1>8, <2>1, TaskEnded DEF CreatedNameless, server, Final
<1>9. CASE SetBootable(p)
  <2>1. /\ k.op = "create" /\ k.vol = tasks[k.task].vol /\ tasks[k.task].state = "Completed"
        /\ k.vol \in boot' /\ boot \subseteq boot'
    BY <1>1, <1>9 DEF SetBootable, CallOK
  <2> QED
    BY <1>9, <2>1, TaskEnded DEF SetBootable, Final
<1>10. CASE SetBootableFailed(p)
  <2>1. boot \subseteq boot'
    BY <1>10 DEF SetBootableFailed
  <2> QED
    BY <1>10, <2>1, TaskEnded DEF SetBootableFailed
<1>11. CASE Deleted(p)
  <2> DEFINE n == IF k.snapshot.state \in TASK_STATUS_FAILED THEN "TaskFailed" ELSE "ok"
  <2>1. /\ tasks[k.task].state = k.snapshot.state /\ k.snapshot.state \in Final /\ k.at = "wait"
        /\ k.snapshot.state \in TASK_STATUS_FAILED <=> k.snapshot.state # "Completed"
        /\ k.op \in {"delete", "wait"}
    BY <1>1, <1>11 DEF Deleted, Processed, CallOK, TASK_STATUS_PROCESSED, TASK_STATUS_FAILED,
          Final, Document
  <2> QED
    BY <1>11, <2>1, TaskEnded DEF Deleted, server
<1> QED
  BY <1>2, <1>4, <1>5, <1>6, <1>7, <1>8, <1>9, <1>10, <1>11 DEF Step

\* The server: only a task that has not ended goes on, and what no longer is
\* there has been deleted.
LEMMA TaskServer ==
    ASSUME TypeInv, TaskInv, NEW t \in DOMAIN tasks, Advance(t) \/ Finish(t)
    PROVE  TaskInv'
<1>0. PICK k \in TaskRecord : Becomes(t, k)
  BY ServerStep
<1>1. /\ DOMAIN tasks' = DOMAIN tasks /\ tasks'[t] = k
      /\ k.by = tasks[t].by /\ k.op = tasks[t].op
      /\ \A u \in DOMAIN tasks : u # t => tasks'[u] = tasks[u]
  BY <1>0 DEF Becomes, TypeInv
<1>2. UNCHANGED <<call, done>> /\ tasks[t].state \notin Final
  BY ServerStep
<1>3. /\ lost \subseteq lost'
      /\ \A u \in DOMAIN tasks \ {t} : Made(u) /\ u \notin lost' =>
            /\ u \notin lost
            /\ tasks[u].vol \in volumes => tasks[u].vol \in volumes'
            /\ tasks[u].vol \in boot => tasks[u].vol \in boot'
  BY <1>0 DEF Becomes, MadeBy, Made
<1>4. ASSUME NEW u \in DOMAIN tasks, Made(u) PROVE u # t
  BY <1>2, <1>4 DEF Made, Final
<1>5. ASSUME NEW p \in Programs PROVE (CallOK(p) /\ DoneOK(p))'
  <2>1. CallOK(p) /\ DoneOK(p)
    BY DEF TaskInv
  <2>2. CallOK(p)'
    <3>1. ASSUME call[p].at = "wait", call[p].snapshot.state \in Final
          PROVE  tasks'[call[p].task] = tasks[call[p].task]
      BY <1>1, <1>2, <2>1, <3>1 DEF CallOK, Document
    <3>2. ASSUME call[p].at = "boot" PROVE tasks'[call[p].task] = tasks[call[p].task]
      BY <1>1, <1>2, <2>1, <3>2 DEF CallOK, Own, Final
    <3> QED
      BY <1>1, <1>2, <2>1, <3>1, <3>2 DEF CallOK, Own, Document
  <2>3. DoneOK(p)'
    <3> DEFINE e == done[p]
    <3>1. CASE e # NotDone /\ e.outcome \in {"ok", "TaskFailed", "TypeError"}
      <4>1. e.task \in DOMAIN tasks /\ tasks[e.task].state \in Final
        BY <2>1, <3>1 DEF DoneOK
      <4>2. e.task # t /\ tasks'[e.task] = tasks[e.task]
        BY <1>1, <1>2, <4>1
      <4>3. ASSUME e.op = "create", e.outcome = "ok", e.bootable
            PROVE  e.vol \in boot' \/ e.task \in lost'
        <5>1. Made(e.task) /\ e.vol = tasks[e.task].vol /\ (e.vol \in boot \/ e.task \in lost)
          BY <2>1, <3>1, <4>3 DEF DoneOK, Made, Own
        <5> QED
          BY <1>3, <4>1, <4>2, <5>1
      <4> QED
        BY <1>1, <1>2, <2>1, <3>1, <4>1, <4>2, <4>3 DEF DoneOK, Own
    <3>2. CASE ~(e # NotDone /\ e.outcome \in {"ok", "TaskFailed", "TypeError"})
      BY <1>2, <2>1, <3>2 DEF DoneOK
    <3> QED
      BY <3>1, <3>2
  <2> QED
    BY <2>2, <2>3
<1>6. ASSUME NEW u \in DOMAIN tasks PROVE (Owned(u) /\ EffectOK(u))'
  <2>1. Owned(u) /\ EffectOK(u)
    BY DEF TaskInv
  <2>2. Owned(u)'
    BY <1>1, <1>2, <2>1 DEF Owned
  <2>3. tasks'[u].state = "Completed" <=> \E i \in DOMAIN finished' : finished'[i] = u
    <3>1. CASE k.state = "Completed"
      <4>1. finished \in Seq(DOMAIN tasks) /\ finished' = Append(finished, t)
        BY <1>0, <3>1 DEF TypeInv, Becomes
      <4>2. /\ DOMAIN finished' = 1 .. Len(finished) + 1 /\ Len(finished) \in Nat
            /\ DOMAIN finished = 1 .. Len(finished)
            /\ finished'[Len(finished) + 1] = t
            /\ \A i \in DOMAIN finished : finished'[i] = finished[i]
        BY <4>1
      <4>3. \A i \in DOMAIN finished' : i \in DOMAIN finished \/ i = Len(finished) + 1
        BY <4>2
      <4>4. CASE u = t
        BY <1>1, <3>1, <4>2, <4>4
      <4>5. CASE u # t
        BY <1>1, <2>1, <4>2, <4>3, <4>5 DEF EffectOK
      <4> QED
        BY <4>4, <4>5
    <3>2. CASE k.state # "Completed"
      <4>1. finished' = finished
        BY <1>0, <3>2 DEF Becomes
      <4>2. CASE u = t
        BY <1>1, <1>2, <2>1, <3>2, <4>1, <4>2 DEF EffectOK, Final
      <4>3. CASE u # t
        BY <1>1, <2>1, <4>1, <4>3 DEF EffectOK
      <4> QED
        BY <4>2, <4>3
    <3> QED
      BY <3>1, <3>2
  <2>4. tasks'[u].names # NoVolume => tasks'[u].names = tasks'[u].vol
    <3>1. CASE u = t
      <4>1. tasks[t].names # NoVolume => tasks[t].names = tasks[t].vol
        BY <2>1, <3>1 DEF EffectOK
      <4>2. k.names # NoVolume => k.names = k.vol
        BY <1>0, <4>1 DEF Becomes
      <4> QED
        BY <1>1, <3>1, <4>2
    <3>2. CASE u # t
      BY <1>1, <2>1, <3>2 DEF EffectOK
    <3> QED
      BY <3>1, <3>2
  <2>5. Made(u)' /\ u \notin lost' => tasks'[u].vol \in volumes'
    <3>1. CASE u = t
      BY <1>0, <1>1, <3>1 DEF Made, Becomes
    <3>2. CASE u # t
      BY <1>1, <1>3, <2>1, <3>2 DEF Made, EffectOK
    <3> QED
      BY <3>1, <3>2
  <2> QED
    BY <2>2, <2>3, <2>4, <2>5 DEF EffectOK
<1>7. OneEach'
  BY <1>1 DEF TaskInv, OneEach
<1>8. Apart'
  <2>1. ASSUME NEW u \in DOMAIN tasks \ {t}, Made(u), u \notin lost', Made(t)', t \notin lost'
        PROVE  tasks[u].vol # k.vol
    <3>1. k.state = "Completed" /\ k.op = "create"
      BY <1>1, <2>1 DEF Made
    <3>2. k.vol \notin volumes /\ lost' = lost
      BY <1>0, <3>1 DEF Becomes
    <3> QED
      BY <2>1, <3>2 DEF TaskInv, EffectOK
  <2>2. ASSUME NEW u \in DOMAIN tasks \ {t} PROVE Made(u)' <=> Made(u)
    BY <1>1, <2>2 DEF Made
  <2>3. ASSUME NEW u \in DOMAIN tasks \ {t}, NEW v \in DOMAIN tasks \ {t}, Made(u), Made(v),
               u \notin lost', v \notin lost', tasks[u].vol = tasks[v].vol
        PROVE  u = v
    BY <1>3, <2>3 DEF TaskInv, Apart
  <2>4. ASSUME NEW u \in DOMAIN tasks, NEW v \in DOMAIN tasks, Made(u)', Made(v)',
               u \notin lost', v \notin lost', tasks'[u].vol = tasks'[v].vol
        PROVE  u = v
    BY <1>1, <2>1, <2>2, <2>3, <2>4
  <2> QED
    BY <1>1, <2>4 DEF Apart
<1> QED
  BY <1>1, <1>5, <1>6, <1>7, <1>8 DEF TaskInv

LEMMA TaskNext == TypeInv /\ TaskInv /\ [Next]_vars => TaskInv'
<1> SUFFICES ASSUME TypeInv, TaskInv, [Next]_vars PROVE TaskInv'
  OBVIOUS
<1>1. ASSUME NEW p \in Programs, Start(p) PROVE TaskInv'
  BY <1>1, TaskBegin
<1>2. ASSUME NEW p \in Programs, Step(p) \/ ReloadFailed(p) PROVE TaskInv'
  BY <1>2, TaskProgram
<1>3. ASSUME NEW t \in DOMAIN tasks, Advance(t) \/ Finish(t) PROVE TaskInv'
  BY <1>3, TaskServer
<1>4. CASE UNCHANGED vars
  BY <1>4 DEF vars, TaskInv, CallOK, DoneOK, Owned, EffectOK, OneEach, Own, Apart, Made, Document
<1> QED
  BY <1>1, <1>2, <1>3, <1>4 DEF Next

\* The inductive invariant holds throughout.
LEMMA TaskInvariant == Spec => [](TypeInv /\ TaskInv)
<1>1. Init => TypeInv /\ TaskInv
  BY TypeInit, TaskInit
<1>2. TypeInv /\ TaskInv /\ [Next]_vars => (TypeInv /\ TaskInv)'
  BY TypeNext, TaskNext
<1> QED
  BY <1>1, <1>2, PTL DEF Spec

\* Every variable holds a value of its kind, however many programs, tasks and
\* volumes there are.
THEOREM TypeCorrect == Spec => []TypeOK
BY TaskInvariant, TypeImplied, PTL

\* The volume id that IbmcVolumeClient.create returns is that of the volume its
\* own task has made, which is there until somebody deletes it and is not that of
\* any other, whatever tasks other programs have had in the meantime.
THEOREM CreatedVolumesAreThere == Spec => []CreatedMeansThere
<1>1. TypeInv /\ TaskInv => CreatedMeansThere
  <2> SUFFICES ASSUME TypeInv, TaskInv PROVE CreatedMeansThere
    OBVIOUS
  <2>1. ASSUME NEW p \in Programs, CreateOk(p)
        PROVE  /\ done[p].vol = tasks[done[p].task].vol /\ Own(p, done[p].task, "create")
               /\ tasks[done[p].task].state = "Completed" /\ Made(done[p].task)
    BY <2>1 DEF TaskInv, DoneOK, NotDone, CreateOk, Own, Made
  <2>2. ASSUME NEW p \in Programs, CreateOk(p), done[p].task \notin lost
        PROVE  done[p].vol \in volumes
    BY <2>1, <2>2 DEF TaskInv, EffectOK, Own
  <2>3. ASSUME NEW p \in Programs, NEW q \in Programs, CreateOk(p), CreateOk(q),
               done[p].task \notin lost, done[q].task \notin lost, done[p].vol = done[q].vol
        PROVE  p = q
    <3>1. done[p].task = done[q].task
      BY <2>1, <2>3 DEF TaskInv, Apart, Own
    <3> QED
      BY <2>1, <2>3, <3>1 DEF Own
  <2> QED
    BY <2>1, <2>2, <2>3 DEF CreatedMeansThere, Own
<1> QED
  BY <1>1, TaskInvariant, PTL

\* create(bootable=True) returns only after set_bootable has marked the volume.
THEOREM CreatedVolumesBoot == Spec => []BootableWhenAsked
<1>1. TaskInv => BootableWhenAsked
  BY DEF TaskInv, DoneOK, NotDone, CreateOk, BootableWhenAsked
<1> QED
  BY <1>1, TaskInvariant, PTL

\* A task reported as failed (raise_if_failed, or the task handed to the caller
\* of delete) has ended without effect and never has one.
THEOREM FailedTasksDidNothing == Spec => []FailedMeansUnchanged
<1>1. TaskInv => FailedMeansUnchanged
  BY DEF TaskInv, DoneOK, NotDone, FailedMeansUnchanged
<1> QED
  BY <1>1, TaskInvariant, PTL

----------------------------------------------------------------------------
(* The operations keep the promise of CallPromise.                          *)

\* What CallPromise sees of the operations that ended and of their effects.
Reported(p) == IF done[p] = NotDone THEN <<>>
               ELSE <<[op |-> done[p].op, outcome |-> Outcome(done[p].outcome)]>>
Effected == [i \in DOMAIN finished |-> [client |-> tasks[finished[i]].by, n |-> 1]]

LEMMA HasEffect ==
    ASSUME NEW p, NEW n
    PROVE  Promise!Has(p, n) <=> n = 1 /\ \E i \in DOMAIN finished : tasks[finished[i]].by = p
BY DEF Promise!Has

LEMMA PromiseInit == Init => Promise!Init
<1> SUFFICES ASSUME Init PROVE Promise!Init
  OBVIOUS
<1>1. finished = <<>> /\ \A p \in Programs : call[p].op = "none" /\ done[p] = NotDone
  BY DEF Init, NoCall
<1>2. Effected = <<>>
  BY <1>1 DEF Effected
<1> QED
  BY <1>1, <1>2 DEF Promise!Init, Effected

\* Tasks and effects that stay, or that are new but have had no effect.
LEMMA EffectsStay ==
    ASSUME TypeInv, finished' = finished,
           \A t \in DOMAIN tasks : t \in DOMAIN tasks' /\ tasks'[t].by = tasks[t].by
    PROVE  Effected' = Effected
<1>1. \A i \in DOMAIN finished : finished[i] \in DOMAIN tasks
  BY DEF TypeInv
<1> QED
  BY <1>1 DEF Effected

LEMMA PromiseBegin ==
    ASSUME TypeInv, TaskInv, NEW p \in Programs, Start(p)
    PROVE  \E o \in {"create", "delete", "wait"} : Promise!Begin(p, o)
<1>1. PICK o \in {"create", "delete", "wait"} : call' = [call EXCEPT ![p] = call'[p]]
                                               /\ call'[p].op = o
  BY DEF Start, Create, Delete, WaitById, NoCall, TypeInv
<1>2. UNCHANGED <<done, finished, tasks>> /\ call[p].at = "idle"
  BY DEF Start, Create, Delete, WaitById, server
<1>3. call[p].op = "none"
  BY <1>2 DEF TaskInv, CallOK
<1>4. Effected' = Effected
  BY <1>2, EffectsStay
<1>5. [q \in Programs |-> call'[q].op] = [[q \in Programs |-> call[q].op] EXCEPT ![p] = o]
  BY <1>1 DEF TypeInv
<1>6. Promise!Begin(p, o)
  BY <1>2, <1>3, <1>4, <1>5 DEF Promise!Begin, Effected
<1> QED
  BY <1>6

LEMMA PromiseReturn ==
    ASSUME TypeInv, TaskInv, NEW p \in Programs, NEW k, NEW n,
           n \in {"ok", "TaskFailed", "TypeError", "error"},
           Ended(p, k, n), k.op = call[p].op, call[p].at # "idle", finished' = finished,
           \A t \in DOMAIN tasks : t \in DOMAIN tasks' /\ tasks'[t].by = tasks[t].by,
           n \in {"ok", "TaskFailed"} =>
               /\ call[p].at \in {"wait", "boot"}
               /\ n = "TaskFailed" <=> tasks[call[p].task].state # "Completed"
    PROVE  Promise!Return(p, Outcome(n))
<1>1. CallOK(p) /\ done[p] = NotDone /\ call[p].op # "none"
  BY DEF TaskInv, CallOK
<1>2. Reported(p) = <<>> /\ Len(Reported(p)) = 0
  BY <1>1 DEF Reported
<1>3. Effected' = Effected
  BY EffectsStay
<1>4. ASSUME n = "ok", call[p].op \in {"create", "delete"} PROVE Promise!Has(p, 1)
  <2>1. call[p].task \in DOMAIN tasks /\ tasks[call[p].task].by = p
        /\ tasks[call[p].task].state = "Completed"
    BY <1>1, <1>4 DEF CallOK, Own
  <2>2. \E i \in DOMAIN finished : finished[i] = call[p].task
    BY <2>1 DEF TaskInv, EffectOK
  <2> QED
    BY <2>1, <2>2, HasEffect
<1>5. ASSUME n = "TaskFailed" PROVE ~ Promise!Has(p, 1)
  <2>1. SUFFICES ASSUME NEW i \in DOMAIN finished, tasks[finished[i]].by = p PROVE FALSE
    BY HasEffect
  <2>2. finished[i] \in DOMAIN tasks
    BY DEF TypeInv
  <2>3. tasks[finished[i]].state = "Completed"
    BY <2>2 DEF TaskInv, EffectOK
  <2>4. call[p].task = finished[i]
    BY <1>1, <2>1, <2>2, OwnTask
  <2> QED
    BY <1>5, <2>3, <2>4
<1>6. [q \in Programs |-> call'[q].op] = [[q \in Programs |-> call[q].op] EXCEPT ![p] = "none"]
  BY DEF Ended, NoCall, TypeInv
<1> DEFINE e == [op |-> call[p].op, outcome |-> Outcome(n)]
<1>7. Reported(p)' = Append(Reported(p), e)
  <2>1. done'[p].op = call[p].op /\ done'[p].outcome = n
    BY DEF Ended, TypeInv
  <2>2. done'[p] # NotDone
    BY <1>1, <2>1 DEF NotDone
  <2>3. Reported(p)' = <<e>>
    BY <2>1, <2>2 DEF Reported, Outcome
  <2> QED
    BY <1>2, <2>3
<1>8. \A q \in Programs : q # p => Reported(q)' = Reported(q)
  BY DEF Ended, Reported, TypeInv, Outcome
<1>9. [q \in Programs |-> Reported(q)'] = [[q \in Programs |-> Reported(q)] EXCEPT ![p] = Append(Reported(p), e)]
  BY <1>7, <1>8
<1>10. Promise!End(p, call[p].op, Outcome(n))
  BY <1>9 DEF Promise!End, Reported
<1>11. Outcome(n) = "ok" <=> n = "ok"
  BY DEF Outcome
<1>12. Outcome(n) \in {"401", "412", "RecursionError"} <=> n = "TaskFailed"
  BY DEF Outcome
<1> QED
  BY <1>1, <1>2, <1>3, <1>4, <1>5, <1>6, <1>10, <1>11, <1>12
     DEF Promise!Return, Promise!Refusals, Reported, Effected

LEMMA PromiseStutter ==
    ASSUME TypeInv, done' = done, Effected' = Effected,
           \A p \in Programs : call'[p].op = call[p].op
    PROVE  UNCHANGED Promise!vars
<1>1. [p \in Programs |-> call'[p].op] = [p \in Programs |-> call[p].op]
  OBVIOUS
<1> QED
  BY <1>1 DEF Promise!vars, Effected

LEMMA PromiseProgram ==
    ASSUME TypeInv, TaskInv, NEW p \in Programs, Step(p) \/ ReloadFailed(p)
    PROVE  (\E x \in {"ok", "412", "TypeError", "ConnectionError"} : Promise!Return(p, x))
           \/ UNCHANGED Promise!vars
<1> DEFINE k == call[p]
<1>1. k \in CallRecord /\ CallOK(p)
  BY DEF TypeInv, TaskInv
<1>2. /\ finished' = finished
      /\ \A t \in DOMAIN tasks : t \in DOMAIN tasks' /\ tasks'[t].by = tasks[t].by
  <2>1. Started(p, k) => \A t \in DOMAIN tasks : t \in DOMAIN tasks' /\ tasks'[t] = tasks[t]
    BY DEF Started, TypeInv
  <2> QED
    BY <2>1 DEF Step, Posted, PostFailed, Reload, ReloadFailed, CreateFailed, Created,
          CreatedNameless, SetBootable, SetBootableFailed, Deleted, server
<1>3. ASSUME NEW j, NEW n, n \in {"ok", "TaskFailed", "TypeError", "error"},
             Ended(p, j, n), j.op = k.op, k.at # "idle",
             n \in {"ok", "TaskFailed"} =>
               /\ k.at \in {"wait", "boot"}
               /\ n = "TaskFailed" <=> tasks[k.task].state # "Completed"
      PROVE  \E x \in {"ok", "412", "TypeError", "ConnectionError"} : Promise!Return(p, x)
  <2>1. Promise!Return(p, Outcome(n))
    BY <1>2, <1>3, PromiseReturn
  <2>2. Outcome(n) \in {"ok", "412", "TypeError", "ConnectionError"}
    BY <1>3 DEF Outcome
  <2> QED
    BY <2>1, <2>2
<1>4. ASSUME NEW j, call' = [call EXCEPT ![p] = j], done' = done, j.op = k.op
      PROVE  UNCHANGED Promise!vars
  <2>1. \A q \in Programs : call'[q].op = call[q].op
    BY <1>4 DEF TypeInv
  <2> QED
    BY <1>2, <1>4, <2>1, EffectsStay, PromiseStutter
<1>5. CASE Posted(p)
  <2>1. call' = [call EXCEPT ![p] = [k EXCEPT !.at = "wait", !.task = Len(tasks) + 1]]
        /\ done' = done
    BY <1>5 DEF Posted, TypeInv
  <2>2. [k EXCEPT !.at = "wait", !.task = Len(tasks) + 1].op = k.op
    BY <1>1 DEF CallRecord
  <2> QED
    BY <1>4, <2>1, <2>2
<1>6. CASE Reload(p)
  <2>1. call' = [call EXCEPT ![p] = [k EXCEPT !.snapshot = Document(k.task)]] /\ done' = done
    BY <1>6 DEF Reload, TypeInv
  <2>2. [k EXCEPT !.snapshot = Document(k.task)].op = k.op
    BY <1>1 DEF CallRecord
  <2> QED
    BY <1>4, <2>1, <2>2
<1>7. CASE PostFailed(p) \/ ReloadFailed(p) \/ SetBootableFailed(p)
  BY <1>3, <1>7 DEF PostFailed, ReloadFailed, SetBootableFailed
<1>8. CASE CreateFailed(p)
  <2>1. tasks[k.task].state # "Completed"
    BY <1>1, <1>8 DEF CreateFailed, Processed, CallOK, TASK_STATUS_FAILED, Final, Document
  <2> QED
    BY <1>3, <1>8, <2>1 DEF CreateFailed, Processed
<1>9. CASE Created(p)
  <2> DEFINE j == [k EXCEPT !.vol = k.snapshot.names]
  <2>1. k.at = "wait" /\ tasks[k.task].state = "Completed"
    <3>1. Completed(j) /\ j.at = k.at /\ j.op = k.op /\ j.snapshot = k.snapshot
      BY <1>1, <1>9 DEF Created, CallRecord
    <3> HIDE DEF j
    <3>2. k.at = "wait" /\ k.snapshot.state = "Completed"
      BY <3>1 DEF Completed, Processed, TASK_STATUS_FAILED, TASK_STATUS_PROCESSED
    <3> QED
      BY <1>1, <3>2 DEF CallOK, Final, Document
  <2>2. j.op = k.op /\ [j EXCEPT !.at = "boot"].op = k.op
    BY <1>1 DEF CallRecord
  <2>3. \/ call' = [call EXCEPT ![p] = [j EXCEPT !.at = "boot"]] /\ done' = done
        \/ Ended(p, j, "ok")
    BY <1>9 DEF Created
  <2> HIDE DEF j
  <2> QED
    BY <1>3, <1>4, <2>1, <2>2, <2>3
<1>10. CASE CreatedNameless(p)
  BY <1>3, <1>10 DEF CreatedNameless, Completed, Processed
<1>11. CASE SetBootable(p)
  <2>1. tasks[k.task].state = "Completed"
    BY <1>1, <1>11 DEF SetBootable, CallOK
  <2> QED
    BY <1>3, <1>11, <2>1 DEF SetBootable
<1>12. CASE Deleted(p)
  <2>1. k.at = "wait" /\ (k.snapshot.state \in TASK_STATUS_FAILED
                       <=> tasks[k.task].state # "Completed")
    BY <1>1, <1>12 DEF Deleted, Processed, CallOK, TASK_STATUS_FAILED, TASK_STATUS_PROCESSED,
       Final, Document
  <2> QED
    BY <1>3, <1>12, <2>1 DEF Deleted
<1> QED
  BY <1>5, <1>6, <1>7, <1>8, <1>9, <1>10, <1>11, <1>12 DEF Step

\* The effect of an operation is the completion of its task.
LEMMA PromiseServer ==
    ASSUME TypeInv, TaskInv, NEW t \in DOMAIN tasks, Advance(t) \/ Finish(t)
    PROVE  \/ \E p \in Programs : Promise!Perform(p, 1) /\ 1 \in 1 .. Len(Reported(p)) + 1
           \/ UNCHANGED Promise!vars
<1>1. /\ UNCHANGED <<call, done>> /\ tasks[t].state \notin Final
      /\ DOMAIN tasks' = DOMAIN tasks
      /\ \A u \in DOMAIN tasks : tasks'[u].by = tasks[u].by
      /\ finished' = finished \/ finished' = Append(finished, t)
  <2>1. PICK k \in TaskRecord : Becomes(t, k)
    BY ServerStep
  <2> QED
    BY <2>1, ServerStep DEF Becomes, TypeInv
<1>2. CASE finished' = finished
  BY <1>1, <1>2, EffectsStay, PromiseStutter
<1>3. CASE finished' = Append(finished, t)
  <2> DEFINE p == tasks[t].by
  <2>1. p \in Programs /\ tasks[t].op \in {"create", "delete"}
    BY TaskTypes DEF TaskRecord
  <2>2. ~ Promise!Has(p, 1)
    <3>1. SUFFICES ASSUME NEW i \in DOMAIN finished, tasks[finished[i]].by = p PROVE FALSE
      BY HasEffect
    <3>2. finished[i] \in DOMAIN tasks
      BY DEF TypeInv
    <3>3. finished[i] = t /\ tasks[finished[i]].state = "Completed"
      BY <3>1, <3>2 DEF TaskInv, OneEach, EffectOK
    <3> QED
      BY <1>1, <3>3 DEF Final
  <2>3. Effected' = Append(Effected, [client |-> p, n |-> 1])
    <3>1. /\ DOMAIN finished = 1 .. Len(finished) /\ Len(finished) \in Nat
          /\ DOMAIN finished' = 1 .. Len(finished) + 1
          /\ finished'[Len(finished) + 1] = t
          /\ \A i \in DOMAIN finished : finished'[i] = finished[i] /\ finished[i] \in DOMAIN tasks
      BY <1>3 DEF TypeInv
    <3>2. Effected \in Seq([client : Programs, n : {1}]) /\ Len(Effected) = Len(finished)
          /\ DOMAIN Effected = DOMAIN finished
      <4>1. \A i \in DOMAIN finished : tasks[finished[i]].by \in Programs
        BY <3>1, TaskTypes DEF TaskRecord
      <4>2. Effected \in [1 .. Len(finished) -> [client : Programs, n : {1}]]
        BY <3>1, <4>1 DEF Effected
      <4>3. Effected \in Seq([client : Programs, n : {1}])
        <5>1. \E m \in Nat : Effected \in [1 .. m -> [client : Programs, n : {1}]]
          BY <3>1, <4>2
        <5>2. Effected \in UNION {[1 .. m -> [client : Programs, n : {1}]] : m \in Nat}
          BY <5>1, Zenon
        <5> QED
          BY <5>2, SeqDef, Zenon
      <4>4. Len(Effected) = Len(finished)
        BY <3>1, <4>2, <4>3, LenProperties
      <4> QED
        BY <3>1, <4>2, <4>3, <4>4
    <3>3. Append(Effected, [client |-> p, n |-> 1])
            = [i \in 1 .. Len(finished) + 1 |->
                 IF i <= Len(finished) THEN Effected[i] ELSE [client |-> p, n |-> 1]]
      BY <3>2, <2>1
    <3>4. Effected' = [i \in DOMAIN finished' |-> [client |-> tasks'[finished'[i]].by, n |-> 1]]
      BY DEF Effected
    <3>5. \A i \in DOMAIN finished : tasks'[finished'[i]].by = tasks[finished[i]].by
      BY <1>1, <3>1
    <3>6. tasks'[finished'[Len(finished) + 1]].by = p
      BY <1>1, <3>1
    <3>7. \A i \in 1 .. Len(finished) + 1 :
             i = Len(finished) + 1 \/ (i <= Len(finished) /\ i \in DOMAIN finished)
      BY <3>1
    <3> QED
      BY <3>1, <3>3, <3>4, <3>5, <3>6, <3>7 DEF Effected
  <2>4. \/ done[p] = NotDone /\ call[p].op = tasks[t].op
        \/ done[p] # NotDone /\ done[p].op = tasks[t].op /\ done[p].outcome = "error"
    <3>1. call[p].at # "idle" => done[p] = NotDone
      BY <2>1 DEF TaskInv, CallOK
    <3>2. Owned(t)
      BY DEF TaskInv
    <3> QED
      BY <1>1, <3>1, <3>2 DEF Owned
  <2>5. CASE done[p] = NotDone /\ call[p].op = tasks[t].op
    <3>1. Reported(p) = <<>> /\ Len(Reported(p)) = 0
      BY <2>5 DEF Reported
    <3>2. 1 = Len(Reported(p)) + 1 /\ call[p].op \in {"create", "delete"}
      BY <2>1, <2>5, <3>1
    <3>3. Promise!Perform(p, 1)
      BY <1>1, <2>1, <2>2, <2>3, <3>2 DEF Promise!Perform, Effected, Reported
    <3> QED
      BY <2>1, <3>1, <3>3
  <2>6. CASE done[p] # NotDone /\ done[p].op = tasks[t].op /\ done[p].outcome = "error"
    <3>1. Reported(p) = <<[op |-> tasks[t].op, outcome |-> "ConnectionError"]>>
      BY <2>6 DEF Reported, Outcome
    <3>2. /\ Len(Reported(p)) = 1 /\ 1 \in DOMAIN Reported(p)
          /\ Reported(p)[1].op = tasks[t].op /\ Reported(p)[1].outcome = "ConnectionError"
      BY <3>1
    <3>3. Promise!Perform(p, 1)
      BY <1>1, <2>1, <2>2, <2>3, <3>2 DEF Promise!Perform, Effected, Reported
    <3> QED
      BY <2>1, <3>2, <3>3
  <2> QED
    BY <2>4, <2>5, <2>6
<1> QED
  BY <1>1, <1>2, <1>3

\* However the tasks of several programs interleave, and whatever requests are
\* lost, create and delete keep the promise that the calls of the connector keep:
\* each has its effect at most once, has had it when it returns, never has it
\* when it raised TaskFailed, and only one that lost its connection may have it
\* later.
THEOREM OperationsKeepPromise == Spec => KeepsPromise
<1>1. Init => Promise!Init
  BY PromiseInit
<1>2. TypeInv /\ TaskInv /\ [Next]_vars => [Promise!Next]_Promise!vars
  <2> SUFFICES ASSUME TypeInv, TaskInv, [Next]_vars PROVE [Promise!Next]_Promise!vars
    OBVIOUS
  <2>1. ASSUME NEW p \in Programs, Start(p) PROVE Promise!Next
    BY <2>1, PromiseBegin DEF Promise!Next
  <2>2. ASSUME NEW p \in Programs, Step(p) \/ ReloadFailed(p) PROVE [Promise!Next]_Promise!vars
    BY <2>2, PromiseProgram DEF Promise!Next
  <2>3. ASSUME NEW t \in DOMAIN tasks, Advance(t) \/ Finish(t)
        PROVE  [Promise!Next]_Promise!vars
    BY <2>3, PromiseServer DEF Promise!Next, Reported
  <2>4. CASE UNCHANGED vars
    BY <2>4, PromiseStutter DEF vars, Effected
  <2> QED
    BY <2>1, <2>2, <2>3, <2>4 DEF Next
<1> QED
  BY <1>1, <1>2, TaskInvariant, PTL DEF Spec, KeepsPromise, Promise!Spec
=============================================================================
