-------------------------- MODULE RaidApplyProofs --------------------------
(***************************************************************************)
(* Proofs about RaidApply for any controllers, drives and requests, and any *)
(* number of operations, of failures and of changes by other programs: what *)
(* an operation may say when it ends, delete_all_raid_configuration that    *)
(* everything is gone, apply_raid_configuration that everything is there,   *)
(* and either that the server refused.                                      *)
(*                                                                          *)
(* The invariant follows the time: a task, a volume and a change by others  *)
(* bear the time they are of, and an operation that found the server ready  *)
(* can tell what is its own by it.                                          *)
(***************************************************************************)
EXTENDS RaidApply, FiniteSetTheorems, SequenceTheorems, TLAPS

Volume == [drive : Drives, since : Nat, mine : BOOLEAN]

\* Where an operation is at work on the controller at the head of its queue.
AtDelete == prog.at \in {"delete", "wait", "completed", "failed"} /\ prog.op = "delete"
AtCreate == prog.at \in {"create", "wait", "completed", "failed"} /\ prog.op = "apply"

ServerOK ==
    /\ reports \in BOOLEAN
    /\ server \in [Ctrls -> [support_oob : BOOLEAN, volumes : SUBSET Volume, spares : SUBSET Drives,
                             settling : SUBSET Drives, jbod : BOOLEAN]]
    /\ tasks \subseteq [ctrl : Ctrls, op : {"delete", "apply"}, drive : Drives, since : Nat]

\* The operation under way, and where it can be.
ProgOK ==
    /\ prog \in [op : {"none", "delete", "apply"}, request : Requests \cup {<<>>}, queue : Seq(Ctrls),
                 at : {"idle", "ready", "list", "controller", "delete", "restore", "create", "wait",
                       "completed", "failed"},
                 seen : BOOLEAN, todo : SUBSET Drives, done : SUBSET Drives, stale : SUBSET Ctrls,
                 touched : BOOLEAN, alone : BOOLEAN]
    /\ IsInjective(prog.queue)
    /\ prog.at = "idle" => prog = Idle
    /\ prog.op = "none" => prog.at = "idle"
    /\ prog.at \in {"delete", "restore"} => prog.op = "delete"
    /\ prog.at = "create" => prog.op = "apply"
    /\ prog.at \notin {"idle", "ready", "list", "controller"} => prog.queue # <<>>
    /\ prog.at \in {"idle", "ready", "list", "controller"} => prog.todo = {}
    /\ prog.todo \cap prog.done = {} \/ prog.at = "restore"

\* Nothing is of a later time than now.
PastOK ==
    /\ history \in Seq([op : {"delete", "apply"}, result : Results, alone : BOOLEAN])
    /\ \A t \in tasks : t.since <= Now
    /\ \A c \in Ctrls : \A v \in server[c].volumes : v.since <= Now
    /\ \A f \in foreign : f.time \in Nat /\ f.time <= Now

TypeInv == ServerOK /\ ProgOK /\ PastOK

\* A drive has one volume, a task that creates has its drive to itself, and the
\* one task of this operation is the one it waits for.
TaskInv ==
    /\ \A c \in Ctrls : \A v, w \in server[c].volumes : v.drive = w.drive => v = w
    /\ \A t \in tasks : t.op = "apply" => t.drive \notin Used(t.ctrl)
    /\ \A t, u \in tasks : t.op = "apply" /\ u.op = "apply" /\ t.ctrl = u.ctrl => t = u
    /\ \A t \in tasks : t.since = Now => prog.at = "wait"
    /\ prog.at = "wait" => \E t \in tasks :
            /\ t.since = Now /\ t.ctrl = Current /\ t.op = prog.op /\ t.drive \in prog.done
            /\ \A u \in tasks : u.since = Now => u = t

\* What is invalid is found out before anything is asked of the server.
AskInv ==
    /\ Invalid(prog.request) => prog.at \in {"idle", "ready", "list"} /\ ~ prog.touched
    /\ prog.op # "apply" => prog.request = <<>>
    /\ InvalidChangesNothing

\* The operation has seen the server ready, or would have; and nothing else was
\* at work on it.
Looked == prog.at \notin {"idle", "ready"} \/ (prog.at = "ready" /\ (prog.seen \/ ~ reports))
Alone == Looked /\ prog.alone
Disturbed == \E f \in foreign : f.time = Now

\* What the operation knows of the server as long as no other program interferes.
Known ==
    /\ prog.stale = {}
    /\ \A c \in Ctrls : server[c].settling # {} =>
            /\ AtDelete \/ AtCreate
            /\ c = Current /\ prog.at # "create" /\ server[c].settling \subseteq prog.done
    /\ AtDelete => prog.todo \subseteq Used(Current)
    /\ AtCreate => prog.todo \cap Used(Current) = {}

\* An operation that found the server ready knows all that it is at work on,
\* and leaves it ready.
QuietInv ==
    /\ prog.at \in {"idle", "ready", "list"} => prog.stale = {}
    /\ Alone => \A t \in tasks : t.since = Now
    /\ Alone /\ ~ Disturbed => Known
    /\ RefusedMeansDisturbed
    /\ prog = Idle /\ history # <<>> /\ LastEnded.result \in {"ok", "no disks"} /\ LeftAlone(Len(history))
         => Quiet

\* What a deletion has behind it, and what it has still before it.
DeletedSoFar ==
    /\ \A c \in Ctrls : c \notin Range(prog.queue) =>
            server[c].spares = {} /\ \A v \in server[c].volumes : v.since = Now
    /\ \A c \in Ctrls : prog.at \in {"delete", "wait", "completed"} /\ c = Current =>
            \A v \in server[c].volumes : \/ v.since = Now \/ v.drive \in prog.todo
                                         \/ \E t \in tasks : t.since = Now /\ t.drive = v.drive
    /\ \A c \in Ctrls : prog.at = "restore" /\ c = Current =>
            server[c].spares \subseteq prog.todo /\ \A v \in server[c].volumes : v.since = Now
Older == \A c \in Ctrls : \A v \in server[c].volumes : v.since < Now

\* All volumes are gone that an operation that found the server ready was to
\* delete; all there are, when no other program has made one meanwhile.
DeleteInv ==
    /\ prog.op = "delete" /\ prog.alone /\ prog.at \notin {"ready", "list"} => DeletedSoFar
    /\ prog.op = "delete" /\ ~ Disturbed => Older
    /\ DeletedMeansGone

\* The volumes an operation of this time has made on a controller are those of
\* the drives S, less what others have deleted.
Made(c, time) == {v \in server[c].volumes : v.mine /\ v.since = time}
TakenFrom(c, d, time) == \E f \in foreign : f.did = <<"delete", c, d>> /\ f.time >= time
AsAsked(c, S, time) ==
    /\ \A v \in Made(c, time) : v.drive \in S
    /\ \A d \in S : (\E v \in Made(c, time) : v.drive = d) \/ TakenFrom(c, d, time)

\* A controller has what it was asked to have, and no task is at work on it.
Finished(request, c, time) ==
    IF Jbods(request, c) # {} THEN server[c].jbod
    ELSE /\ \E S \in SUBSET Drives : Cardinality(S) = Cardinality(Group(request, c)) /\ AsAsked(c, S, time)
         /\ \A t \in tasks : t.ctrl # c

\* What an application has behind it, and what it has made on the controller
\* whose turn it is.
Making ==
    /\ Range(prog.queue) \subseteq Grouped(prog.request)
    /\ \A c \in Grouped(prog.request) : c \notin Range(prog.queue) => Finished(prog.request, c, Now)
    /\ \A c \in Range(prog.queue) : Made(c, Now) = {} \/ (AtCreate /\ c = Current)
AtWork(c) ==
    /\ Jbods(prog.request, c) = {}
    /\ Cardinality(prog.done \cup prog.todo) = Cardinality(Group(prog.request, c))
    /\ prog.done # {} => \A t \in tasks : t.ctrl = c => t.since = Now
    /\ prog.at \in {"create", "completed"} => AsAsked(c, prog.done, Now)
    /\ \A t \in tasks : t.since = Now => AsAsked(c, prog.done \ {t.drive}, Now)
Fresh == \A c \in Ctrls : \A v \in server[c].volumes : v.mine => v.since < Now

ApplyInv ==
    /\ IsFiniteSet(foreign)
    /\ prog.op # "apply" \/ prog.at \in {"ready", "list"} => Fresh
    /\ prog.op = "apply" /\ prog.at \notin {"ready", "list"} => Making
    /\ AtCreate => \A c \in Ctrls : c = Current => AtWork(c)
    /\ JustEnded("apply", "ok") =>
         \A c \in Grouped(last.request) : Finished(last.request, c, 2 * Len(history) - 1)

\* The operation under way, or the last if there is none; and whether operation
\* n has deleted everything, and nobody has come since.
Latest == Len(history) + (IF prog = Idle THEN 0 ELSE 1)
Cleared(n) == LeftAlone(n) /\ history[n].op = "delete" /\ history[n].result = "ok"
ClearedInv ==
    Latest > 1 /\ Cleared(Latest - 1) =>
        /\ \A t \in tasks : t.since = 2 * Latest - 1
        /\ \A c \in Ctrls : \A v \in server[c].volumes : v.mine /\ v.since = 2 * Latest - 1

----------------------------------------------------------------------------
(* Lemmas about time and the queue.                                         *)

\* An operation runs at an odd time, and there is none at an even one.
LEMMA TimeOfNow ==
    ASSUME TypeInv
    PROVE  /\ Len(history) \in Nat /\ DOMAIN history = 1..Len(history) /\ Now \in Nat
           /\ prog.at = "idle" <=> prog = Idle
           /\ prog.at # "idle" => Now = 2 * Len(history) + 1
           /\ prog.at = "idle" => Now = 2 * Len(history)
<1>1. Len(history) \in Nat /\ DOMAIN history = 1..Len(history)
    BY LenProperties DEF TypeInv, PastOK
<1>2. prog.at = "idle" <=> prog = Idle
    BY DEF TypeInv, ProgOK, Idle
<1> QED BY <1>1, <1>2 DEF Now

\* Time goes on when an operation begins and when it ends.
LEMMA TimeStays ==
    ASSUME TypeInv, history' = history, prog.at = "idle" => prog' = prog,
           prog.at # "idle" => prog'.at # "idle"
    PROVE  Now' = Now
<1>1. prog' = Idle <=> prog = Idle
    BY TimeOfNow DEF Idle
<1> QED BY <1>1 DEF Now

\* What is said of an operation when it ends.
LEMMA WhenItEnds ==
    ASSUME TypeInv, prog.at # "idle", NEW r \in Results, NEW b, Ended(r, b)
    PROVE  /\ prog' = Idle /\ last' = [request |-> prog.request, touched |-> b]
           /\ history' \in Seq([op : {"delete", "apply"}, result : Results, alone : BOOLEAN])
           /\ Len(history') = Len(history) + 1 /\ DOMAIN history' = 1..(Len(history) + 1)
           /\ \A i \in 1..Len(history) : history'[i] = history[i]
           /\ history'[Len(history) + 1] = [op |-> prog.op, result |-> r, alone |-> prog.alone]
           /\ Now' = Now + 1
<1> DEFINE H == [op : {"delete", "apply"}, result : Results, alone : BOOLEAN]
           e == [op |-> prog.op, result |-> r, alone |-> prog.alone]
<1>1. e \in H
    BY DEF TypeInv, ProgOK
<1>2. history \in Seq(H) /\ history' = Append(history, e)
    BY DEF TypeInv, PastOK, Ended
<1>3. /\ history' \in Seq(H)
      /\ Len(history') = Len(history) + 1
      /\ \A i \in 1..Len(history) : history'[i] = history[i]
      /\ history'[Len(history) + 1] = e
    <2> HIDE DEF H, e
    <2> QED BY <1>1, <1>2, AppendProperties
<1>4. DOMAIN history' = 1..(Len(history) + 1)
    <2> HIDE DEF H, e
    <2> QED BY <1>3, LenProperties
<1>5. prog' = Idle /\ last' = [request |-> prog.request, touched |-> b]
    BY DEF Ended
<1>6. Now' = Now + 1
    <2>1. Now' = 2 * Len(history') + 0
        BY <1>5 DEF Now
    <2>2. Len(history) \in Nat /\ Now = 2 * Len(history) + 1
        BY TimeOfNow
    <2> QED BY <1>3, <2>1, <2>2
<1> QED BY <1>3, <1>4, <1>5, <1>6

\* An operation that ends leaves the types as they were.
LEMMA TypeWhenItEnds ==
    ASSUME TypeInv, prog.at # "idle", NEW r \in Results, NEW b, Ended(r, b), ServerOK',
           \A t \in tasks' : t.since <= Now,
           \A c \in Ctrls : server'[c].volumes = server[c].volumes, foreign' = foreign
    PROVE  TypeInv'
<1>1. /\ prog' = Idle /\ Now' = Now + 1 /\ Now \in Nat
      /\ history' \in Seq([op : {"delete", "apply"}, result : Results, alone : BOOLEAN])
    BY WhenItEnds, TimeOfNow
<1>2. ProgOK'
    <2>1. <<>> \in Seq(Ctrls) /\ IsInjective(<<>>)
        BY EmptySeq DEF IsInjective
    <2> QED BY <1>1, <2>1 DEF ProgOK, Idle
<1>3. PastOK'
    <2>1. \A t \in tasks' : t.since <= Now + 1
        BY <1>1 DEF ServerOK
    <2>2. \A c \in Ctrls : \A v \in server[c].volumes : v.since \in Nat /\ v.since <= Now
        BY DEF TypeInv, ServerOK, PastOK, Volume
    <2>3. \A f \in foreign : f.time \in Nat /\ f.time <= Now + 1
        BY <1>1 DEF TypeInv, PastOK
    <2> QED BY <1>1, <2>1, <2>2, <2>3 DEF PastOK
<1> QED BY <1>2, <1>3 DEF TypeInv

\* The controller at the head of the queue is not behind it.
LEMMA QueueFacts ==
    ASSUME NEW q \in Seq(Ctrls), IsInjective(q), q # <<>>
    PROVE  /\ Head(q) \in Ctrls /\ Tail(q) \in Seq(Ctrls) /\ IsInjective(Tail(q))
           /\ Range(q) = {Head(q)} \cup Range(Tail(q)) /\ Head(q) \notin Range(Tail(q))
<1>1. /\ Head(q) \in Ctrls /\ Tail(q) \in Seq(Ctrls) /\ Len(Tail(q)) = Len(q) - 1
      /\ \A i \in 1..Len(Tail(q)) : Tail(q)[i] = q[i + 1]
    BY HeadTailProperties
<1>2. Len(q) \in Nat \ {0} /\ DOMAIN q = 1..Len(q) /\ DOMAIN Tail(q) = 1..Len(Tail(q)) /\ Head(q) = q[1]
    BY <1>1, LenProperties, EmptySeq
<1>3. /\ \A i \in DOMAIN Tail(q) : i + 1 \in DOMAIN q /\ i + 1 # 1 /\ Tail(q)[i] = q[i + 1]
      /\ \A j \in DOMAIN q : j = 1 \/ (j - 1 \in DOMAIN Tail(q) /\ Tail(q)[j - 1] = q[j])
    BY <1>1, <1>2
<1>4. IsInjective(Tail(q))
    BY <1>2, <1>3 DEF IsInjective
<1>5. Range(q) = {Head(q)} \cup Range(Tail(q))
    <2>1. \A j \in DOMAIN q : q[j] \in {Head(q)} \cup Range(Tail(q))
        BY <1>2, <1>3 DEF Range
    <2>2. \A i \in DOMAIN Tail(q) : Tail(q)[i] \in Range(q)
        BY <1>3 DEF Range
    <2>3. Head(q) \in Range(q)
        BY <1>2 DEF Range
    <2> QED BY <2>1, <2>2, <2>3 DEF Range
<1>6. Head(q) \notin Range(Tail(q))
    BY <1>2, <1>3 DEF Range, IsInjective
<1> QED BY <1>1, <1>4, <1>5, <1>6

\* The controller whose turn it is.
LEMMA CurrentFacts ==
    ASSUME TypeInv, prog.queue # <<>>
    PROVE  /\ Current \in Ctrls /\ Current \in Range(prog.queue)
           /\ Tail(prog.queue) \in Seq(Ctrls) /\ IsInjective(Tail(prog.queue))
           /\ Range(prog.queue) = {Current} \cup Range(Tail(prog.queue))
           /\ Current \notin Range(Tail(prog.queue))
<1>1. prog.queue \in Seq(Ctrls) /\ IsInjective(prog.queue)
    BY DEF TypeInv, ProgOK
<1> QED BY <1>1, QueueFacts DEF Current

----------------------------------------------------------------------------
(* The types.                                                               *)

\* The types when the first operation begins.
LEMMA InitType == Init => TypeInv
<1> SUFFICES ASSUME Init PROVE TypeInv
    OBVIOUS
<1> USE DEF Init
<1>1. ServerOK
    <2>1. \A c \in Ctrls : {[drive |-> d, since |-> 0, mine |-> FALSE] : d \in Old[c]} \subseteq Volume
        <3> SUFFICES ASSUME NEW c \in Ctrls, NEW d \in Old[c]
                     PROVE  [drive |-> d, since |-> 0, mine |-> FALSE] \in Volume
            OBVIOUS
        <3>1. d \in Drives
            BY RaidApplyAssumption
        <3> QED BY <3>1 DEF Volume
    <2> QED BY <2>1, RaidApplyAssumption DEF ServerOK
<1>2. ProgOK
    <2>1. <<>> \in Seq(Ctrls) /\ IsInjective(<<>>)
        BY EmptySeq DEF IsInjective
    <2> QED BY <2>1 DEF ProgOK, Idle
<1>3. PastOK
    <2>1. Now = 0 /\ history = <<>>
        BY EmptySeq DEF Now
    <2>2. history \in Seq([op : {"delete", "apply"}, result : Results, alone : BOOLEAN])
        BY <2>1, EmptySeq
    <2>3. \A c \in Ctrls : \A v \in server[c].volumes : v.since = 0
        OBVIOUS
    <2> QED BY <2>1, <2>2, <2>3 DEF PastOK
<1> QED BY <1>1, <1>2, <1>3 DEF TypeInv

\* A step of the program that leaves the server alone.
LEMMA TypeWhenItGoesOn ==
    ASSUME TypeInv, prog.at # "idle", prog'.at # "idle", ProgOK',
           UNCHANGED <<reports, server, tasks, history, foreign>>
    PROVE  TypeInv'
<1>1. Now' = Now
    BY TimeStays
<1> QED BY <1>1 DEF TypeInv, ServerOK, PastOK

LEMMA StartKeepsType ==
    ASSUME TypeInv, NEW op \in {"delete", "apply"}, NEW r \in Requests \cup {<<>>}, Start(op, r)
    PROVE  TypeInv' /\ Now' = Now + 1 /\ prog'.at = "ready"
<1>1. prog'.at = "ready" /\ prog' # Idle /\ Now' = Now + 1
    <2>1. prog'.at = "ready" /\ prog' # Idle
        BY DEF Start, Idle
    <2>2. history' = history /\ prog = Idle
        BY DEF Start
    <2> QED BY <2>1, <2>2, TimeOfNow DEF Now
<1>2. ProgOK'
    <2>1. <<>> \in Seq(Ctrls) /\ IsInjective(<<>>)
        BY EmptySeq DEF IsInjective
    <2>2. Ready \in BOOLEAN /\ reports \in BOOLEAN
        BY DEF Ready, TypeInv, ServerOK
    <2> QED BY <2>1, <2>2 DEF Start, ProgOK, Idle
<1>3. PastOK'
    <2>1. UNCHANGED <<server, tasks, history, foreign>>
        BY DEF Start
    <2>2. /\ \A t \in tasks : t.since \in Nat
          /\ \A c \in Ctrls : \A v \in server[c].volumes : v.since \in Nat
        BY DEF TypeInv, ServerOK, Volume
    <2>3. \A n \in Nat : n <= Now => n <= Now + 1
        BY TimeOfNow
    <2> QED BY <1>1, <2>1, <2>2, <2>3 DEF TypeInv, PastOK
<1>4. ServerOK'
    BY DEF Start, TypeInv, ServerOK
<1> QED BY <1>1, <1>2, <1>3, <1>4 DEF TypeInv

\* The groups of pending volumes are queued in some order, each once.
LEMMA GroupedInOrder ==
    ASSUME NEW r, NEW q \in SetToSeqs(Grouped(r))
    PROVE  q \in Seq(Ctrls) /\ IsInjective(q) /\ Range(q) = Grouped(r)
<1> DEFINE G == Grouped(r)
           D == 1..Cardinality(G)
<1>1. G \subseteq Ctrls
    BY DEF Grouped
<1>2. IsFiniteSet(Ctrls)
    <2> DEFINE n == Len(Controllers)
    <2>1. n \in Nat /\ DOMAIN Controllers = 1..n
        BY RaidApplyAssumption, LenProperties
    <2>2. IsFiniteSet(1..n)
        BY <2>1, FS_Interval
    <2>3. Controllers \in Surjection(1..n, Ctrls)
        <3>1. Controllers \in [1..n -> Ctrls]
            BY RaidApplyAssumption, LenProperties
        <3>2. \A c \in Ctrls : \E i \in 1..n : Controllers[i] = c
            BY <2>1 DEF Ctrls, Range
        <3> QED BY <3>1, <3>2 DEF Surjection
    <2> QED BY <2>2, <2>3, FS_Surjection
<1>3. IsFiniteSet(G) /\ Cardinality(G) \in Nat
    BY <1>1, <1>2, FS_Subset, FS_CardinalityType
<1>4. q \in [D -> G] /\ \A i, j \in D : i # j => q[i] # q[j]
    BY DEF SetToSeqs
<1>5. q \in Seq(Ctrls) /\ IsInjective(q)
    BY <1>1, <1>3, <1>4, IsASeq DEF IsInjective
<1>6. Range(q) = G
    <2>1. q \in Injection(D, G)
        BY <1>4 DEF Injection, IsInjective
    <2>2. IsFiniteSet(D) /\ Cardinality(D) = Cardinality(G)
        BY <1>3, FS_Interval
    <2>3. q \in Surjection(D, G)
        <3> HIDE DEF D, G
        <3> QED BY <1>3, <2>1, <2>2, FS_Injection
    <2> QED BY <1>4, <2>3 DEF Surjection, Range
<1> QED BY <1>5, <1>6

\* The steps of the program that look and plan keep the types.
LEMMA LookingKeepsType ==
    ASSUME TypeInv, waiting_storage_ready \/ ListControllers \/ LoadVolumes \/ VolumesDeleted
                        \/ Plan \/ VolumesCreated \/ TaskDone
    PROVE  TypeInv'
<1> USE DEF TypeInv, ProgOK
<1>1. CASE waiting_storage_ready
    <2>1. Ready \in BOOLEAN
        BY DEF Ready
    <2>2. ProgOK'
        BY <1>1, <2>1 DEF waiting_storage_ready
    <2> QED BY <1>1, <2>2, TypeWhenItGoesOn DEF waiting_storage_ready
<1>2. CASE ListControllers
    <2>1. CASE End("invalid")
        BY <1>2, <2>1, TypeWhenItEnds DEF ListControllers, End, Results, ServerOK, PastOK
    <2>2. CASE \E q \in Seq(Ctrls) : /\ IsInjective(q) /\ prog.op \in {"delete", "apply"}
                                     /\ prog' = [prog EXCEPT !.at = "controller", !.queue = q]
                                     /\ UNCHANGED <<history, last>>
        <3>1. ProgOK'
            BY <1>2, <2>2 DEF ListControllers
        <3>2. prog'.at = "controller"
            BY <2>2
        <3> QED BY <1>2, <2>2, <3>1, <3>2, TypeWhenItGoesOn DEF ListControllers
    <2>3. \A q \in SetToSeqs(Grouped(prog.request)) : q \in Seq(Ctrls) /\ IsInjective(q)
        BY GroupedInOrder
    <2> QED BY <1>2, <2>1, <2>2, <2>3, RaidApplyAssumption DEF ListControllers
<1>3. CASE LoadVolumes
    <2>1. Current \in Ctrls
        BY <1>3, CurrentFacts DEF LoadVolumes
    <2>2. Used(Current) \subseteq Drives
        BY <2>1 DEF Used, ServerOK, Volume
    <2>3. ProgOK'
        BY <1>3, <2>2 DEF LoadVolumes
    <2>4. prog'.at = "delete"
        BY <1>3 DEF LoadVolumes
    <2> QED BY <1>3, <2>3, <2>4, TypeWhenItGoesOn DEF LoadVolumes
<1>4. CASE VolumesDeleted
    <2>1. Current \in Ctrls
        BY <1>4, CurrentFacts DEF VolumesDeleted
    <2>2. server[Current].spares \subseteq Drives
        BY <2>1 DEF ServerOK
    <2>3. ProgOK'
        BY <1>4, <2>2 DEF VolumesDeleted
    <2>4. prog'.at = "restore"
        BY <1>4 DEF VolumesDeleted
    <2> QED BY <1>4, <2>3, <2>4, TypeWhenItGoesOn DEF VolumesDeleted
<1>5. CASE Plan
    <2>1. CASE End("no disks")
        BY <1>5, <2>1, TypeWhenItEnds DEF Plan, End, Results, ServerOK, PastOK
    <2>2. CASE \E S \in SUBSET Drives : /\ prog' = [prog EXCEPT !.at = "create", !.todo = S, !.done = {}]
                                        /\ UNCHANGED <<history, last>>
        <3>1. ProgOK'
            BY <1>5, <2>2 DEF Plan
        <3>2. prog'.at = "create"
            BY <2>2
        <3> QED BY <1>5, <2>2, <3>1, <3>2, TypeWhenItGoesOn DEF Plan
    <2>3. \A n : kSubset(n, SeenFree(Current)) \subseteq SUBSET Drives
        BY DEF kSubset, SeenFree
    <2> QED BY <1>5, <2>1, <2>2, <2>3 DEF Plan
<1>6. CASE VolumesCreated
    <2>1. Tail(prog.queue) \in Seq(Ctrls) /\ IsInjective(Tail(prog.queue))
        BY <1>6, CurrentFacts DEF VolumesCreated
    <2>2. ProgOK'
        BY <1>6, <2>1 DEF VolumesCreated
    <2> QED BY <1>6, <2>2, TypeWhenItGoesOn DEF VolumesCreated
<1>7. CASE TaskDone
    <2>1. ProgOK'
        BY <1>7 DEF TaskDone
    <2> QED BY <1>7, <2>1, TypeWhenItGoesOn DEF TaskDone
<1> QED BY <1>1, <1>2, <1>3, <1>4, <1>5, <1>6, <1>7

\* A task that the program has the server run now.
LEMMA NewTask ==
    ASSUME TypeInv, prog.at # "idle", prog.queue # <<>>, prog.op # "none", NEW d \in Drives
    PROVE  /\ [ctrl |-> Current, op |-> prog.op, drive |-> d, since |-> Now]
                \in [ctrl : Ctrls, op : {"delete", "apply"}, drive : Drives, since : Nat]
           /\ [ctrl |-> Current, op |-> prog.op, drive |-> d, since |-> Now].since <= Now
<1>1. Current \in Ctrls /\ Now \in Nat
    BY CurrentFacts, TimeOfNow
<1>2. prog.op \in {"delete", "apply"}
    BY DEF TypeInv, ProgOK
<1> QED BY <1>1, <1>2

\* The steps of the program that ask something of the server keep the types.
LEMMA ActingKeepsType ==
    ASSUME TypeInv, AllDone \/ DeleteNotSupported \/ DeleteVolume \/ RestoreDrive
                        \/ SetJbod \/ CreateVolume \/ TaskFailed
    PROVE  TypeInv'
<1>1. CASE AllDone
    BY <1>1, TypeWhenItEnds DEF AllDone, End, Results, TypeInv, ServerOK, PastOK
<1>2. CASE DeleteNotSupported
    BY <1>2, TypeWhenItEnds DEF DeleteNotSupported, End, Results, TypeInv, ServerOK, PastOK
<1>3. CASE TaskFailed
    BY <1>3, TypeWhenItEnds DEF TaskFailed, End, Results, TypeInv, ServerOK, PastOK
<1>4. ASSUME prog.at \in {"delete", "create"}, NEW d \in prog.todo,
             \/ End("refused") /\ UNCHANGED tasks
             \/ /\ tasks' = tasks \cup {[ctrl |-> Current, op |-> prog.op, drive |-> d, since |-> Now]}
                /\ prog' = [prog EXCEPT !.at = "wait", !.todo = @ \ {d}, !.done = @ \cup {d},
                                       !.touched = TRUE]
                /\ UNCHANGED <<history, last>>,
             UNCHANGED <<reports, server, faults, foreign>>
      PROVE  TypeInv'
    <2>1. CASE End("refused") /\ UNCHANGED tasks
        BY <1>4, <2>1, TypeWhenItEnds DEF End, Results, TypeInv, ServerOK, PastOK
    <2>2. CASE /\ tasks' = tasks \cup {[ctrl |-> Current, op |-> prog.op, drive |-> d, since |-> Now]}
               /\ prog' = [prog EXCEPT !.at = "wait", !.todo = @ \ {d}, !.done = @ \cup {d},
                                      !.touched = TRUE]
               /\ UNCHANGED <<history, last>>
        <3>1. d \in Drives /\ prog.queue # <<>> /\ prog.op # "none"
            BY <1>4 DEF TypeInv, ProgOK
        <3>2. PICK t : t = [ctrl |-> Current, op |-> prog.op, drive |-> d, since |-> Now]
            OBVIOUS
        <3>3. /\ t \in [ctrl : Ctrls, op : {"delete", "apply"}, drive : Drives, since : Nat]
              /\ t.since <= Now
            BY <1>4, <3>1, <3>2, NewTask
        <3>4. ServerOK'
            BY <1>4, <2>2, <3>2, <3>3 DEF TypeInv, ServerOK
        <3>5. ProgOK'
            BY <1>4, <2>2, <3>1 DEF TypeInv, ProgOK
        <3>6. Now' = Now
            BY <1>4, <2>2, TimeStays DEF TypeInv, ProgOK
        <3>7. PastOK'
            BY <1>4, <2>2, <3>2, <3>3, <3>6 DEF TypeInv, PastOK
        <3> QED BY <3>4, <3>5, <3>7 DEF TypeInv
    <2> QED BY <1>4, <2>1, <2>2
<1>5. CASE DeleteVolume
    <2>1. prog.op = "delete" /\ prog.at = "delete"
        BY <1>5 DEF DeleteVolume, TypeInv, ProgOK
    <2> QED BY <1>4, <1>5, <2>1 DEF DeleteVolume
<1>6. CASE CreateVolume
    <2>1. prog.op = "apply" /\ prog.at = "create"
        BY <1>6 DEF CreateVolume, TypeInv, ProgOK
    <2> QED BY <1>4, <1>6, <2>1 DEF CreateVolume
<1>7. CASE RestoreDrive
    <2>1. /\ prog.at = "restore" /\ prog.queue # <<>> /\ Current \in Ctrls
          /\ Tail(prog.queue) \in Seq(Ctrls) /\ IsInjective(Tail(prog.queue))
        BY <1>7, CurrentFacts DEF RestoreDrive, TypeInv, ProgOK
    <2>2. CASE /\ prog.todo = {} /\ UNCHANGED server
               /\ prog' = [prog EXCEPT !.at = "controller", !.queue = Tail(@)]
        <3>1. ProgOK'
            BY <2>1, <2>2 DEF TypeInv, ProgOK
        <3> QED BY <1>7, <2>1, <2>2, <3>1, TypeWhenItGoesOn DEF RestoreDrive, TypeInv, ProgOK
    <2>3. CASE \E d \in prog.todo :
            /\ server' = [server EXCEPT ![Current].spares = @ \ {d}]
            /\ prog' = [prog EXCEPT !.todo = @ \ {d}, !.touched = TRUE]
        <3>1. ProgOK'
            BY <2>1, <2>3 DEF TypeInv, ProgOK
        <3>2. ServerOK' /\ \A c \in Ctrls : server'[c].volumes = server[c].volumes
            <4>1. PICK d \in prog.todo : server' = [server EXCEPT ![Current].spares = @ \ {d}]
                BY <2>3
            <4>2. UNCHANGED <<reports, tasks>>
                BY <1>7 DEF RestoreDrive
            <4> QED BY <2>1, <4>1, <4>2 DEF TypeInv, ServerOK
        <3>3. Now' = Now
            BY <1>7, <2>1, <2>3, TimeStays DEF RestoreDrive, TypeInv, ProgOK
        <3> QED BY <1>7, <3>1, <3>2, <3>3 DEF RestoreDrive, TypeInv, PastOK
    <2> QED BY <1>7, <2>2, <2>3 DEF RestoreDrive
<1>8. CASE SetJbod
    <2>1. /\ prog.at = "controller" /\ prog.queue # <<>> /\ Current \in Ctrls
          /\ Tail(prog.queue) \in Seq(Ctrls) /\ IsInjective(Tail(prog.queue))
        BY <1>8, CurrentFacts DEF SetJbod, SettingJbod
    <2>2. CASE End("refused") /\ UNCHANGED server
        BY <1>8, <2>1, <2>2, TypeWhenItEnds DEF SetJbod, End, Results, TypeInv, ServerOK, PastOK
    <2>3. CASE /\ server' = [server EXCEPT ![Current].jbod = TRUE]
               /\ prog' = [prog EXCEPT !.queue = Tail(@), !.touched = TRUE]
               /\ UNCHANGED <<history, last>>
        <3>1. ProgOK'
            BY <2>1, <2>3 DEF TypeInv, ProgOK
        <3>2. ServerOK' /\ \A c \in Ctrls : server'[c].volumes = server[c].volumes
            BY <1>8, <2>1, <2>3 DEF SetJbod, TypeInv, ServerOK
        <3>3. Now' = Now
            BY <2>1, <2>3, TimeStays DEF TypeInv, ProgOK
        <3> QED BY <1>8, <2>3, <3>1, <3>2, <3>3 DEF SetJbod, TypeInv, PastOK
    <2> QED BY <1>8, <2>2, <2>3 DEF SetJbod
<1> QED BY <1>1, <1>2, <1>3, <1>5, <1>6, <1>7, <1>8

\* What the server can have done when a request fails.
LEMMA WhenARequestFails ==
    ASSUME TypeInv, RequestFails
    PROVE  /\ prog.at # "idle" /\ UNCHANGED <<reports, foreign>>
           /\ \E b \in BOOLEAN :
                /\ Ended("error", b)
                /\ b = (prog.touched \/ <<tasks, server>>' # <<tasks, server>>)
           /\ \/ UNCHANGED <<tasks, server>>
              \/ /\ prog.at = "restore" /\ prog.queue # <<>> /\ tasks' = tasks
                 /\ \E d \in prog.todo : server' = [server EXCEPT ![Current].spares = @ \ {d}]
              \/ /\ SettingJbod /\ tasks' = tasks
                 /\ server' = [server EXCEPT ![Current].jbod = TRUE]
              \/ /\ prog.at \in {"delete", "create"} /\ prog.queue # <<>> /\ prog.op # "none"
                 /\ server' = server
                 /\ \E d \in prog.todo :
                      /\ ~ Refuses(prog.op, Current, d)
                      /\ tasks' = tasks \cup {[ctrl |-> Current, op |-> prog.op, drive |-> d, since |-> Now]}
<1>1. prog.at # "idle" /\ UNCHANGED <<reports, foreign>>
    BY TimeOfNow DEF RequestFails
<1>2. \E b \in BOOLEAN : Ended("error", b) /\ b = (prog.touched \/ <<tasks, server>>' # <<tasks, server>>)
    BY DEF RequestFails, TypeInv, ProgOK
<1>3. prog.at \in {"delete", "create", "restore"} => prog.queue # <<>> /\ prog.op # "none"
    BY DEF TypeInv, ProgOK
<1> QED BY <1>1, <1>2, <1>3 DEF RequestFails

LEMMA FailingKeepsType ==
    ASSUME TypeInv, RequestFails
    PROVE  TypeInv'
<1>1. PICK b \in BOOLEAN : Ended("error", b)
    BY WhenARequestFails
<1>2. prog.at # "idle" /\ UNCHANGED <<reports, foreign>>
    BY WhenARequestFails
<1>3. /\ ServerOK' /\ \A c \in Ctrls : server'[c].volumes = server[c].volumes
      /\ \A t \in tasks' : t.since <= Now
    <2> USE DEF TypeInv, ServerOK
    <2>0. (\A t \in tasks : t.since <= Now) /\ reports' = reports
        BY <1>2 DEF PastOK
    <2>1. CASE UNCHANGED <<tasks, server>>
        BY <2>0, <2>1
    <2>2. CASE /\ prog.queue # <<>> /\ tasks' = tasks
               /\ \E d \in prog.todo : server' = [server EXCEPT ![Current].spares = @ \ {d}]
        <3>1. Current \in Ctrls
            BY <2>2, CurrentFacts
        <3> QED BY <2>0, <2>2, <3>1
    <2>3. CASE SettingJbod /\ tasks' = tasks /\ server' = [server EXCEPT ![Current].jbod = TRUE]
        <3>1. Current \in Ctrls
            BY <2>3, CurrentFacts DEF SettingJbod
        <3> QED BY <2>0, <2>3, <3>1
    <2>4. CASE /\ prog.queue # <<>> /\ prog.op # "none" /\ server' = server
               /\ \E d \in prog.todo :
                    tasks' = tasks \cup {[ctrl |-> Current, op |-> prog.op, drive |-> d, since |-> Now]}
        <3>1. PICK d \in prog.todo :
                    tasks' = tasks \cup {[ctrl |-> Current, op |-> prog.op, drive |-> d, since |-> Now]}
            BY <2>4
        <3>2. d \in Drives
            BY DEF ProgOK
        <3>3. PICK t : t = [ctrl |-> Current, op |-> prog.op, drive |-> d, since |-> Now]
            OBVIOUS
        <3>4. /\ t \in [ctrl : Ctrls, op : {"delete", "apply"}, drive : Drives, since : Nat]
              /\ t.since <= Now
            BY <1>2, <2>4, <3>2, <3>3, NewTask
        <3> QED BY <2>0, <2>4, <3>1, <3>3, <3>4
    <2> QED BY <2>1, <2>2, <2>3, <2>4, WhenARequestFails
<1> QED BY <1>1, <1>2, <1>3, TypeWhenItEnds DEF Results

\* The program does not act, though it may be told something.
ProgramWaits ==
    /\ ProgOK' /\ UNCHANGED <<reports, history, last>>
    /\ prog.at = "idle" => prog' = prog
    /\ prog.at # "idle" => prog'.at # "idle"
    /\ tasks' \subseteq tasks
    /\ \A f \in foreign' : f \in foreign \/ f.time = Now

ServerChanges(c, V, Z) == server' = [server EXCEPT ![c].volumes = V, ![c].settling = Z]

\* A change of one controller that the server makes by itself, or for others,
\* keeps the types, if what is new is of now or before.
LEMMA ServerKeepsType ==
    ASSUME TypeInv, ProgramWaits,
           NEW c \in Ctrls, NEW V, NEW Z,
           \A v \in V : v \in server[c].volumes \/ (v \in Volume /\ v.since <= Now),
           Z \subseteq Drives,
           ServerChanges(c, V, Z)
    PROVE  /\ TypeInv' /\ Now' = Now
           /\ server'[c].volumes = V /\ server'[c].settling = Z
           /\ server'[c].spares = server[c].spares /\ server'[c].jbod = server[c].jbod
           /\ server'[c].support_oob = server[c].support_oob
           /\ \A b \in Ctrls : b # c => server'[b] = server[b]
<1>1. Now' = Now /\ Now \in Nat
    BY TimeStays, TimeOfNow DEF ProgramWaits
<1>2. server[c] \in [support_oob : BOOLEAN, volumes : SUBSET Volume, spares : SUBSET Drives,
                     settling : SUBSET Drives, jbod : BOOLEAN]
    BY DEF TypeInv, ServerOK
<1>3. /\ server'[c].volumes = V /\ server'[c].settling = Z
      /\ server'[c].spares = server[c].spares /\ server'[c].jbod = server[c].jbod
      /\ server'[c].support_oob = server[c].support_oob
      /\ \A b \in Ctrls : b # c => server'[b] = server[b]
    BY <1>2 DEF TypeInv, ServerOK, ServerChanges
<1>0. server'[c] = [server[c] EXCEPT !.volumes = V, !.settling = Z]
    BY <1>2 DEF TypeInv, ServerOK, ServerChanges
<1>4. V \subseteq Volume
    BY <1>2
<1>5. ServerOK'
    <2>1. server'[c] \in [support_oob : BOOLEAN, volumes : SUBSET Volume, spares : SUBSET Drives,
                          settling : SUBSET Drives, jbod : BOOLEAN]
        BY <1>0, <1>2, <1>4
    <2>2. DOMAIN server' = Ctrls /\ server' = [b \in Ctrls |-> server'[b]]
        BY DEF TypeInv, ServerOK, ServerChanges
    <2> QED BY <1>3, <2>1, <2>2 DEF TypeInv, ServerOK, ProgramWaits
<1>6. PastOK'
    <2>1. \A b \in Ctrls : \A v \in server'[b].volumes : v.since <= Now
        BY <1>3 DEF TypeInv, PastOK, ProgramWaits
    <2>2. \A f \in foreign' : f.time \in Nat /\ f.time <= Now
        BY <1>1 DEF TypeInv, PastOK, ProgramWaits
    <2> QED BY <1>1, <2>1, <2>2 DEF TypeInv, PastOK, ProgramWaits
<1> QED BY <1>1, <1>3, <1>5, <1>6 DEF TypeInv, ProgramWaits

\* A task that completes.
Settled(t) == server[t.ctrl].settling \cup {t.drive}
Completed(t) ==
    LET V == server[t.ctrl].volumes
    IN  IF t.op = "apply" THEN V \cup {[drive |-> t.drive, since |-> t.since, mine |-> TRUE]}
        ELSE {v \in V : v.drive # t.drive}

Completes(t) ==
    /\ tasks' = tasks \ {t} /\ ServerChanges(t.ctrl, Completed(t), Settled(t))
    /\ prog' = IF prog.at = "wait" /\ t.since = Now THEN [prog EXCEPT !.at = "completed"] ELSE prog
    /\ UNCHANGED <<reports, history, last, faults, foreign>>

LEMMA CompletingFacts ==
    ASSUME TypeInv, NEW t \in tasks, Completes(t)
    PROVE  /\ TypeInv' /\ Now' = Now /\ t.ctrl \in Ctrls
           /\ server'[t.ctrl].volumes = Completed(t) /\ server'[t.ctrl].settling = Settled(t)
           /\ server'[t.ctrl].spares = server[t.ctrl].spares /\ server'[t.ctrl].jbod = server[t.ctrl].jbod
           /\ server'[t.ctrl].support_oob = server[t.ctrl].support_oob
           /\ \A b \in Ctrls : b # t.ctrl => server'[b] = server[b]
<1>1. t \in [ctrl : Ctrls, op : {"delete", "apply"}, drive : Drives, since : Nat] /\ t.since <= Now
    BY DEF TypeInv, ServerOK, PastOK
<1>2. Settled(t) \subseteq Drives
    BY <1>1 DEF Settled, TypeInv, ServerOK
<1>3. \A v \in Completed(t) : v \in server[t.ctrl].volumes \/ (v \in Volume /\ v.since <= Now)
    <2>1. PICK n : n = [drive |-> t.drive, since |-> t.since, mine |-> TRUE]
        OBVIOUS
    <2>2. n \in Volume /\ n.since <= Now
        BY <1>1, <2>1 DEF Volume
    <2>3. \A v \in Completed(t) : v \in server[t.ctrl].volumes \/ v = n
        BY <2>1 DEF Completed
    <2> QED BY <2>2, <2>3
<1>4. ProgramWaits
    BY DEF ProgramWaits, Completes, TypeInv, ProgOK
<1>5. t.ctrl \in Ctrls
    BY <1>1
<1> QED BY <1>2, <1>3, <1>4, <1>5, ServerKeepsType DEF Completes

\* The other steps of the server, and those of other programs.
Fails(t) ==
    /\ tasks' = tasks \ {t} /\ server' = server
    /\ prog' = IF prog.at = "wait" /\ t.since = Now THEN [prog EXCEPT !.at = "failed"] ELSE prog
    /\ UNCHANGED <<reports, history, last, foreign>>
Settles(c, d) ==
    /\ ServerChanges(c, server[c].volumes, server[c].settling \ {d})
    /\ UNCHANGED <<reports, tasks, prog, history, last, foreign>>
Noted(what) == foreign' = foreign \cup {[time |-> Now, did |-> what]}
CreatedBy(c, d) == server[c].volumes \cup {[drive |-> d, since |-> Now, mine |-> FALSE]}
Creates(c, d) ==
    /\ ~ Refuses("apply", c, d)
    /\ ServerChanges(c, CreatedBy(c, d), server[c].settling \cup {d})
    /\ Noted(<<"create", c, d>>)
    /\ UNCHANGED <<reports, tasks, prog, history, last>>
Left(c, d) == {v \in server[c].volumes : v.drive # d}
Deletes(c, d) ==
    /\ ServerChanges(c, Left(c, d), server[c].settling \cup {d})
    /\ Noted(<<"delete", c, d>>)
    /\ UNCHANGED <<reports, tasks, prog, history, last>>
Sets(c) ==
    /\ prog' = [prog EXCEPT !.stale = IF prog.at \in {"idle", "ready", "list"} THEN @ ELSE @ \cup {c}]
    /\ Noted(<<"set", c>>)
    /\ UNCHANGED <<reports, server, tasks, history, last>>

LEMMA OutsideSteps ==
    ASSUME TypeInv, TaskCompletes \/ TaskFails \/ Settle \/ OtherCreates \/ OtherDeletes \/ OtherSets
    PROVE  \/ \E t \in tasks : Completes(t)
           \/ \E t \in tasks : Fails(t)
           \/ \E c \in Ctrls, d \in Drives : Settles(c, d)
           \/ \E c \in Ctrls, d \in Drives : Creates(c, d)
           \/ \E c \in Ctrls, d \in Drives : Deletes(c, d)
           \/ \E c \in Ctrls : Sets(c)
<1>1. CASE TaskCompletes
    <2>1. PICK t \in tasks :
            /\ tasks' = tasks \ {t}
            /\ server' = [server EXCEPT
                    ![t.ctrl].settling = @ \cup {t.drive},
                    ![t.ctrl].volumes =
                        IF t.op = "apply" THEN @ \cup {[drive |-> t.drive, since |-> t.since, mine |-> TRUE]}
                        ELSE {v \in @ : v.drive # t.drive}]
            /\ prog' = IF prog.at = "wait" /\ t.since = Now THEN [prog EXCEPT !.at = "completed"] ELSE prog
            /\ UNCHANGED <<reports, history, last, faults, foreign>>
        BY <1>1 DEF TaskCompletes
    <2>2. PICK c \in Ctrls : c = t.ctrl
        BY DEF TypeInv, ServerOK
    <2>3. server[c] \in [support_oob : BOOLEAN, volumes : SUBSET Volume, spares : SUBSET Drives,
                         settling : SUBSET Drives, jbod : BOOLEAN]
        BY DEF TypeInv, ServerOK
    <2>4. ServerChanges(c, Completed(t), Settled(t))
        BY <2>1, <2>2, <2>3 DEF TypeInv, ServerOK, ServerChanges, Completed, Settled
    <2>5. Completes(t)
        BY <2>1, <2>2, <2>4 DEF Completes
    <2> QED BY <2>5
<1>2. CASE TaskFails
    BY <1>2 DEF TaskFails, Fails
<1>3. CASE Settle
    <2>1. PICK c \in Ctrls, d \in Drives :
            /\ server' = [server EXCEPT ![c].settling = @ \ {d}]
            /\ UNCHANGED <<reports, tasks, prog, history, last, faults, foreign>>
        BY <1>3 DEF Settle
    <2>2. server[c] \in [support_oob : BOOLEAN, volumes : SUBSET Volume, spares : SUBSET Drives,
                         settling : SUBSET Drives, jbod : BOOLEAN]
        BY DEF TypeInv, ServerOK
    <2>3. ServerChanges(c, server[c].volumes, server[c].settling \ {d})
        BY <2>1, <2>2 DEF TypeInv, ServerOK, ServerChanges
    <2>4. Settles(c, d)
        BY <2>1, <2>3 DEF Settles
    <2> QED BY <2>4
<1>4. CASE OtherCreates
    <2>1. PICK c \in Ctrls, d \in Drives :
            /\ ~ Refuses("apply", c, d)
            /\ server' = [server EXCEPT
                    ![c].volumes = @ \cup {[drive |-> d, since |-> Now, mine |-> FALSE]},
                    ![c].settling = @ \cup {d}]
            /\ OtherDid(<<"create", c, d>>) /\ UNCHANGED prog
        BY <1>4 DEF OtherCreates
    <2>2. server[c] \in [support_oob : BOOLEAN, volumes : SUBSET Volume, spares : SUBSET Drives,
                         settling : SUBSET Drives, jbod : BOOLEAN]
        BY DEF TypeInv, ServerOK
    <2>3. ServerChanges(c, CreatedBy(c, d), server[c].settling \cup {d})
        BY <2>1, <2>2 DEF TypeInv, ServerOK, ServerChanges, CreatedBy
    <2>4. Creates(c, d)
        BY <2>1, <2>3 DEF Creates, OtherDid, Noted
    <2> QED BY <2>4
<1>5. CASE OtherDeletes
    <2>1. PICK c \in Ctrls, d \in Drives :
            /\ server' = [server EXCEPT ![c].volumes = {v \in @ : v.drive # d}, ![c].settling = @ \cup {d}]
            /\ OtherDid(<<"delete", c, d>>) /\ UNCHANGED prog
        BY <1>5 DEF OtherDeletes
    <2>2. server[c] \in [support_oob : BOOLEAN, volumes : SUBSET Volume, spares : SUBSET Drives,
                         settling : SUBSET Drives, jbod : BOOLEAN]
        BY DEF TypeInv, ServerOK
    <2>3. ServerChanges(c, Left(c, d), server[c].settling \cup {d})
        BY <2>1, <2>2 DEF TypeInv, ServerOK, ServerChanges, Left
    <2>4. Deletes(c, d)
        BY <2>1, <2>3 DEF Deletes, OtherDid, Noted
    <2> QED BY <2>4
<1>6. CASE OtherSets
    BY <1>6 DEF OtherSets, OtherDid, Sets, Noted
<1> QED BY <1>1, <1>2, <1>3, <1>4, <1>5, <1>6

\* What each of them leaves: the types, the time, and the other controllers.
LEMMA SettlingFacts ==
    ASSUME TypeInv, NEW c \in Ctrls, NEW d \in Drives, Settles(c, d)
    PROVE  /\ TypeInv' /\ Now' = Now
           /\ server'[c].volumes = server[c].volumes /\ server'[c].settling = server[c].settling \ {d}
           /\ server'[c].spares = server[c].spares /\ server'[c].jbod = server[c].jbod
           /\ server'[c].support_oob = server[c].support_oob
           /\ \A b \in Ctrls : b # c => server'[b] = server[b]
<1>1. ProgramWaits
    BY DEF ProgramWaits, Settles, TypeInv, ProgOK
<1>2. server[c].settling \ {d} \subseteq Drives
    BY DEF TypeInv, ServerOK
<1> QED BY <1>1, <1>2, ServerKeepsType DEF Settles

LEMMA CreatingFacts ==
    ASSUME TypeInv, NEW c \in Ctrls, NEW d \in Drives, Creates(c, d)
    PROVE  /\ TypeInv' /\ Now' = Now
           /\ server'[c].volumes = CreatedBy(c, d) /\ server'[c].settling = server[c].settling \cup {d}
           /\ server'[c].spares = server[c].spares /\ server'[c].jbod = server[c].jbod
           /\ server'[c].support_oob = server[c].support_oob
           /\ \A b \in Ctrls : b # c => server'[b] = server[b]
<1>1. ProgramWaits
    BY DEF ProgramWaits, Creates, Noted, TypeInv, ProgOK
<1>2. server[c].settling \cup {d} \subseteq Drives
    BY DEF TypeInv, ServerOK
<1>3. \A v \in CreatedBy(c, d) : v \in server[c].volumes \/ (v \in Volume /\ v.since <= Now)
    <2>1. PICK n : n = [drive |-> d, since |-> Now, mine |-> FALSE]
        OBVIOUS
    <2>2. n \in Volume /\ n.since <= Now
        BY <2>1, TimeOfNow DEF Volume
    <2>3. \A v \in CreatedBy(c, d) : v \in server[c].volumes \/ v = n
        BY <2>1 DEF CreatedBy
    <2> QED BY <2>2, <2>3
<1> QED BY <1>1, <1>2, <1>3, ServerKeepsType DEF Creates

LEMMA DeletingFacts ==
    ASSUME TypeInv, NEW c \in Ctrls, NEW d \in Drives, Deletes(c, d)
    PROVE  /\ TypeInv' /\ Now' = Now
           /\ server'[c].volumes = Left(c, d) /\ server'[c].settling = server[c].settling \cup {d}
           /\ server'[c].spares = server[c].spares /\ server'[c].jbod = server[c].jbod
           /\ server'[c].support_oob = server[c].support_oob
           /\ \A b \in Ctrls : b # c => server'[b] = server[b]
<1>1. ProgramWaits
    BY DEF ProgramWaits, Deletes, Noted, TypeInv, ProgOK
<1>2. server[c].settling \cup {d} \subseteq Drives
    BY DEF TypeInv, ServerOK
<1>3. \A v \in Left(c, d) : v \in server[c].volumes
    BY DEF Left
<1> QED BY <1>1, <1>2, <1>3, ServerKeepsType DEF Deletes

LEMMA FailingTaskFacts ==
    ASSUME TypeInv, NEW t \in tasks, Fails(t)
    PROVE  TypeInv' /\ Now' = Now
<1>1. ProgOK' /\ (prog.at = "idle" => prog' = prog) /\ (prog.at # "idle" => prog'.at # "idle")
    BY DEF Fails, TypeInv, ProgOK
<1>2. Now' = Now
    BY <1>1, TimeStays DEF Fails
<1> QED BY <1>1, <1>2 DEF Fails, TypeInv, ServerOK, PastOK

LEMMA SettingFacts ==
    ASSUME TypeInv, NEW c \in Ctrls, Sets(c)
    PROVE  TypeInv' /\ Now' = Now
<1>1. ProgOK' /\ (prog.at = "idle" => prog' = prog) /\ (prog.at # "idle" => prog'.at # "idle")
    BY DEF Sets, TypeInv, ProgOK
<1>2. Now' = Now
    BY <1>1, TimeStays DEF Sets
<1> QED BY <1>1, <1>2, TimeOfNow DEF Sets, Noted, TypeInv, ServerOK, PastOK

\* Every step keeps the types.
LEMMA NextKeepsType == TypeInv /\ [Next]_vars => TypeInv'
<1> SUFFICES ASSUME TypeInv, [Next]_vars PROVE TypeInv'
    OBVIOUS
<1>1. CASE delete_all_raid_configuration
    BY <1>1, StartKeepsType DEF delete_all_raid_configuration
<1>2. CASE apply_raid_configuration
    BY <1>2, StartKeepsType DEF apply_raid_configuration
<1>3. CASE ProgramStep
    BY <1>3, LookingKeepsType, ActingKeepsType DEF ProgramStep
<1>4. CASE RequestFails
    BY <1>4, FailingKeepsType
<1>5. CASE TaskCompletes \/ TaskFails \/ Settle \/ OtherCreates \/ OtherDeletes \/ OtherSets
    BY <1>5, OutsideSteps, CompletingFacts, FailingTaskFacts, SettlingFacts, CreatingFacts,
       DeletingFacts, SettingFacts
<1>6. CASE UNCHANGED vars
    <2>1. Now' = Now
        BY <1>6 DEF vars, Now
    <2> QED BY <1>6, <2>1 DEF vars, TypeInv, ServerOK, ProgOK, PastOK
<1> QED BY <1>1, <1>2, <1>3, <1>4, <1>5, <1>6 DEF Next, ServerStep

----------------------------------------------------------------------------
(* The drives and the tasks.                                                *)

\* The part of TaskInv that is about the server alone.
DrivesOK ==
    /\ \A c \in Ctrls : \A v, w \in server[c].volumes : v.drive = w.drive => v = w
    /\ \A t \in tasks : t.op = "apply" => t.drive \notin Used(t.ctrl)
    /\ \A t, u \in tasks : t.op = "apply" /\ u.op = "apply" /\ t.ctrl = u.ctrl => t = u

LEMMA DrivesStay ==
    ASSUME TypeInv, DrivesOK, tasks' \subseteq tasks,
           \A c \in Ctrls : server'[c].volumes = server[c].volumes
    PROVE  DrivesOK'
<1>1. \A t \in tasks : t.ctrl \in Ctrls
    BY DEF TypeInv, ServerOK
<1>2. \A c \in Ctrls : Used(c)' = Used(c)
    BY DEF Used
<1> QED BY <1>1, <1>2 DEF DrivesOK

\* The server has room for the task it accepts.
LEMMA DrivesOfNewTask ==
    ASSUME TypeInv, DrivesOK, NEW c \in Ctrls, NEW op \in {"delete", "apply"}, NEW d, NEW s,
           ~ Refuses(op, c, d), tasks' = tasks \cup {[ctrl |-> c, op |-> op, drive |-> d, since |-> s]},
           server' = server
    PROVE  DrivesOK'
<1>1. PICK t : t = [ctrl |-> c, op |-> op, drive |-> d, since |-> s]
    OBVIOUS
<1>2. \A b : Used(b)' = Used(b)
    BY DEF Used
<1>3. op = "apply" => d \notin Used(c) /\ \A u \in tasks : u.ctrl # c
    BY DEF Refuses
<1>4. t.ctrl = c /\ t.op = op /\ t.drive = d
    BY <1>1
<1>5. tasks' = tasks \cup {t}
    BY <1>1
<1>6. \A u \in tasks' : u.op = "apply" => u.drive \notin Used(u.ctrl)
    BY <1>3, <1>4, <1>5 DEF DrivesOK
<1>7. \A u, w \in tasks' : u.op = "apply" /\ w.op = "apply" /\ u.ctrl = w.ctrl => u = w
    BY <1>3, <1>4, <1>5 DEF DrivesOK
<1> QED BY <1>2, <1>6, <1>7 DEF DrivesOK

\* An operation that ends has no task of this time any longer.
LEMMA TasksWhenItEnds ==
    ASSUME TypeInv, prog.at # "idle", NEW r \in Results, NEW b, Ended(r, b), DrivesOK',
           \A t \in tasks' : t.since \in Nat /\ t.since <= Now
    PROVE  TaskInv'
<1>1. prog' = Idle /\ Now' = Now + 1 /\ Now \in Nat
    BY WhenItEnds, TimeOfNow
<1>2. \A t \in tasks' : t.since # Now + 1
    BY <1>1
<1> QED BY <1>1, <1>2 DEF TaskInv, DrivesOK, Idle

LEMMA TasksWhenItGoesOn ==
    ASSUME TypeInv, TaskInv, prog.at \notin {"idle", "wait"}, prog'.at \notin {"idle", "wait"},
           UNCHANGED <<tasks, history>>, \A c \in Ctrls : server'[c].volumes = server[c].volumes
    PROVE  TaskInv'
<1>1. Now' = Now
    BY TimeStays
<1>2. DrivesOK'
    BY DrivesStay DEF TaskInv, DrivesOK
<1> QED BY <1>1, <1>2 DEF TaskInv, DrivesOK

\* Every step of the program either ends the operation, or asks for a task, or
\* leaves the volumes and the tasks as they are.
Ends == \E r \in Results, b \in BOOLEAN : Ended(r, b)
Asks(d) ==
    /\ prog.at \in {"delete", "create"} /\ d \in prog.todo /\ ~ Refuses(prog.op, Current, d)
    /\ tasks' = tasks \cup {[ctrl |-> Current, op |-> prog.op, drive |-> d, since |-> Now]}
    /\ prog' = [prog EXCEPT !.at = "wait", !.todo = @ \ {d}, !.done = @ \cup {d}, !.touched = TRUE]
    /\ UNCHANGED <<reports, server, history, last, faults, foreign>>

LEMMA StepsOfProgram ==
    ASSUME TypeInv, ProgramStep
    PROVE  /\ prog.at # "idle"
           /\ \/ /\ Ends /\ \E r \in Results : End(r)
                 /\ UNCHANGED <<reports, server, tasks, foreign>>
              \/ \E d \in Drives : Asks(d)
              \/ /\ UNCHANGED <<reports, tasks, history, last, foreign>>
                 /\ prog.at # "wait" /\ prog'.at \notin {"idle", "wait"}
                 /\ prog'.op = prog.op /\ prog'.request = prog.request /\ prog'.alone = prog.alone
                 /\ \A c \in Ctrls : /\ server'[c].volumes = server[c].volumes
                                     /\ server'[c].settling = server[c].settling
                                     /\ server'[c].support_oob = server[c].support_oob
<1> DEFINE Same == \A c \in Ctrls : /\ server'[c].volumes = server[c].volumes
                                    /\ server'[c].settling = server[c].settling
                                    /\ server'[c].support_oob = server[c].support_oob
<1>1. ASSUME NEW r \in Results, End(r) PROVE Ends /\ \E q \in Results : End(q)
    BY <1>1 DEF Ends, End, TypeInv, ProgOK
<1>2. CASE waiting_storage_ready \/ LoadVolumes \/ VolumesDeleted \/ VolumesCreated \/ TaskDone
    BY <1>2 DEF waiting_storage_ready, LoadVolumes, VolumesDeleted, VolumesCreated, TaskDone,
                TypeInv, ProgOK
<1>3. CASE ListControllers
    <2>1. CASE End("invalid")
        BY <1>1, <1>3, <2>1 DEF ListControllers, Results
    <2>2. CASE \E q : prog' = [prog EXCEPT !.at = "controller", !.queue = q] /\ UNCHANGED <<history, last>>
        <3>1. /\ prog'.at = "controller" /\ prog'.op = prog.op
              /\ prog'.request = prog.request /\ prog'.alone = prog.alone
            BY <2>2 DEF TypeInv, ProgOK
        <3> QED BY <1>3, <2>2, <3>1 DEF ListControllers
    <2> QED BY <1>3, <2>1, <2>2 DEF ListControllers
<1>4. CASE AllDone \/ DeleteNotSupported \/ TaskFailed
    BY <1>1, <1>4 DEF AllDone, DeleteNotSupported, TaskFailed, Results
<1>5. CASE Plan
    <2>1. CASE End("no disks")
        BY <1>1, <1>5, <2>1 DEF Plan, Results
    <2>2. CASE \E S : prog' = [prog EXCEPT !.at = "create", !.todo = S, !.done = {}]
                      /\ UNCHANGED <<history, last>>
        <3>1. /\ prog'.at = "create" /\ prog'.op = prog.op
              /\ prog'.request = prog.request /\ prog'.alone = prog.alone
            BY <2>2 DEF TypeInv, ProgOK
        <3> QED BY <1>5, <2>2, <3>1 DEF Plan
    <2> QED BY <1>5, <2>1, <2>2 DEF Plan
<1>6. CASE DeleteVolume
    <2>1. prog.at = "delete" /\ prog.op = "delete" /\ prog.todo \subseteq Drives
        BY <1>6 DEF DeleteVolume, TypeInv, ProgOK
    <2> QED BY <1>1, <1>6, <2>1 DEF DeleteVolume, Asks, Results
<1>7. CASE CreateVolume
    <2>1. prog.at = "create" /\ prog.op = "apply" /\ prog.todo \subseteq Drives
        BY <1>7 DEF CreateVolume, TypeInv, ProgOK
    <2> QED BY <1>1, <1>7, <2>1 DEF CreateVolume, Asks, Results
<1>8. CASE RestoreDrive
    <2>1. prog.at = "restore" /\ Current \in Ctrls
        BY <1>8, CurrentFacts DEF RestoreDrive, TypeInv, ProgOK
    <2>2. /\ prog'.at \in {"restore", "controller"} /\ prog'.op = prog.op
          /\ prog'.request = prog.request /\ prog'.alone = prog.alone
        BY <1>8 DEF RestoreDrive, TypeInv, ProgOK
    <2>3. Same
        <3>1. CASE server' = server
            BY <3>1
        <3>2. CASE \E d \in prog.todo : server' = [server EXCEPT ![Current].spares = @ \ {d}]
            BY <2>1, <3>2 DEF TypeInv, ServerOK
        <3> QED BY <1>8, <3>1, <3>2 DEF RestoreDrive
    <2> QED BY <1>8, <2>1, <2>2, <2>3 DEF RestoreDrive
<1>9. CASE SetJbod
    <2>1. prog.at = "controller" /\ Current \in Ctrls
        BY <1>9, CurrentFacts DEF SetJbod, SettingJbod
    <2>2. CASE End("refused") /\ UNCHANGED server
        BY <1>1, <1>9, <2>1, <2>2 DEF SetJbod, Results
    <2>3. CASE /\ server' = [server EXCEPT ![Current].jbod = TRUE]
               /\ prog' = [prog EXCEPT !.queue = Tail(@), !.touched = TRUE]
               /\ UNCHANGED <<history, last>>
        <3>1. Same
            BY <2>1, <2>3 DEF TypeInv, ServerOK
        <3>2. /\ prog'.at = "controller" /\ prog'.op = prog.op
              /\ prog'.request = prog.request /\ prog'.alone = prog.alone
            BY <2>1, <2>3 DEF TypeInv, ProgOK
        <3> QED BY <1>9, <2>1, <2>3, <3>1, <3>2 DEF SetJbod
    <2> QED BY <1>9, <2>2, <2>3 DEF SetJbod
<1> QED BY <1>2, <1>3, <1>4, <1>5, <1>6, <1>7, <1>8, <1>9 DEF ProgramStep

\* A request that fails ends the operation, and may have started a task.
LEMMA FailedRequestTasks ==
    ASSUME TypeInv, RequestFails
    PROVE  /\ Ends /\ prog.at # "idle" /\ UNCHANGED <<reports, foreign>>
           /\ \A c \in Ctrls : /\ server'[c].volumes = server[c].volumes
                               /\ server'[c].settling = server[c].settling
                               /\ server'[c].support_oob = server[c].support_oob
           /\ \/ tasks' = tasks
              \/ /\ prog.at \in {"delete", "create"} /\ Current \in Ctrls /\ server' = server
                 /\ prog.op \in {"delete", "apply"}
                 /\ \E d \in prog.todo : /\ ~ Refuses(prog.op, Current, d)
                      /\ tasks' = tasks \cup {[ctrl |-> Current, op |-> prog.op, drive |-> d, since |-> Now]}
<1> DEFINE Same == \A c \in Ctrls : /\ server'[c].volumes = server[c].volumes
                                    /\ server'[c].settling = server[c].settling
                                    /\ server'[c].support_oob = server[c].support_oob
<1>1. Ends /\ prog.at # "idle" /\ UNCHANGED <<reports, foreign>>
    BY WhenARequestFails DEF Ends, Results
<1>2. prog.queue # <<>> => Current \in Ctrls
    BY CurrentFacts
<1>3. CASE UNCHANGED <<tasks, server>>
    BY <1>1, <1>3
<1>4. CASE /\ prog.queue # <<>> /\ tasks' = tasks
           /\ \E d \in prog.todo : server' = [server EXCEPT ![Current].spares = @ \ {d}]
    <2>1. Same
        BY <1>2, <1>4 DEF TypeInv, ServerOK
    <2> QED BY <1>1, <1>4, <2>1
<1>5. CASE SettingJbod /\ tasks' = tasks /\ server' = [server EXCEPT ![Current].jbod = TRUE]
    <2>1. Same
        BY <1>2, <1>5 DEF TypeInv, ServerOK, SettingJbod
    <2> QED BY <1>1, <1>5, <2>1
<1>6. CASE /\ prog.at \in {"delete", "create"} /\ prog.queue # <<>> /\ prog.op # "none" /\ server' = server
           /\ \E d \in prog.todo : /\ ~ Refuses(prog.op, Current, d)
                /\ tasks' = tasks \cup {[ctrl |-> Current, op |-> prog.op, drive |-> d, since |-> Now]}
    <2>1. prog.op \in {"delete", "apply"}
        BY <1>6 DEF TypeInv, ProgOK
    <2>2. Same
        BY <1>6
    <2> QED BY <1>1, <1>2, <1>6, <2>1, <2>2
<1> QED BY <1>3, <1>4, <1>5, <1>6, WhenARequestFails

\* The program waits for the task it has asked for.
LEMMA AskingKeepsTasks ==
    ASSUME TypeInv, TaskInv, NEW d \in Drives, Asks(d)
    PROVE  TaskInv'
<1>1. PICK c : c = Current
    OBVIOUS
<1>2. PICK op : op = prog.op
    OBVIOUS
<1>3. PICK n : n = Now
    OBVIOUS
<1>4. PICK t : t = [ctrl |-> c, op |-> op, drive |-> d, since |-> n]
    OBVIOUS
<1>5. /\ tasks' = tasks \cup {t} /\ ~ Refuses(op, c, d) /\ UNCHANGED <<server, history>>
      /\ prog.at \in {"delete", "create"}
    BY <1>1, <1>2, <1>3, <1>4 DEF Asks
<1>6. /\ op \in {"delete", "apply"} /\ c \in Ctrls
      /\ prog'.at = "wait" /\ prog'.op = op /\ d \in prog'.done /\ prog'.queue = prog.queue
    BY <1>1, <1>2, <1>5, CurrentFacts DEF Asks, TypeInv, ProgOK
<1>7. Now' = n /\ Current' = c
    BY <1>1, <1>3, <1>5, <1>6, TimeStays DEF Current
<1>8. DrivesOK'
    <2>1. tasks' = tasks \cup {[ctrl |-> c, op |-> op, drive |-> d, since |-> n]}
        BY <1>4, <1>5
    <2>2. DrivesOK
        BY DEF TaskInv, DrivesOK
    <2> QED BY <1>5, <1>6, <2>1, <2>2, DrivesOfNewTask
<1>9. \A u \in tasks : u.since # n
    BY <1>3, <1>5 DEF TaskInv
<1>10. t.since = n /\ t.ctrl = c /\ t.op = op /\ t.drive = d
    BY <1>4
<1> QED BY <1>5, <1>6, <1>7, <1>8, <1>9, <1>10 DEF TaskInv, DrivesOK

\* A task that completes is where its drive was free, or frees it.
LEMMA CompletingKeepsTasks ==
    ASSUME TypeInv, TaskInv, NEW t \in tasks, Completes(t)
    PROVE  TaskInv'
<1>1. PICK c \in Ctrls : c = t.ctrl
    BY DEF TypeInv, ServerOK
<1>2. /\ Now' = Now /\ server'[c].volumes = Completed(t)
      /\ \A b \in Ctrls : b # c => server'[b] = server[b]
    BY <1>1, CompletingFacts
<1>3. tasks' = tasks \ {t} /\ \A u \in tasks : u.ctrl \in Ctrls
    BY DEF Completes, TypeInv, ServerOK
<1>4. \A b \in Ctrls : b # c => Used(b)' = Used(b)
    BY <1>2 DEF Used
<1>5. DrivesOK'
    <2>1. CASE t.op = "apply"
        <3>1. PICK n : n = [drive |-> t.drive, since |-> t.since, mine |-> TRUE]
            OBVIOUS
        <3>2. server'[c].volumes = server[c].volumes \cup {n} /\ n.drive = t.drive
            BY <1>1, <1>2, <2>1, <3>1 DEF Completed
        <3>3. \A v \in server[c].volumes : v.drive # t.drive
            BY <1>1, <2>1 DEF TaskInv, Used
        <3>4. \A v, w \in server'[c].volumes : v.drive = w.drive => v = w
            BY <3>2, <3>3 DEF TaskInv
        <3>5. \A u \in tasks' : u.op = "apply" => u.ctrl # c
            BY <1>1, <1>3, <2>1 DEF TaskInv
        <3>6. \A u \in tasks' : u.op = "apply" => u.drive \notin Used(u.ctrl)'
            BY <1>3, <1>4, <3>5 DEF TaskInv
        <3> QED BY <1>2, <1>3, <3>4, <3>6 DEF TaskInv, DrivesOK
    <2>2. CASE t.op # "apply"
        <3>1. server'[c].volumes \subseteq server[c].volumes
            BY <1>1, <1>2, <2>2 DEF Completed
        <3>2. \A b \in Ctrls : Used(b)' \subseteq Used(b)
            BY <1>4, <3>1 DEF Used
        <3>3. \A u \in tasks' : u.op = "apply" => u.drive \notin Used(u.ctrl)'
            BY <1>3, <3>2 DEF TaskInv
        <3> QED BY <1>2, <1>3, <3>1, <3>3 DEF TaskInv, DrivesOK
    <2> QED BY <2>1, <2>2
<1>6. CASE prog.at = "wait" /\ t.since = Now
    <2>1. prog'.at = "completed" /\ \A u \in tasks' : u.since # Now
        BY <1>3, <1>6 DEF Completes, TaskInv, TypeInv, ProgOK
    <2> QED BY <1>2, <1>5, <2>1 DEF TaskInv, DrivesOK
<1>7. CASE ~ (prog.at = "wait" /\ t.since = Now)
    <2>1. prog' = prog /\ Current' = Current
        BY <1>7 DEF Completes, Current
    <2>2. \A u \in tasks' : u.since = Now => prog.at = "wait"
        BY <1>3 DEF TaskInv
    <2>3. prog.at = "wait" => \E u \in tasks' :
            /\ u.since = Now /\ u.ctrl = Current /\ u.op = prog.op /\ u.drive \in prog.done
            /\ \A w \in tasks' : w.since = Now => w = u
        BY <1>3, <1>7 DEF TaskInv
    <2> QED BY <1>2, <1>5, <2>1, <2>2, <2>3 DEF TaskInv, DrivesOK
<1> QED BY <1>6, <1>7

LEMMA FailingTaskKeepsTasks ==
    ASSUME TypeInv, TaskInv, NEW t \in tasks, Fails(t)
    PROVE  TaskInv'
<1>1. Now' = Now /\ tasks' = tasks \ {t} /\ server' = server
    BY FailingTaskFacts DEF Fails
<1>2. DrivesOK'
    BY <1>1, DrivesStay DEF TaskInv, DrivesOK
<1>3. CASE prog.at = "wait" /\ t.since = Now
    <2>1. prog'.at = "failed" /\ \A u \in tasks' : u.since # Now
        BY <1>1, <1>3 DEF Fails, TaskInv, TypeInv, ProgOK
    <2> QED BY <1>1, <1>2, <2>1 DEF TaskInv, DrivesOK
<1>4. CASE ~ (prog.at = "wait" /\ t.since = Now)
    <2>1. prog' = prog /\ Current' = Current
        BY <1>4 DEF Fails, Current
    <2>2. \A u \in tasks' : u.since = Now => prog.at = "wait"
        BY <1>1 DEF TaskInv
    <2>3. prog.at = "wait" => \E u \in tasks' :
            /\ u.since = Now /\ u.ctrl = Current /\ u.op = prog.op /\ u.drive \in prog.done
            /\ \A w \in tasks' : w.since = Now => w = u
        BY <1>1, <1>4 DEF TaskInv
    <2> QED BY <1>1, <1>2, <2>1, <2>2, <2>3 DEF TaskInv, DrivesOK
<1> QED BY <1>3, <1>4

\* TaskInv depends on no more than this.
LEMMA TasksAreTheSame ==
    ASSUME TaskInv, DrivesOK', Now' = Now, tasks' = tasks, prog'.at = prog.at, prog'.op = prog.op,
           prog'.done = prog.done, prog'.queue = prog.queue
    PROVE  TaskInv'
<1>1. Current' = Current
    BY DEF Current
<1>2. prog'.at = "wait" => \E t \in tasks' :
            /\ t.since = Now' /\ t.ctrl = Current' /\ t.op = prog'.op /\ t.drive \in prog'.done
            /\ \A u \in tasks' : u.since = Now' => u = t
    BY <1>1 DEF TaskInv
<1>3. \A t \in tasks' : t.since = Now' => prog'.at = "wait"
    BY DEF TaskInv
<1> QED BY <1>2, <1>3 DEF TaskInv, DrivesOK

\* What other programs do, and what settles, leaves the tasks alone.
LEMMA OthersKeepTasks ==
    ASSUME TypeInv, TaskInv, NEW c \in Ctrls, NEW d \in Drives,
           Settles(c, d) \/ Creates(c, d) \/ Deletes(c, d)
    PROVE  TaskInv'
<1>1. UNCHANGED <<prog, tasks>>
    BY DEF Settles, Creates, Deletes
<1>2. \A t \in tasks : t.ctrl \in Ctrls
    BY DEF TypeInv, ServerOK
<1>3. Now' = Now /\ DrivesOK'
    <2>1. CASE Settles(c, d)
        <3>1. \A b \in Ctrls : server'[b].volumes = server[b].volumes
            BY <2>1, SettlingFacts
        <3> QED BY <1>1, <2>1, <3>1, SettlingFacts, DrivesStay DEF TaskInv, DrivesOK
    <2>2. CASE Creates(c, d)
        <3>1. PICK n : n = [drive |-> d, since |-> Now, mine |-> FALSE]
            OBVIOUS
        <3>2. /\ Now' = Now /\ server'[c].volumes = server[c].volumes \cup {n} /\ n.drive = d
              /\ \A b \in Ctrls : b # c => server'[b] = server[b]
            BY <2>2, <3>1, CreatingFacts DEF CreatedBy
        <3>3. (\A v \in server[c].volumes : v.drive # d) /\ \A t \in tasks : t.ctrl # c
            BY <2>2 DEF Creates, Refuses, Used
        <3>4. \A b \in Ctrls : b # c => Used(b)' = Used(b)
            BY <3>2 DEF Used
        <3>5. \A v, w \in server'[c].volumes : v.drive = w.drive => v = w
            BY <3>2, <3>3 DEF TaskInv
        <3>6. \A t \in tasks : t.op = "apply" => t.drive \notin Used(t.ctrl)'
            BY <1>2, <3>3, <3>4 DEF TaskInv
        <3> QED BY <1>1, <3>2, <3>5, <3>6 DEF TaskInv, DrivesOK
    <2>3. CASE Deletes(c, d)
        <3>1. /\ Now' = Now /\ server'[c].volumes \subseteq server[c].volumes
              /\ \A b \in Ctrls : b # c => server'[b] = server[b]
            BY <2>3, DeletingFacts DEF Left
        <3>2. \A b \in Ctrls : Used(b)' \subseteq Used(b)
            BY <3>1 DEF Used
        <3>3. \A t \in tasks : t.op = "apply" => t.drive \notin Used(t.ctrl)'
            BY <1>2, <3>2 DEF TaskInv
        <3> QED BY <1>1, <3>1, <3>3 DEF TaskInv, DrivesOK
    <2> QED BY <2>1, <2>2, <2>3
<1> QED BY <1>1, <1>3, TasksAreTheSame

\* Every step keeps the tasks in order.
LEMMA NextKeepsTasks == TypeInv /\ TaskInv /\ [Next]_vars => TaskInv'
<1> SUFFICES ASSUME TypeInv, TaskInv, [Next]_vars PROVE TaskInv'
    OBVIOUS
<1>0. TypeInv' /\ DrivesOK
    BY NextKeepsType DEF TaskInv, DrivesOK
<1>1. ASSUME NEW op \in {"delete", "apply"}, NEW r \in Requests \cup {<<>>}, Start(op, r) PROVE TaskInv'
    <2>1. Now' = Now + 1 /\ prog'.at = "ready" /\ UNCHANGED <<server, tasks>> /\ Now \in Nat
        BY <1>1, StartKeepsType, TimeOfNow DEF Start
    <2>2. \A t \in tasks' : t.since # Now + 1
        BY <2>1 DEF TypeInv, ServerOK, PastOK
    <2>3. DrivesOK'
        BY <1>0, <2>1, DrivesStay
    <2> QED BY <2>1, <2>2, <2>3 DEF TaskInv, DrivesOK
<1>2. CASE delete_all_raid_configuration \/ apply_raid_configuration
    BY <1>1, <1>2 DEF delete_all_raid_configuration, apply_raid_configuration
<1>3. CASE ProgramStep
    <2>1. CASE Ends /\ UNCHANGED <<reports, server, tasks, foreign>>
        <3>1. DrivesOK' /\ prog.at # "idle"
            BY <1>0, <1>3, <2>1, DrivesStay, StepsOfProgram
        <3>2. \A t \in tasks' : t.since \in Nat /\ t.since <= Now
            BY <2>1 DEF TypeInv, ServerOK, PastOK
        <3> QED BY <2>1, <3>1, <3>2, TasksWhenItEnds DEF Ends
    <2>2. CASE \E d \in Drives : Asks(d)
        BY <2>2, AskingKeepsTasks
    <2>3. CASE /\ UNCHANGED <<tasks, history>>
               /\ prog.at \notin {"idle", "wait"} /\ prog'.at \notin {"idle", "wait"}
               /\ \A c \in Ctrls : server'[c].volumes = server[c].volumes
        BY <2>3, TasksWhenItGoesOn
    <2> QED BY <1>3, <2>1, <2>2, <2>3, StepsOfProgram
<1>4. CASE RequestFails
    <2>1. DrivesOK'
        <3>1. CASE tasks' = tasks
            BY <1>0, <1>4, <3>1, FailedRequestTasks, DrivesStay
        <3>2. CASE tasks' # tasks
            BY <1>0, <1>4, <3>2, FailedRequestTasks, DrivesOfNewTask
        <3> QED BY <3>1, <3>2
    <2>2. \A t \in tasks' : t.since \in Nat /\ t.since <= Now
        <3>1. \A t \in tasks : t.since \in Nat /\ t.since <= Now
            BY DEF TypeInv, ServerOK, PastOK
        <3>2. \A t \in tasks' : t \in tasks \/ t.since = Now
            BY <1>4, FailedRequestTasks
        <3> QED BY <3>1, <3>2, TimeOfNow
    <2> QED BY <1>4, <2>1, <2>2, FailedRequestTasks, TasksWhenItEnds DEF Ends
<1>5. CASE TaskCompletes \/ TaskFails \/ Settle \/ OtherCreates \/ OtherDeletes \/ OtherSets
    <2>1. ASSUME NEW c \in Ctrls, Sets(c) PROVE TaskInv'
        <3>1. /\ prog'.at = prog.at /\ prog'.op = prog.op /\ prog'.done = prog.done
              /\ prog'.queue = prog.queue /\ UNCHANGED <<tasks, server>>
            BY <2>1 DEF Sets, TypeInv, ProgOK
        <3>2. Now' = Now /\ DrivesOK'
            BY <1>0, <2>1, <3>1, SettingFacts, DrivesStay
        <3> QED BY <3>1, <3>2, TasksAreTheSame
    <2> QED BY <1>5, <2>1, OutsideSteps, CompletingKeepsTasks, FailingTaskKeepsTasks, OthersKeepTasks
<1>6. CASE UNCHANGED vars
    <2>1. Now' = Now /\ DrivesOK' /\ UNCHANGED <<prog, tasks>>
        BY <1>0, <1>6, DrivesStay DEF vars, Now
    <2> QED BY <2>1, TasksAreTheSame
<1> QED BY <1>2, <1>3, <1>4, <1>5, <1>6 DEF Next, ServerStep

LEMMA InitTasks == Init => TaskInv
<1> SUFFICES ASSUME Init PROVE TaskInv
    OBVIOUS
<1>1. \A c \in Ctrls : server[c].volumes = {[drive |-> d, since |-> 0, mine |-> FALSE] : d \in Old[c]}
    BY DEF Init
<1>2. \A c \in Ctrls : \A v, w \in server[c].volumes : v.drive = w.drive => v = w
    <2>1. \A c \in Ctrls : \A v \in server[c].volumes :
            v = [drive |-> v.drive, since |-> 0, mine |-> FALSE]
        BY <1>1
    <2> QED BY <2>1
<1>3. tasks = {} /\ prog.at = "idle"
    BY DEF Init, Idle
<1> QED BY <1>2, <1>3 DEF TaskInv

\* The types are right and the tasks in order at every time.
THEOREM TasksAreInOrder == Spec => [](TypeInv /\ TaskInv)
BY InitType, InitTasks, NextKeepsType, NextKeepsTasks, PTL DEF Spec

\* delete_all_raid_configuration and apply_raid_configuration have one task
\* under way when they wait, and a drive has one volume at most.
THEOREM TypeCorrect == Spec => []TypeOK
<1>1. TypeInv /\ TaskInv => TypeOK
    <2> SUFFICES ASSUME TypeInv, TaskInv PROVE TypeOK
        OBVIOUS
    <2>1. ASSUME NEW c \in Ctrls
          PROVE  /\ Used(c) \cup server[c].spares \cup server[c].settling \subseteq Drives
                 /\ Cardinality(Used(c)) = Cardinality(server[c].volumes)
        <3> DEFINE V == server[c].volumes
                   f == [v \in V |-> v.drive]
        <3>1. V \subseteq Volume /\ server[c].spares \subseteq Drives /\ server[c].settling \subseteq Drives
            BY DEF TypeInv, ServerOK
        <3>2. Used(c) \subseteq Drives
            BY <3>1 DEF Used, Volume
        <3>3. IsFiniteSet(Used(c))
            BY <3>2, RaidApplyAssumption, FS_Subset
        <3>4. f \in [V -> Used(c)] /\ \A d \in Used(c) : \E v \in V : f[v] = d
            BY DEF Used
        <3>5. \A v, w \in V : f[v] = f[w] => v = w
            BY DEF TaskInv
        <3>6. f \in Injection(V, Used(c)) /\ f \in Surjection(V, Used(c))
            BY <3>4, <3>5 DEF Injection, Surjection, IsInjective
        <3>7. Cardinality(V) = Cardinality(Used(c))
            <4> HIDE DEF V, f
            <4> QED BY <3>3, <3>6, FS_Injection
        <3> QED BY <3>1, <3>2, <3>7
    <2>2. prog.at = "wait" => Cardinality({t \in tasks : t.since = Now}) = 1
        <3> SUFFICES ASSUME prog.at = "wait" PROVE Cardinality({t \in tasks : t.since = Now}) = 1
            OBVIOUS
        <3>1. PICK t \in tasks : t.since = Now /\ \A u \in tasks : u.since = Now => u = t
            BY DEF TaskInv
        <3>2. {u \in tasks : u.since = Now} = {t}
            BY <3>1
        <3> QED BY <3>2, FS_Singleton
    <2>3. prog.todo \subseteq Drives /\ (prog.todo # {} => prog.queue # <<>>)
        BY DEF TypeInv, ProgOK
    <2>4. \A i \in DOMAIN history : history[i].op \in {"delete", "apply"} /\ history[i].result \in Results
        <3> DEFINE H == [op : {"delete", "apply"}, result : Results, alone : BOOLEAN]
        <3>1. \A i \in DOMAIN history : history[i] \in H
            <4> HIDE DEF H
            <4> QED BY LenProperties, ElementOfSeq DEF TypeInv, PastOK, H
        <3> QED BY <3>1
    <2> QED BY <2>1, <2>2, <2>3, <2>4 DEF TypeOK
<1> QED BY <1>1, TasksAreInOrder, PTL

----------------------------------------------------------------------------
(* What is wrong is found out before anything is asked of the server.       *)

\* Whether a request is valid does not change: no step changes what a
\* controller supports.
LEMMA InvalidStays ==
    ASSUME \A c \in Ctrls : server'[c].support_oob = server[c].support_oob
    PROVE  \A r : Invalid(r)' <=> Invalid(r)
<1>1. \A disk : controller(disk) \subseteq Ctrls
    BY DEF controller, Ctrls, Range
<1>2. \A disk : Usable(disk)' <=> Usable(disk)
    BY <1>1 DEF Usable
<1> QED BY <1>2 DEF Invalid

\* No step changes what a controller supports.
LEMMA SupportStays ==
    ASSUME TypeInv, Next
    PROVE  \A c \in Ctrls : server'[c].support_oob = server[c].support_oob
<1>1. CASE delete_all_raid_configuration \/ apply_raid_configuration
    BY <1>1 DEF delete_all_raid_configuration, apply_raid_configuration, Start
<1>2. CASE ProgramStep
    <2>1. CASE \E d \in Drives : Asks(d)
        BY <2>1 DEF Asks
    <2> QED BY <1>2, <2>1, StepsOfProgram
<1>3. CASE RequestFails
    BY <1>3, FailedRequestTasks
<1>4. CASE TaskCompletes \/ TaskFails \/ Settle \/ OtherCreates \/ OtherDeletes \/ OtherSets
    <2>1. ASSUME NEW t \in tasks, Completes(t)
          PROVE  \A c \in Ctrls : server'[c].support_oob = server[c].support_oob
        BY <2>1, CompletingFacts
    <2>2. ASSUME NEW t \in tasks, Fails(t)
          PROVE  \A c \in Ctrls : server'[c].support_oob = server[c].support_oob
        BY <2>2 DEF Fails
    <2>3. ASSUME NEW b \in Ctrls, NEW d \in Drives, Settles(b, d)
          PROVE  \A c \in Ctrls : server'[c].support_oob = server[c].support_oob
        BY <2>3, SettlingFacts
    <2>4. ASSUME NEW b \in Ctrls, NEW d \in Drives, Creates(b, d)
          PROVE  \A c \in Ctrls : server'[c].support_oob = server[c].support_oob
        BY <2>4, CreatingFacts
    <2>5. ASSUME NEW b \in Ctrls, NEW d \in Drives, Deletes(b, d)
          PROVE  \A c \in Ctrls : server'[c].support_oob = server[c].support_oob
        BY <2>5, DeletingFacts
    <2>6. ASSUME NEW b \in Ctrls, Sets(b)
          PROVE  \A c \in Ctrls : server'[c].support_oob = server[c].support_oob
        BY <2>6 DEF Sets
    <2> QED BY <1>4, <2>1, <2>2, <2>3, <2>4, <2>5, <2>6, OutsideSteps
<1> QED BY <1>1, <1>2, <1>3, <1>4 DEF Next, ServerStep

\* The steps outside the program do not change what it was asked, nor what it
\* has been told.
LEMMA OutsideOfRequests ==
    ASSUME TypeInv, TaskCompletes \/ TaskFails \/ Settle \/ OtherCreates \/ OtherDeletes \/ OtherSets
    PROVE  /\ UNCHANGED <<reports, history, last>>
           /\ prog'.op = prog.op /\ prog'.request = prog.request /\ prog'.alone = prog.alone
           /\ prog'.touched = prog.touched /\ prog'.todo = prog.todo /\ prog'.done = prog.done
           /\ prog'.queue = prog.queue /\ prog'.seen = prog.seen
           /\ prog'.at = prog.at \/ (prog.at = "wait" /\ prog'.at \in {"completed", "failed"})
<1> DEFINE Same ==
        /\ UNCHANGED <<reports, history, last>>
        /\ prog'.op = prog.op /\ prog'.request = prog.request /\ prog'.alone = prog.alone
        /\ prog'.touched = prog.touched /\ prog'.todo = prog.todo /\ prog'.done = prog.done
        /\ prog'.queue = prog.queue /\ prog'.seen = prog.seen
        /\ prog'.at = prog.at \/ (prog.at = "wait" /\ prog'.at \in {"completed", "failed"})
<1>1. ASSUME NEW t, Completes(t) PROVE Same
    BY <1>1 DEF Completes, TypeInv, ProgOK
<1>2. ASSUME NEW t, Fails(t) PROVE Same
    BY <1>2 DEF Fails, TypeInv, ProgOK
<1>3. ASSUME NEW c, NEW d, Settles(c, d) \/ Creates(c, d) \/ Deletes(c, d) PROVE Same
    BY <1>3 DEF Settles, Creates, Deletes
<1>4. ASSUME NEW c, Sets(c) PROVE Same
    BY <1>4 DEF Sets, TypeInv, ProgOK
<1> QED BY <1>1, <1>2, <1>3, <1>4, OutsideSteps

\* What has to be shown of a step.
LEMMA AskedRight ==
    ASSUME \A r : Invalid(r)' <=> Invalid(r),
           Invalid(prog'.request) => prog'.at \in {"idle", "ready", "list"} /\ ~ prog'.touched,
           prog'.op # "apply" => prog'.request = <<>>,
           Invalid(last'.request) => ~ last'.touched
    PROVE  AskInv'
<1>1. PICK r : r = prog'.request
    OBVIOUS
<1>2. PICK b : b = last'.request
    OBVIOUS
<1>3. Invalid(r)' <=> Invalid(r)
    OBVIOUS
<1>4. Invalid(b)' <=> Invalid(b)
    OBVIOUS
<1>5. Invalid(r)' => prog'.at \in {"idle", "ready", "list"} /\ ~ prog'.touched
    BY <1>1, <1>3
<1>6. Invalid(b)' => ~ last'.touched
    BY <1>2, <1>4
<1> QED BY <1>1, <1>2, <1>5, <1>6 DEF AskInv, InvalidChangesNothing

LEMMA NextKeepsAsk == TypeInv /\ AskInv /\ [Next]_vars => AskInv'
<1> SUFFICES ASSUME TypeInv, AskInv, [Next]_vars PROVE AskInv'
    OBVIOUS
<1>0. /\ ~ Invalid(<<>>) /\ Idle.request = <<>> /\ Idle.at = "idle" /\ Idle.touched = FALSE
      /\ Nothing.request = <<>> /\ Idle.op = "none"
    BY DEF Invalid, Grouped, Group, Idle, Nothing
<1>1. CASE UNCHANGED vars
    BY <1>1, InvalidStays, AskedRight DEF vars, AskInv, InvalidChangesNothing
<1>2. CASE Next
    <2>1. \A r : Invalid(r)' <=> Invalid(r)
        BY <1>2, SupportStays, InvalidStays
    <2>3. CASE delete_all_raid_configuration \/ apply_raid_configuration
        <3>1. PICK op, r : Start(op, r) /\ (op # "apply" => r = <<>>)
            BY <2>3 DEF delete_all_raid_configuration, apply_raid_configuration
        <3>2. /\ prog'.request = r /\ prog'.at = "ready" /\ prog'.touched = FALSE /\ prog'.op = op
              /\ last' = Nothing
            BY <3>1 DEF Start, Idle
        <3> QED BY <1>0, <2>1, <3>1, <3>2, AskedRight
    <2>4. ASSUME NEW r \in Results, NEW b, Ended(r, b), Invalid(prog.request) => ~ b
          PROVE  AskInv'
        <3>1. prog' = Idle /\ last'.request = prog.request /\ last'.touched = b
            BY <2>4 DEF Ended
        <3> QED BY <1>0, <2>1, <2>4, <3>1, AskedRight
    <2>5. ASSUME prog'.request = prog.request, prog'.op = prog.op, last' = last,
                 Invalid(prog.request) => prog'.at \in {"idle", "ready", "list"} /\ ~ prog'.touched
          PROVE  AskInv'
        BY <2>1, <2>5, AskedRight DEF AskInv, InvalidChangesNothing
    <2>6. CASE ProgramStep
        <3>1. CASE \E d \in Drives : Asks(d)
            <4>1. /\ prog'.request = prog.request /\ prog'.op = prog.op /\ last' = last
                  /\ ~ Invalid(prog.request)
                BY <3>1 DEF Asks, AskInv, TypeInv, ProgOK
            <4> QED BY <2>5, <4>1
        <3>2. CASE ~ Invalid(prog.request)
            <4>1. CASE \E r \in Results : End(r)
                BY <2>4, <3>2, <4>1 DEF End
            <4>2. CASE prog'.request = prog.request /\ prog'.op = prog.op /\ last' = last
                BY <2>5, <3>2, <4>2
            <4> QED BY <2>6, <3>1, <4>1, <4>2, StepsOfProgram
        <3>3. CASE Invalid(prog.request)
            <4>1. prog.at \in {"ready", "list"} /\ ~ prog.touched
                BY <2>6, <3>3, StepsOfProgram DEF AskInv
            <4>2. CASE waiting_storage_ready
                <5>1. /\ prog'.at \in {"ready", "list"} /\ prog'.touched = prog.touched
                      /\ prog'.request = prog.request /\ prog'.op = prog.op /\ last' = last
                    BY <4>1, <4>2 DEF waiting_storage_ready, TypeInv, ProgOK
                <5> QED BY <2>5, <4>1, <5>1
            <4>3. CASE ListControllers
                <5>1. CASE End("invalid")
                    BY <2>4, <4>1, <5>1 DEF End, Results
                <5>2. CASE prog.op = "delete"
                    <6>1. prog.request = <<>>
                        BY <5>2 DEF AskInv
                    <6> QED BY <1>0, <3>3, <6>1
                <5> QED BY <3>3, <4>3, <5>1, <5>2 DEF ListControllers
            <4> QED BY <2>6, <4>1, <4>2, <4>3 DEF ProgramStep, AllDone, DeleteNotSupported,
                    LoadVolumes, DeleteVolume, VolumesDeleted, RestoreDrive, SetJbod, SettingJbod,
                    Plan, CreateVolume, VolumesCreated, TaskDone, TaskFailed
        <3> QED BY <3>2, <3>3
    <2>7. CASE RequestFails
        <3>1. PICK b \in BOOLEAN : Ended("error", b) /\ b = (prog.touched \/ <<tasks, server>>' # <<tasks, server>>)
            BY <2>7, WhenARequestFails
        <3>2. ASSUME Invalid(prog.request) PROVE ~ b
            <4>1. prog.at \in {"idle", "ready", "list"} /\ ~ prog.touched
                BY <3>2 DEF AskInv
            <4>2. UNCHANGED <<tasks, server>>
                BY <2>7, <4>1 DEF RequestFails, SettingJbod
            <4> QED BY <3>1, <4>1, <4>2
        <3> QED BY <2>4, <3>1, <3>2 DEF Results
    <2>8. CASE TaskCompletes \/ TaskFails \/ Settle \/ OtherCreates \/ OtherDeletes \/ OtherSets
        <3>1. /\ prog'.request = prog.request /\ last' = last /\ prog'.touched = prog.touched
              /\ prog.at \in {"idle", "ready", "list"} => prog'.at = prog.at
              /\ prog'.op = prog.op
            BY <2>8, OutsideOfRequests
        <3> QED BY <2>5, <3>1 DEF AskInv
    <2> QED BY <1>2, <2>3, <2>6, <2>7, <2>8 DEF Next, ServerStep
<1> QED BY <1>1, <1>2

\* An application that is wrong for one logical disk changes nothing, on any
\* controller.
THEOREM InvalidIsHarmless == Spec => []InvalidChangesNothing
<1>1. Init => AskInv
    <2>1. ~ Invalid(<<>>)
        BY DEF Invalid, Grouped, Group
    <2> QED BY <2>1 DEF Init, AskInv, InvalidChangesNothing, Idle, Nothing
<1>2. AskInv => InvalidChangesNothing
    BY DEF AskInv
<1> QED BY <1>1, <1>2, InitType, NextKeepsType, NextKeepsAsk, PTL DEF Spec

----------------------------------------------------------------------------
(* The server refuses nothing, unless another program interferes.           *)

\* The tasks of an operation that found the server ready.
LEMMA OwnTasks ==
    ASSUME TypeInv, TaskInv, QuietInv, Alone
    PROVE  /\ prog.at # "wait" => tasks = {}
           /\ \A t \in tasks : /\ prog.at = "wait" /\ prog.queue # <<>> /\ t.since = Now
                               /\ t.ctrl = Current /\ t.op = prog.op /\ t.drive \in prog.done
<1>1. \A t \in tasks : t.since = Now /\ prog.at = "wait"
    BY DEF QuietInv, TaskInv
<1>2. prog.at = "wait" => prog.queue # <<>>
    BY DEF TypeInv, ProgOK
<1>3. prog.at = "wait" => \E t \in tasks :
            /\ t.ctrl = Current /\ t.op = prog.op /\ t.drive \in prog.done
            /\ \A u \in tasks : u.since = Now => u = t
    BY DEF TaskInv
<1> QED BY <1>1, <1>2, <1>3

\* An operation that ends.
Rightly(r) == prog.alone /\ ~ Disturbed => r # "refused" /\ (r \in {"ok", "no disks"} => Quiet')

LEMMA QuietWhenItEnds ==
    ASSUME TypeInv, QuietInv, prog.at # "idle", NEW r \in Results, NEW b, Ended(r, b), foreign' = foreign,
           Rightly(r)
    PROVE  QuietInv'
<1>1. PICK k \in Nat : k = Len(history)
    BY TimeOfNow
<1>2. DOMAIN history = 1..k
    BY <1>1, TimeOfNow
<1>0. Now = 2 * k + 1 /\ Now = 2 * (k + 1) - 1 /\ Now \in Nat
    <2>1. Now = 2 * k + 1
        BY <1>1, TimeOfNow
    <2>2. k \in Nat
        BY <1>1
    <2> QED BY <2>1, <2>2
<1>3. /\ prog' = Idle
      /\ Len(history') = k + 1 /\ DOMAIN history' = 1..(k + 1)
      /\ \A i \in 1..k : history'[i] = history[i]
      /\ history'[k + 1] = [op |-> prog.op, result |-> r, alone |-> prog.alone]
    BY <1>1, WhenItEnds
<1>4. ~ Looked' /\ prog'.stale = {}
    BY <1>3 DEF Looked, Idle
<1>6. history'[k + 1].result = r /\ history'[k + 1].alone = prog.alone
    BY <1>3
<1>7. RefusedMeansDisturbed'
    <2> SUFFICES ASSUME NEW n \in DOMAIN history', history'[n].result = "refused"
                 PROVE  ~ history'[n].alone \/ \E f \in foreign' : f.time = 2 * n - 1
        BY DEF RefusedMeansDisturbed
    <2>1. CASE n \in 1..k
        <3>1. n \in DOMAIN history /\ history'[n] = history[n]
            BY <1>2, <1>3, <2>1
        <3> QED BY <3>1 DEF QuietInv, RefusedMeansDisturbed
    <2>2. CASE n = k + 1
        BY <1>0, <1>6, <2>2 DEF Disturbed, Rightly
    <2>3. n \in 1..k \/ n = k + 1
        <3>1. k \in Nat /\ n \in 1..(k + 1)
            BY <1>1, <1>3
        <3> QED BY <3>1
    <2> QED BY <2>1, <2>2, <2>3
<1>8. ASSUME LastEnded'.result \in {"ok", "no disks"}, LeftAlone(Len(history))' PROVE Quiet'
    <2>1. r \in {"ok", "no disks"}
        BY <1>3, <1>6, <1>8 DEF LastEnded
    <2>2. prog.alone /\ \A f \in foreign : f.time < Now
        BY <1>0, <1>3, <1>6, <1>8 DEF LeftAlone
    <2>3. ~ Disturbed
        BY <1>0, <2>2 DEF Disturbed
    <2> QED BY <2>1, <2>2, <2>3 DEF Rightly
<1> QED BY <1>3, <1>4, <1>7, <1>8 DEF QuietInv, Alone

\* An operation that goes on.
LEMMA QuietWhenItGoesOn ==
    ASSUME TypeInv, QuietInv, history' = history, foreign \subseteq foreign', Now' = Now, prog'.at # "idle",
           prog'.at \in {"ready", "list"} => prog'.stale = {},
           Alone' => \A t \in tasks' : t.since = Now,
           Alone' /\ ~ Disturbed' => Known'
    PROVE  QuietInv'
<1>1. RefusedMeansDisturbed'
    BY DEF QuietInv, RefusedMeansDisturbed
<1>2. prog' # Idle
    BY DEF Idle
<1> QED BY <1>1, <1>2 DEF QuietInv

\* A step between two places where the operation is at work on no controller.
LEMMA QuietElsewhere ==
    ASSUME TypeInv, TaskInv, QuietInv, Looked, prog'.at \notin {"idle", "ready"}, prog'.alone = prog.alone,
           prog'.stale = prog.stale, UNCHANGED <<reports, tasks, history, foreign>>,
           prog'.at = "list" => prog.at \in {"ready", "list"},
           \A c \in Ctrls : server'[c].settling = server[c].settling,
           ~ AtDelete, ~ AtCreate, ~ AtDelete', ~ AtCreate'
    PROVE  QuietInv'
<1>1. Now' = Now /\ prog.at # "idle"
    BY TimeStays DEF Looked
<1>2. Looked' /\ (Alone' <=> Alone)
    BY DEF Looked, Alone
<1>3. Disturbed' <=> Disturbed
    BY <1>1 DEF Disturbed
<1>4. Alone /\ ~ Disturbed => Known'
    BY DEF QuietInv, Known
<1>5. prog'.at \in {"ready", "list"} => prog'.stale = {}
    BY DEF QuietInv
<1> QED BY <1>1, <1>2, <1>3, <1>4, <1>5, QuietWhenItGoesOn DEF QuietInv

\* Plan ends the operation, or chooses drives that look free.
LEMMA PlanSteps ==
    ASSUME TypeInv, Plan
    PROVE  /\ prog.at = "controller" /\ prog.op = "apply" /\ prog.queue # <<>>
           /\ Jbods(prog.request, Current) = {} /\ UNCHANGED <<reports, server, tasks, faults, foreign>>
           /\ \/ End("no disks") /\ Cardinality(SeenFree(Current)) < Cardinality(Group(prog.request, Current))
              \/ \E S \in SUBSET SeenFree(Current) :
                    /\ S \in kSubset(Cardinality(Group(prog.request, Current)), SeenFree(Current))
                    /\ prog'.todo = S /\ prog'.done = {}
                    /\ prog'.at = "create" /\ prog'.alone = prog.alone /\ prog'.stale = prog.stale
                    /\ prog'.queue = prog.queue /\ prog'.op = prog.op /\ prog'.request = prog.request
                    /\ UNCHANGED <<history, last>>
<1>1. CASE End("no disks") /\ Cardinality(SeenFree(Current)) < Cardinality(Group(prog.request, Current))
    BY <1>1 DEF Plan
<1>2. CASE ~ (End("no disks") /\ Cardinality(SeenFree(Current)) < Cardinality(Group(prog.request, Current)))
    <2>1. /\ UNCHANGED <<history, last>>
          /\ \E S \in kSubset(Cardinality(Group(prog.request, Current)), SeenFree(Current)) :
                prog' = [prog EXCEPT !.at = "create", !.todo = S, !.done = {}]
        BY <1>2 DEF Plan
    <2>2. PICK S \in kSubset(Cardinality(Group(prog.request, Current)), SeenFree(Current)) :
                prog' = [prog EXCEPT !.at = "create", !.todo = S, !.done = {}]
        BY <2>1
    <2>3. S \in SUBSET SeenFree(Current)
        BY <2>2 DEF kSubset
    <2>4. /\ prog'.todo = S /\ prog'.done = {}
          /\ prog'.at = "create" /\ prog'.alone = prog.alone /\ prog'.stale = prog.stale
          /\ prog'.queue = prog.queue /\ prog'.op = prog.op /\ prog'.request = prog.request
        BY <2>2 DEF TypeInv, ProgOK
    <2> QED BY <2>1, <2>2, <2>3, <2>4 DEF Plan
<1> QED BY <1>1, <1>2

\* A request that is made of a server that is known is not refused.
LEMMA NothingRefused ==
    ASSUME TypeInv, TaskInv, QuietInv, prog.alone, ~ Disturbed
    PROVE  /\ prog.at = "delete" => \A d \in prog.todo : ~ Refuses("delete", Current, d)
           /\ prog.at = "create" => \A d \in prog.todo : ~ Refuses("apply", Current, d)
           /\ SettingJbod => Current \notin prog.stale
           /\ prog.at \in {"list", "controller", "create", "restore"} => Quiet
<1>1. CASE prog.at \notin {"delete", "list", "controller", "create", "restore"}
    BY <1>1 DEF SettingJbod
<1>2. CASE prog.at \in {"delete", "list", "controller", "create", "restore"}
    <2>1. Alone /\ Known /\ tasks = {}
        BY <1>2, OwnTasks DEF QuietInv, Alone, Looked
    <2>2. prog.at # "delete" => \A c \in Ctrls : server[c].settling = {}
        BY <1>2, <2>1 DEF Known, AtDelete, AtCreate
    <2>3. ASSUME prog.at = "delete", NEW d \in prog.todo PROVE ~ Refuses("delete", Current, d)
        BY <2>1, <2>3 DEF Refuses, Known, AtDelete, TypeInv, ProgOK
    <2>4. ASSUME prog.at = "create", NEW d \in prog.todo PROVE ~ Refuses("apply", Current, d)
        <3>1. Current \in Ctrls /\ AtCreate
            BY <2>4, CurrentFacts DEF AtCreate, TypeInv, ProgOK
        <3> QED BY <2>1, <2>2, <2>4, <3>1 DEF Refuses, Known
    <2>5. SettingJbod => Current \notin prog.stale
        BY <2>1 DEF Known
    <2> QED BY <2>1, <2>2, <2>3, <2>4, <2>5 DEF Quiet
<1> QED BY <1>1, <1>2

\* The steps that wait, list and plan.
LEMMA LookingKeepsQuiet ==
    ASSUME TypeInv, TaskInv, QuietInv,
           waiting_storage_ready \/ ListControllers \/ LoadVolumes \/ Plan
    PROVE  QuietInv'
<1> USE DEF TypeInv, ProgOK
<1>1. CASE waiting_storage_ready
    <2>1. CASE prog.seen \/ ~ reports
        <3>1. /\ Looked /\ prog'.at = "list" /\ prog'.alone = prog.alone /\ prog'.stale = prog.stale
              /\ UNCHANGED <<reports, server, tasks, history, foreign>> /\ prog.at = "ready"
            BY <1>1, <2>1 DEF waiting_storage_ready, Looked
        <3> QED BY <3>1, QuietElsewhere DEF AtDelete, AtCreate
    <2>2. CASE ~ (prog.seen \/ ~ reports)
        <3>1. /\ prog'.at = "ready" /\ prog'.stale = {} /\ prog'.seen = Ready
              /\ UNCHANGED <<reports, server, tasks, history, foreign>> /\ prog.at = "ready"
            BY <1>1, <2>2 DEF waiting_storage_ready, QuietInv
        <3>2. Now' = Now
            BY <3>1, TimeStays
        <3>3. Alone' => Ready
            BY <2>2, <3>1 DEF Alone, Looked
        <3>4. Ready => Known'
            BY <3>1 DEF Ready, Known, AtDelete, AtCreate
        <3> QED BY <3>1, <3>2, <3>3, <3>4, QuietWhenItGoesOn DEF Ready
    <2> QED BY <2>1, <2>2
<1>2. CASE ListControllers
    <2>1. CASE End("invalid")
        BY <1>2, <2>1, QuietWhenItEnds DEF ListControllers, End, Results, Rightly
    <2>2. CASE \E q : prog' = [prog EXCEPT !.at = "controller", !.queue = q] /\ UNCHANGED <<history, last>>
        <3>1. /\ Looked /\ prog'.at = "controller" /\ prog'.alone = prog.alone /\ prog'.stale = prog.stale
              /\ UNCHANGED <<reports, server, tasks, history, foreign>> /\ prog.at = "list"
            BY <1>2, <2>2 DEF ListControllers, Looked
        <3> QED BY <3>1, QuietElsewhere DEF AtDelete, AtCreate
    <2> QED BY <1>2, <2>1, <2>2 DEF ListControllers
<1>3. ASSUME prog.at = "controller", prog'.at \in {"delete", "create"}, prog'.alone = prog.alone,
             prog'.stale = prog.stale, prog'.queue = prog.queue, prog'.op = prog.op,
             UNCHANGED <<reports, server, tasks, history, foreign>>,
             prog'.at = "delete" => prog'.todo \subseteq Used(Current),
             prog'.at = "create" /\ Quiet => prog'.todo \cap Used(Current) = {}
      PROVE  QuietInv'
    <2>1. Now' = Now
        BY <1>3, TimeStays
    <2>2. Alone' <=> Alone
        BY <1>3 DEF Alone, Looked
    <2>3. ASSUME Alone, ~ Disturbed PROVE Known'
        <3>1. Quiet /\ prog.stale = {}
            BY <1>3, <2>3, NothingRefused DEF QuietInv, Known, Alone
        <3>2. Used(Current)' = Used(Current)
            BY <1>3 DEF Used, Current
        <3> QED BY <1>3, <3>1, <3>2 DEF Known, Quiet, AtDelete, AtCreate
    <2>4. Disturbed' <=> Disturbed
        BY <1>3, <2>1 DEF Disturbed
    <2> QED BY <1>3, <2>1, <2>2, <2>3, <2>4, QuietWhenItGoesOn DEF QuietInv
<1>4. CASE LoadVolumes
    BY <1>3, <1>4 DEF LoadVolumes
<1>5. CASE Plan
    <2>1. CASE End("no disks")
        <3>1. prog.alone /\ ~ Disturbed => Quiet
            BY <1>5, NothingRefused DEF Plan
        <3>2. Quiet' <=> Quiet
            BY <1>5 DEF Plan, Quiet
        <3> QED BY <1>5, <2>1, <3>1, <3>2, QuietWhenItEnds DEF Plan, End, Results, Rightly
    <2>2. CASE ~ End("no disks")
        <3>1. PICK S \in SUBSET SeenFree(Current) :
                /\ prog'.todo = S /\ prog'.at = "create" /\ prog'.alone = prog.alone
                /\ prog'.stale = prog.stale /\ prog'.queue = prog.queue /\ prog'.op = prog.op
                /\ history' = history
            BY <1>5, <2>2, PlanSteps
        <3>2. Quiet => SeenFree(Current) \cap Used(Current) = {}
            BY <1>5, CurrentFacts, PlanSteps DEF Quiet, SeenFree
        <3> QED BY <1>3, <1>5, <3>1, <3>2, PlanSteps
    <2> QED BY <2>1, <2>2
<1> QED BY <1>1, <1>2, <1>4, <1>5

\* A task that is asked for is the operation's own.
LEMMA AskingKeepsQuiet ==
    ASSUME TypeInv, TaskInv, QuietInv, NEW d \in Drives, Asks(d)
    PROVE  QuietInv'
<1>1. /\ prog.at \in {"delete", "create"} /\ d \in prog.todo
      /\ prog'.at = "wait" /\ prog'.alone = prog.alone /\ prog'.stale = prog.stale
      /\ prog'.queue = prog.queue /\ prog'.op = prog.op
      /\ prog'.todo = prog.todo \ {d} /\ prog'.done = prog.done \cup {d}
      /\ UNCHANGED <<reports, server, history, foreign>>
    BY DEF Asks, TypeInv, ProgOK
<1>2. Now' = Now /\ (Disturbed' <=> Disturbed)
    BY <1>1, TimeStays DEF Disturbed
<1>3. \A t \in tasks' : t \in tasks \/ t.since = Now
    BY DEF Asks
<1>4. Alone' <=> Alone
    BY <1>1 DEF Alone, Looked
<1>5. ASSUME Known PROVE Known'
    <2>1. Used(Current)' = Used(Current) /\ Current' = Current
        BY <1>1 DEF Used, Current
    <2>2. /\ AtDelete <=> prog.at = "delete" /\ prog.op = "delete"
          /\ AtCreate <=> prog.at = "create" /\ prog.op = "apply"
          /\ AtDelete \/ AtCreate
          /\ AtDelete' <=> AtDelete
          /\ AtCreate' <=> AtCreate
        BY <1>1 DEF AtDelete, AtCreate, TypeInv, ProgOK
    <2> QED BY <1>1, <1>5, <2>1, <2>2 DEF Known
<1> QED BY <1>1, <1>2, <1>3, <1>4, <1>5, QuietWhenItGoesOn DEF QuietInv

\* The end of the wait for a task, and of a controller's deletions.
LEMMA WaitingKeepsQuiet ==
    ASSUME TypeInv, TaskInv, QuietInv, VolumesDeleted \/ TaskDone
    PROVE  QuietInv'
<1>1. /\ prog.at \in {"delete", "completed"} /\ prog.queue # <<>>
      /\ prog'.at \in {"restore", "delete", "create"} /\ prog'.alone = prog.alone /\ prog'.stale = prog.stale
      /\ prog'.queue = prog.queue /\ prog'.op = prog.op /\ prog'.done = prog.done
      /\ UNCHANGED <<reports, server, tasks, history, foreign>>
      /\ prog'.at = "delete" => prog.op = "delete" /\ prog'.todo = prog.todo
      /\ prog'.at = "create" => prog.op = "apply" /\ prog.at = "completed" /\ prog'.todo = prog.todo
      /\ prog'.at # "delete" => prog.done \cap server[Current].settling = {}
    BY DEF VolumesDeleted, TaskDone, TypeInv, ProgOK
<1>2. Now' = Now /\ (Disturbed' <=> Disturbed)
    BY <1>1, TimeStays DEF Disturbed
<1>3. Alone' <=> Alone
    BY <1>1 DEF Alone, Looked
<1>4. ASSUME Known PROVE Known'
    <2>1. Used(Current)' = Used(Current) /\ Current' = Current /\ Current \in Ctrls
        BY <1>1, CurrentFacts DEF Used, Current
    <2>2. /\ AtDelete' => prog'.at = "delete" /\ AtDelete
          /\ AtCreate' => prog'.at = "create" /\ AtCreate
          /\ prog'.at = "delete" => AtDelete'
          /\ prog'.at = "create" => AtCreate'
        <3>1. CASE prog'.at = "restore"
            BY <3>1 DEF AtDelete, AtCreate
        <3>2. CASE prog'.at = "delete"
            BY <1>1, <3>2 DEF AtDelete, AtCreate
        <3>3. CASE prog'.at = "create"
            BY <1>1, <3>3 DEF AtDelete, AtCreate
        <3> QED BY <1>1, <3>1, <3>2, <3>3
    <2>3. prog'.at # "delete" => \A c \in Ctrls : server[c].settling = {}
        BY <1>1, <1>4, <2>1 DEF Known
    <2> QED BY <1>1, <1>4, <2>1, <2>2, <2>3 DEF Known
<1> QED BY <1>1, <1>2, <1>3, <1>4, QuietWhenItGoesOn DEF QuietInv

LEMMA ProgramKeepsQuiet ==
    ASSUME TypeInv, TaskInv, QuietInv, ProgramStep
    PROVE  QuietInv'
<1>1. CASE waiting_storage_ready \/ ListControllers \/ LoadVolumes \/ Plan
    BY <1>1, LookingKeepsQuiet
<1>2. CASE VolumesDeleted \/ TaskDone
    BY <1>2, WaitingKeepsQuiet
<1>3. ASSUME NEW r \in Results, End(r), UNCHANGED <<reports, server, tasks, foreign>>, prog.at # "idle",
             prog.alone /\ ~ Disturbed => r # "refused" /\ (r \in {"ok", "no disks"} => Quiet)
      PROVE  QuietInv'
    <2>1. Quiet' <=> Quiet
        BY <1>3 DEF Quiet
    <2>2. Rightly(r)
        BY <1>3, <2>1 DEF Rightly
    <2> QED BY <1>3, <2>2, QuietWhenItEnds DEF End
<1>4. CASE AllDone
    <2>1. prog.alone /\ ~ Disturbed => Quiet
        BY <1>4, NothingRefused DEF AllDone
    <2> QED BY <1>3, <1>4, <2>1 DEF AllDone, Results
<1>5. CASE DeleteNotSupported \/ TaskFailed
    BY <1>3, <1>5 DEF DeleteNotSupported, TaskFailed, Results
<1>6. CASE DeleteVolume
    <2>1. prog.op = "delete" /\ prog.todo \subseteq Drives /\ prog.at # "idle"
        BY <1>6 DEF DeleteVolume, TypeInv, ProgOK
    <2>2. CASE End("refused") /\ tasks' = tasks /\ \E d \in prog.todo : Refuses("delete", Current, d)
        <3>1. ~ (prog.alone /\ ~ Disturbed)
            BY <1>6, <2>2, NothingRefused DEF DeleteVolume
        <3> QED BY <1>3, <1>6, <2>1, <2>2, <3>1 DEF DeleteVolume, Results
    <2>3. CASE \E d \in Drives : Asks(d)
        BY <2>3, AskingKeepsQuiet
    <2> QED BY <1>6, <2>1, <2>2, <2>3 DEF DeleteVolume, Asks
<1>7. CASE CreateVolume
    <2>1. prog.op = "apply" /\ prog.todo \subseteq Drives /\ prog.at # "idle"
        BY <1>7 DEF CreateVolume, TypeInv, ProgOK
    <2>2. CASE End("refused") /\ tasks' = tasks /\ \E d \in prog.todo : Refuses("apply", Current, d)
        <3>1. ~ (prog.alone /\ ~ Disturbed)
            BY <1>7, <2>2, NothingRefused DEF CreateVolume
        <3> QED BY <1>3, <1>7, <2>1, <2>2, <3>1 DEF CreateVolume, Results
    <2>3. CASE \E d \in Drives : Asks(d)
        BY <2>3, AskingKeepsQuiet
    <2> QED BY <1>7, <2>1, <2>2, <2>3 DEF CreateVolume, Asks
<1>8. ASSUME prog.at \in {"restore", "controller", "create"}, prog'.at \in {"restore", "controller"},
             prog'.alone = prog.alone, prog'.stale = prog.stale,
             UNCHANGED <<reports, tasks, history, foreign>>,
             \A c \in Ctrls : server'[c].settling = server[c].settling,
             prog.at = "create" => prog'.at = "controller"
      PROVE  QuietInv'
    <2>1. CASE prog.at # "create"
        <3>1. ~ AtDelete /\ ~ AtCreate /\ ~ AtDelete' /\ ~ AtCreate' /\ Looked
            BY <1>8, <2>1 DEF AtDelete, AtCreate, Looked
        <3> QED BY <1>8, <3>1, QuietElsewhere
    <2>2. CASE prog.at = "create"
        <3>1. Now' = Now /\ (Disturbed' <=> Disturbed)
            BY <1>8, TimeStays DEF Disturbed
        <3>2. Alone' <=> Alone
            BY <1>8 DEF Alone, Looked
        <3>3. Known => Known'
            BY <1>8, <2>2 DEF Known, AtDelete, AtCreate
        <3> QED BY <1>8, <3>1, <3>2, <3>3, QuietWhenItGoesOn DEF QuietInv
    <2> QED BY <2>1, <2>2
<1>9. CASE RestoreDrive \/ VolumesCreated
    <2>1. /\ prog.at \in {"restore", "create"} /\ prog'.at \in {"restore", "controller"}
          /\ prog'.alone = prog.alone /\ prog'.stale = prog.stale
          /\ UNCHANGED <<reports, tasks, history, foreign>>
          /\ prog.at = "create" => prog'.at = "controller"
        BY <1>9 DEF RestoreDrive, VolumesCreated, TypeInv, ProgOK
    <2>2. prog'.at # "wait" /\ ~ (\E d \in Drives : Asks(d))
        BY <2>1 DEF Asks, TypeInv, ProgOK
    <2>3. \A c \in Ctrls : server'[c].settling = server[c].settling
        <3>1. CASE server' = server
            BY <3>1
        <3>2. CASE server' # server
            BY <2>2, <3>2, StepsOfProgram
        <3> QED BY <3>1, <3>2
    <2> QED BY <1>8, <2>1, <2>3
<1>10. CASE SetJbod
    <2>1. CASE Current \in prog.stale
        BY <1>3, <1>10, <2>1, NothingRefused DEF SetJbod, SettingJbod, Results
    <2>2. CASE Current \notin prog.stale
        <3>1. /\ prog.at = "controller" /\ prog'.at = "controller"
              /\ prog'.alone = prog.alone /\ prog'.stale = prog.stale
              /\ UNCHANGED <<reports, tasks, history, foreign>>
            BY <1>10, <2>2 DEF SetJbod, SettingJbod, TypeInv, ProgOK
        <3>2. \A c \in Ctrls : server'[c].settling = server[c].settling
            BY <3>1, StepsOfProgram DEF Asks
        <3> QED BY <1>8, <3>1, <3>2
    <2> QED BY <2>1, <2>2
<1> QED BY <1>1, <1>2, <1>4, <1>5, <1>6, <1>7, <1>9, <1>10 DEF ProgramStep

\* What another program does disturbs the operation under way, and comes after
\* the one that has ended.
LEMMA DisturbedIsQuiet ==
    ASSUME TypeInv, QuietInv, Now' = Now, history' = history, tasks' = tasks, foreign \subseteq foreign',
           \E f \in foreign' : f.time = Now, prog'.at = prog.at, prog'.alone = prog.alone,
           prog'.seen = prog.seen, reports' = reports,
           prog.at \in {"idle", "ready", "list"} => prog'.stale = prog.stale
    PROVE  QuietInv'
<1>1. Disturbed'
    BY DEF Disturbed
<1>2. Alone' <=> Alone
    BY DEF Alone, Looked
<1>3. RefusedMeansDisturbed'
    BY DEF QuietInv, RefusedMeansDisturbed
<1>4. ASSUME prog' = Idle, history # <<>> PROVE ~ LeftAlone(Len(history))'
    <2>1. prog.at = "idle"
        BY <1>4 DEF Idle
    <2>2. Len(history) \in Nat /\ Now = 2 * Len(history)
        BY <2>1, TimeOfNow
    <2>3. PICK k \in Nat : k = Len(history)
        BY <2>2
    <2>4. Now = 2 * k /\ ~ (Now < 2 * k - 1)
        BY <2>2, <2>3
    <2>5. Len(history') = k
        BY <2>3
    <2> QED BY <2>4, <2>5 DEF LeftAlone
<1> QED BY <1>1, <1>2, <1>3, <1>4 DEF QuietInv

\* What the server does on its own.
LEMMA ServerKeepsQuiet ==
    ASSUME TypeInv, TaskInv, QuietInv,
           \/ \E t \in tasks : Completes(t) \/ Fails(t)
           \/ \E c \in Ctrls, d \in Drives : Settles(c, d)
    PROVE  QuietInv'
<1> DEFINE Same ==
        /\ UNCHANGED <<reports, history, foreign>> /\ Now' = Now
        /\ prog'.alone = prog.alone /\ prog'.stale = prog.stale /\ prog'.seen = prog.seen
        /\ prog'.todo = prog.todo /\ prog'.done = prog.done /\ prog'.queue = prog.queue /\ prog'.op = prog.op
        /\ prog'.at = prog.at \/ (prog.at = "wait" /\ prog'.at \in {"completed", "failed"})
<1>1. ASSUME Same, tasks' \subseteq tasks,
             Alone /\ ~ Disturbed => Known',
             prog.at = "idle" => prog' = prog /\ (Quiet => Quiet')
      PROVE  QuietInv'
    <2>1. (Alone' <=> Alone) /\ (Disturbed' <=> Disturbed)
        BY <1>1 DEF Alone, Looked, Disturbed
    <2>2. CASE prog.at # "idle"
        <3>1. prog'.at # "idle"
            BY <1>1, <2>2
        <3> QED BY <1>1, <2>1, <3>1, QuietWhenItGoesOn DEF QuietInv
    <2>3. CASE prog.at = "idle"
        <3>1. RefusedMeansDisturbed' /\ LastEnded' = LastEnded
              /\ (LeftAlone(Len(history))' <=> LeftAlone(Len(history)))
            BY <1>1 DEF QuietInv, RefusedMeansDisturbed, LastEnded, LeftAlone
        <3>2. ~ Alone' /\ prog' = prog
            BY <1>1, <2>1, <2>3 DEF Alone, Looked
        <3> QED BY <1>1, <2>3, <3>1, <3>2 DEF QuietInv
    <2> QED BY <2>2, <2>3
<1>2. ASSUME NEW t \in tasks, Completes(t) PROVE QuietInv'
    <2>1. Same /\ tasks' \subseteq tasks /\ (prog.at = "idle" => prog' = prog)
        BY <1>2, CompletingFacts DEF Completes, TypeInv, ProgOK
    <2>2. ~ (prog.at = "idle" /\ Quiet)
        BY DEF Quiet
    <2>3. ASSUME Alone, ~ Disturbed PROVE Known'
        <3>1. /\ prog.at = "wait" /\ prog.queue # <<>> /\ t.since = Now
              /\ t.ctrl = Current /\ t.op = prog.op /\ t.drive \in prog.done
            BY <2>3, OwnTasks
        <3>2. prog'.at = "completed" /\ Current' = Current /\ Known
            BY <1>2, <2>1, <2>3, <3>1 DEF Completes, TypeInv, ProgOK, Current, QuietInv
        <3>3. (AtDelete' <=> AtDelete) /\ (AtCreate' <=> AtCreate) /\ (AtDelete \/ AtCreate)
            BY <2>1, <3>1, <3>2 DEF AtDelete, AtCreate, TypeInv, ProgOK
        <3>4. PICK c \in Ctrls : c = Current
            BY <3>1, CurrentFacts
        <3>5. /\ server'[c].settling = server[c].settling \cup {t.drive}
              /\ \A b \in Ctrls : b # c => server'[b].settling = server[b].settling
              /\ server'[c].volumes = Completed(t)
            BY <1>2, <3>1, <3>4, CompletingFacts DEF Settled
        <3>6. \A b \in Ctrls : server'[b].settling # {} => b = c /\ server'[b].settling \subseteq prog.done
            BY <3>1, <3>2, <3>4, <3>5 DEF Known
        <3>7. prog.todo \cap prog.done = {}
            BY <3>1 DEF TypeInv, ProgOK
        <3>8. AtDelete => prog.todo \subseteq Used(c)'
            <4> SUFFICES ASSUME AtDelete, NEW d \in prog.todo PROVE d \in Used(c)'
                OBVIOUS
            <4>1. PICK v \in server[c].volumes : v.drive = d
                BY <3>2, <3>4 DEF Known, Used
            <4>2. v.drive # t.drive /\ t.op # "apply"
                BY <3>1, <3>7, <4>1 DEF AtDelete
            <4>3. v \in server'[c].volumes
                BY <3>1, <3>4, <3>5, <4>2 DEF Completed
            <4> QED BY <4>1, <4>3 DEF Used
        <3>9. AtCreate => prog.todo \cap Used(c)' = {}
            <4> SUFFICES ASSUME AtCreate, NEW d \in prog.todo PROVE d \notin Used(c)'
                OBVIOUS
            <4>1. \A v \in server[c].volumes : v.drive # d
                BY <3>2, <3>4 DEF Known, Used
            <4>2. PICK n : n = [drive |-> t.drive, since |-> t.since, mine |-> TRUE]
                OBVIOUS
            <4>3. \A v \in server'[c].volumes : v \in server[c].volumes \/ v = n
                BY <3>1, <3>4, <3>5, <4>2 DEF Completed
            <4>4. n.drive # d
                BY <3>1, <3>7, <4>2
            <4> QED BY <4>1, <4>3, <4>4 DEF Used
        <3> QED BY <2>1, <3>2, <3>3, <3>4, <3>6, <3>8, <3>9 DEF Known
    <2> QED BY <1>1, <2>1, <2>2, <2>3
<1>3. ASSUME NEW t \in tasks, Fails(t) PROVE QuietInv'
    <2>1. /\ Same /\ tasks' \subseteq tasks /\ (prog.at = "idle" => prog' = prog) /\ server' = server
          /\ prog'.at = prog.at \/ prog'.at = "failed"
        BY <1>3, FailingTaskFacts DEF Fails, TypeInv, ProgOK
    <2>2. ~ (prog.at = "idle" /\ Quiet)
        BY DEF Quiet
    <2>3. ASSUME Known PROVE Known'
        <3>1. Used(Current)' = Used(Current) /\ Current' = Current
            BY <2>1 DEF Used, Current
        <3>2. (AtDelete' <=> AtDelete) /\ (AtCreate' <=> AtCreate)
            BY <2>1 DEF AtDelete, AtCreate
        <3> QED BY <2>1, <2>3, <3>1, <3>2 DEF Known
    <2> QED BY <1>1, <2>1, <2>2, <2>3 DEF QuietInv
<1>4. ASSUME NEW c \in Ctrls, NEW d \in Drives, Settles(c, d) PROVE QuietInv'
    <2>1. /\ Same /\ tasks' = tasks /\ prog' = prog
          /\ \A b \in Ctrls : /\ server'[b].settling \subseteq server[b].settling
                              /\ server'[b].volumes = server[b].volumes
        BY <1>4, SettlingFacts DEF Settles
    <2>2. Quiet => Quiet'
        BY <2>1 DEF Quiet
    <2>3. ASSUME Known PROVE Known'
        <3>1. prog.queue # <<>> => Used(Current)' = Used(Current)
            BY <2>1, CurrentFacts DEF Used, Current
        <3>2. (AtDelete' <=> AtDelete) /\ (AtCreate' <=> AtCreate) /\ Current' = Current
            BY <2>1 DEF AtDelete, AtCreate, Current
        <3>3. AtDelete \/ AtCreate => prog.queue # <<>>
            BY DEF AtDelete, AtCreate, TypeInv, ProgOK
        <3> QED BY <2>1, <2>3, <3>1, <3>2, <3>3 DEF Known
    <2> QED BY <1>1, <2>1, <2>2, <2>3 DEF QuietInv
<1> QED BY <1>2, <1>3, <1>4

LEMMA NextKeepsQuiet == TypeInv /\ TaskInv /\ QuietInv /\ [Next]_vars => QuietInv'
<1> SUFFICES ASSUME TypeInv, TaskInv, QuietInv, [Next]_vars PROVE QuietInv'
    OBVIOUS
<1>1. ASSUME NEW op \in {"delete", "apply"}, NEW r \in Requests \cup {<<>>}, Start(op, r) PROVE QuietInv'
    <2>1. /\ prog'.at = "ready" /\ prog'.seen = Ready /\ prog'.alone = (reports \/ Ready) /\ prog'.stale = {}
          /\ UNCHANGED <<reports, server, tasks, history, foreign>>
        BY <1>1 DEF Start, Idle
    <2>2. Alone' => Ready
        BY <2>1 DEF Alone, Looked
    <2>3. Ready => Known'
        BY <2>1 DEF Ready, Known, AtDelete, AtCreate
    <2>4. RefusedMeansDisturbed'
        BY <2>1 DEF QuietInv, RefusedMeansDisturbed
    <2>5. prog' # Idle
        BY <2>1 DEF Idle
    <2> QED BY <2>1, <2>2, <2>3, <2>4, <2>5 DEF QuietInv, Ready
<1>2. CASE delete_all_raid_configuration \/ apply_raid_configuration
    BY <1>1, <1>2 DEF delete_all_raid_configuration, apply_raid_configuration
<1>3. CASE ProgramStep
    BY <1>3, ProgramKeepsQuiet
<1>4. CASE RequestFails
    <2>1. PICK b \in BOOLEAN : Ended("error", b)
        BY <1>4, WhenARequestFails
    <2>2. prog.at # "idle" /\ foreign' = foreign /\ Rightly("error") /\ "error" \in Results
        BY <1>4, FailedRequestTasks DEF Rightly, Results
    <2> QED BY <2>1, <2>2, QuietWhenItEnds
<1>5. CASE TaskCompletes \/ TaskFails \/ Settle \/ OtherCreates \/ OtherDeletes \/ OtherSets
    <2>1. ASSUME NEW c \in Ctrls, NEW d \in Drives, Creates(c, d) \/ Deletes(c, d) PROVE QuietInv'
        <3>1. Now' = Now /\ UNCHANGED <<prog, tasks, history, reports>>
            BY <2>1, CreatingFacts, DeletingFacts DEF Creates, Deletes
        <3>2. PICK f : f.time = Now /\ foreign' = foreign \cup {f}
            BY <2>1 DEF Creates, Deletes, Noted
        <3> QED BY <3>1, <3>2, DisturbedIsQuiet
    <2>2. ASSUME NEW c \in Ctrls, Sets(c) PROVE QuietInv'
        <3>1. /\ Now' = Now /\ UNCHANGED <<tasks, history, reports>>
              /\ prog'.at = prog.at /\ prog'.alone = prog.alone /\ prog'.seen = prog.seen
              /\ prog.at \in {"idle", "ready", "list"} => prog'.stale = prog.stale
            BY <2>2, SettingFacts DEF Sets, TypeInv, ProgOK
        <3>2. PICK f : f.time = Now /\ foreign' = foreign \cup {f}
            BY <2>2 DEF Sets, Noted
        <3> QED BY <3>1, <3>2, DisturbedIsQuiet
    <2> QED BY <1>5, <2>1, <2>2, OutsideSteps, ServerKeepsQuiet
<1>6. CASE UNCHANGED vars
    <2>1. RefusedMeansDisturbed' /\ (Alone' <=> Alone) /\ (Disturbed' <=> Disturbed) /\ (Known' <=> Known)
        BY <1>6 DEF vars, QuietInv, RefusedMeansDisturbed, Alone, Looked, Disturbed, Known, AtDelete, AtCreate,
                    Now, Used, Current
    <2> QED BY <1>6, <2>1 DEF vars, QuietInv, Now, LastEnded, LeftAlone, Quiet
<1> QED BY <1>2, <1>3, <1>4, <1>5, <1>6 DEF Next, ServerStep

LEMMA InitQuiet == Init => QuietInv
<1> SUFFICES ASSUME Init PROVE QuietInv
    OBVIOUS
<1>1. prog.at = "idle" /\ prog.stale = {} /\ history = <<>>
    BY DEF Init, Idle
<1> QED BY <1>1 DEF QuietInv, RefusedMeansDisturbed, Alone, Looked

THEOREM OperationsKnow == Spec => [](TypeInv /\ TaskInv /\ QuietInv)
BY TasksAreInOrder, InitQuiet, NextKeepsQuiet, PTL DEF Spec

\* The server has no reason to refuse what the program asks of it, unless
\* another program changes something between the moment the storage is ready
\* and the request.
THEOREM RefusalsAreOthersDoing == Spec => []RefusedMeansDisturbed
<1>1. QuietInv => RefusedMeansDisturbed
    BY DEF QuietInv
<1> QED BY <1>1, OperationsKnow, PTL

----------------------------------------------------------------------------
(* A deletion of everything deletes everything.                             *)

\* An operation that goes on.
LEMMA DeleteWhenItGoesOn ==
    ASSUME prog'.at # "idle",
           prog'.op = "delete" /\ prog'.alone /\ prog'.at \notin {"ready", "list"} => DeletedSoFar',
           prog'.op = "delete" /\ ~ Disturbed' => Older'
    PROVE  DeleteInv'
<1>1. prog' # Idle
    BY DEF Idle
<1> QED BY <1>1 DEF DeleteInv, DeletedMeansGone, JustEnded

\* A step of the program that goes on with a deletion.
LEMMA DeletionGoesOn ==
    ASSUME TypeInv, DeleteInv, prog.at # "idle", prog'.at # "idle", prog'.op = prog.op, Now' = Now,
           foreign' = foreign, \A c \in Ctrls : server'[c].volumes = server[c].volumes,
           prog.op = "delete" /\ prog'.alone /\ prog'.at \notin {"ready", "list"} => DeletedSoFar'
    PROVE  DeleteInv'
<1>1. (Disturbed' <=> Disturbed) /\ (Older' <=> Older)
    BY DEF Disturbed, Older
<1> QED BY <1>1, DeleteWhenItGoesOn DEF DeleteInv

\* An operation that ends, and says no more than it knows.
LEMMA DeleteWhenItEnds ==
    ASSUME TypeInv, prog.at # "idle", NEW r \in Results, NEW b, Ended(r, b), prog.op # "delete" \/ r # "ok"
    PROVE  DeleteInv'
<1>1. PICK k \in Nat : k = Len(history)
    BY TimeOfNow
<1>2. /\ prog' = Idle /\ Len(history') = k + 1
      /\ history'[k + 1] = [op |-> prog.op, result |-> r, alone |-> prog.alone]
    BY <1>1, WhenItEnds
<1>3. LastEnded'.op = prog.op /\ LastEnded'.result = r
    BY <1>2 DEF LastEnded
<1>4. prog'.op = "none"
    BY <1>2 DEF Idle
<1> QED BY <1>3, <1>4 DEF DeleteInv, DeletedMeansGone, JustEnded

\* The steps of a deletion on the way through the controllers.
LEMMA DeletingKeepsDelete ==
    ASSUME TypeInv, TaskInv, QuietInv, DeleteInv, prog.op = "delete",
           ListControllers \/ LoadVolumes \/ VolumesDeleted \/ RestoreDrive \/ TaskDone
    PROVE  DeleteInv'
<1> USE DEF TypeInv, ProgOK
<1>1. CASE ListControllers
    <2>1. /\ prog.at = "list" /\ prog'.at = "controller" /\ prog'.queue = Controllers /\ prog'.op = prog.op
          /\ UNCHANGED <<server, history, foreign>>
        BY <1>1 DEF ListControllers
    <2>2. Now' = Now
        BY <2>1, TimeStays
    <2>3. DeletedSoFar'
        BY <2>1 DEF DeletedSoFar, Ctrls
    <2> QED BY <2>1, <2>2, <2>3, DeletionGoesOn
<1>2. ASSUME prog.at # "idle", prog.at \notin {"ready", "list"}, prog'.at # "idle", prog'.op = prog.op,
             prog'.alone = prog.alone,
             UNCHANGED <<history, foreign>>, \A c \in Ctrls : server'[c].volumes = server[c].volumes,
             DeletedSoFar /\ Alone => DeletedSoFar'
      PROVE  DeleteInv'
    <2>1. Now' = Now
        BY <1>2, TimeStays
    <2>2. prog.alone => Alone
        BY <1>2 DEF Alone, Looked
    <2> QED BY <1>2, <2>1, <2>2, DeletionGoesOn DEF DeleteInv
<1>3. CASE LoadVolumes
    <2>1. /\ prog.at = "controller" /\ prog'.at = "delete" /\ prog'.queue = prog.queue
          /\ prog'.op = prog.op /\ prog'.alone = prog.alone /\ prog'.todo = Used(Current)
          /\ UNCHANGED <<server, tasks, history, foreign>>
        BY <1>3 DEF LoadVolumes
    <2>2. Now' = Now /\ Current' = Current
        BY <2>1, TimeStays DEF Current
    <2>3. \A c \in Ctrls : c = Current => \A v \in server[c].volumes : v.drive \in prog'.todo
        BY <2>1 DEF Used
    <2> QED BY <1>2, <2>1, <2>2, <2>3 DEF DeletedSoFar
<1>4. CASE VolumesDeleted
    <2>1. /\ prog.at = "delete" /\ prog.todo = {} /\ prog'.at = "restore" /\ prog'.queue = prog.queue
          /\ prog'.op = prog.op /\ prog'.alone = prog.alone /\ prog'.todo = server[Current].spares
          /\ UNCHANGED <<server, tasks, history, foreign>>
        BY <1>4 DEF VolumesDeleted
    <2>2. Now' = Now /\ Current' = Current
        BY <2>1, TimeStays DEF Current
    <2>3. Alone => tasks = {}
        BY <2>1, OwnTasks
    <2> QED BY <1>2, <2>1, <2>2, <2>3 DEF DeletedSoFar
<1>5. CASE TaskDone
    <2>1. /\ prog.at = "completed" /\ prog'.at = "delete" /\ prog'.queue = prog.queue
          /\ prog'.op = prog.op /\ prog'.alone = prog.alone /\ prog'.todo = prog.todo
          /\ UNCHANGED <<server, tasks, history, foreign>>
        BY <1>5 DEF TaskDone
    <2>2. Now' = Now /\ Current' = Current
        BY <2>1, TimeStays DEF Current
    <2> QED BY <1>2, <2>1, <2>2 DEF DeletedSoFar
<1>6. CASE RestoreDrive
    <2>1. prog.at = "restore" /\ UNCHANGED <<tasks, history, foreign>> /\ prog.queue # <<>>
        BY <1>6 DEF RestoreDrive
    <2>2. PICK q \in Ctrls : q = Current /\ Range(prog.queue) = {q} \cup Range(Tail(prog.queue))
        BY <2>1, CurrentFacts
    <2>3. CASE /\ prog.todo = {} /\ server' = server
               /\ prog' = [prog EXCEPT !.at = "controller", !.queue = Tail(@)]
        <3>1. /\ prog'.at = "controller" /\ prog'.queue = Tail(prog.queue)
              /\ prog'.op = prog.op /\ prog'.alone = prog.alone
            BY <2>3
        <3>2. Now' = Now
            BY <2>1, <3>1, TimeStays
        <3>3. \A c \in Ctrls : c \notin Range(Tail(prog.queue)) => c \notin Range(prog.queue) \/ c = q
            BY <2>2
        <3> QED BY <1>2, <2>1, <2>2, <2>3, <3>1, <3>2, <3>3 DEF DeletedSoFar
    <2>4. ASSUME NEW d \in prog.todo, server' = [server EXCEPT ![Current].spares = @ \ {d}],
                 prog' = [prog EXCEPT !.todo = @ \ {d}, !.touched = TRUE]
          PROVE  DeleteInv'
        <3>1. /\ prog'.at = "restore" /\ prog'.queue = prog.queue /\ prog'.todo = prog.todo \ {d}
              /\ prog'.op = prog.op /\ prog'.alone = prog.alone
            BY <2>1, <2>4
        <3>2. Now' = Now /\ Current' = q
            BY <2>1, <2>2, <3>1, TimeStays DEF Current
        <3>3. /\ server'[q].spares = server[q].spares \ {d} /\ server'[q].volumes = server[q].volumes
              /\ \A c \in Ctrls : c # q => server'[c] = server[c]
            BY <2>2, <2>4 DEF ServerOK
        <3>4. q \in Range(prog.queue)
            BY <2>2
        <3>5. ASSUME DeletedSoFar PROVE DeletedSoFar'
            <4>1. \A c \in Ctrls : c \notin Range(prog'.queue) =>
                    server'[c].spares = {} /\ \A v \in server'[c].volumes : v.since = Now
                BY <3>1, <3>3, <3>4, <3>5 DEF DeletedSoFar
            <4>2. server'[q].spares \subseteq prog'.todo /\ \A v \in server'[q].volumes : v.since = Now
                BY <2>1, <2>2, <3>1, <3>3, <3>5 DEF DeletedSoFar
            <4> QED BY <3>1, <3>2, <4>1, <4>2 DEF DeletedSoFar
        <3>6. \A c \in Ctrls : server'[c].volumes = server[c].volumes
            BY <3>3
        <3> QED BY <1>2, <2>1, <3>1, <3>5, <3>6
    <2> QED BY <1>6, <2>3, <2>4 DEF RestoreDrive
<1> QED BY <1>1, <1>3, <1>4, <1>5, <1>6

\* The program asks for a deletion, or for a creation.
LEMMA AskingKeepsDelete ==
    ASSUME TypeInv, TaskInv, QuietInv, DeleteInv, NEW d \in Drives, Asks(d)
    PROVE  DeleteInv'
<1>1. /\ prog.at \in {"delete", "create"} /\ d \in prog.todo
      /\ prog'.at = "wait" /\ prog'.alone = prog.alone /\ prog'.queue = prog.queue /\ prog'.op = prog.op
      /\ prog'.todo = prog.todo \ {d}
      /\ UNCHANGED <<reports, server, history, foreign>>
    BY DEF Asks, TypeInv, ProgOK
<1>2. Now' = Now /\ Current' = Current
    BY <1>1, TimeStays DEF Current
<1>3. PICK t : t.since = Now /\ t.drive = d /\ tasks' = tasks \cup {t}
    BY DEF Asks
<1>4. ASSUME prog.op = "delete", prog.alone PROVE DeletedSoFar'
    <2>1. DeletedSoFar /\ prog.at = "delete"
        BY <1>1, <1>4 DEF DeleteInv, TypeInv, ProgOK
    <2>2. ASSUME NEW c \in Ctrls, c = Current, NEW v \in server[c].volumes
          PROVE  \/ v.since = Now \/ v.drive \in prog'.todo
                 \/ \E u \in tasks' : u.since = Now /\ u.drive = v.drive
        <3>1. CASE v.drive = d
            BY <1>3, <3>1
        <3>2. CASE v.drive # d
            BY <1>1, <1>3, <2>1, <2>2, <3>2 DEF DeletedSoFar
        <3> QED BY <3>1, <3>2
    <2> QED BY <1>1, <1>2, <2>1, <2>2 DEF DeletedSoFar
<1>5. \A c \in Ctrls : server'[c].volumes = server[c].volumes
    BY <1>1
<1> QED BY <1>1, <1>2, <1>4, <1>5, DeletionGoesOn

\* The last controller is done.
LEMMA DeletionEnds ==
    ASSUME TypeInv, TaskInv, QuietInv, DeleteInv, AllDone, QuietInv', prog.op = "delete"
    PROVE  DeleteInv'
<1>1. /\ prog.at = "controller" /\ prog.queue = <<>> /\ End("ok")
      /\ UNCHANGED <<reports, server, tasks, foreign>> /\ "ok" \in Results
    BY DEF AllDone, Results
<1>2. PICK k \in Nat : k = Len(history)
    BY TimeOfNow
<1>3. /\ prog' = Idle /\ Len(history') = k + 1
      /\ history'[k + 1] = [op |-> prog.op, result |-> "ok", alone |-> prog.alone]
    BY <1>1, <1>2, WhenItEnds DEF End
<1>4. /\ LastEnded'.alone = prog.alone /\ LastEnded'.result = "ok" /\ history'[k + 1].alone = prog.alone
      /\ prog'.op = "none" /\ history' # <<>>
    <2>1. Len(history') # 0
        BY <1>2, <1>3
    <2>2. history' # <<>>
        BY <2>1, EmptySeq
    <2> QED BY <1>3, <2>2 DEF LastEnded, Idle
<1>5. Now = 2 * (k + 1) - 1 /\ Now \in Nat
    <2>1. Now = 2 * k + 1
        BY <1>1, <1>2, TimeOfNow
    <2>2. k \in Nat
        BY <1>2
    <2> QED BY <2>1, <2>2
<1>6. ASSUME prog.alone
      PROVE  /\ \A c \in Ctrls : server[c].spares = {} /\ \A v \in server[c].volumes : v.since = Now
             /\ tasks = {}
    <2>1. DeletedSoFar /\ Alone
        BY <1>1, <1>6 DEF DeleteInv, Alone, Looked
    <2>2. Range(prog.queue) = {}
        BY <1>1, EmptySeq DEF Range
    <2> QED BY <1>1, <2>1, <2>2, OwnTasks DEF DeletedSoFar
<1>7. ASSUME LeftAlone(Len(history))', prog.alone
      PROVE  Quiet' /\ \A c \in Ctrls : server[c].volumes = {}
    <2>1. Quiet'
        BY <1>3, <1>4, <1>7 DEF QuietInv
    <2>2. \A f \in foreign : f.time < Now
        BY <1>1, <1>3, <1>5, <1>7 DEF LeftAlone
    <2>3. Older
        BY <1>5, <2>2 DEF Disturbed, DeleteInv
    <2>4. \A c \in Ctrls : \A v \in server[c].volumes : v.since = Now /\ v.since < Now
        BY <1>6, <1>7, <2>3 DEF Older
    <2> QED BY <1>5, <2>1, <2>4
<1>8. DeletedMeansGone'
    <2> SUFFICES ASSUME prog.alone PROVE
            /\ \A c \in Ctrls : /\ server[c].spares = {}
                                /\ \A v \in server[c].volumes : v.since >= 2 * Len(history') - 1
            /\ tasks' = {}
            /\ LeftAlone(Len(history))' => Quiet' /\ \A c \in Ctrls : server[c].volumes = {}
        BY <1>1, <1>4 DEF DeletedMeansGone
    <2>1. \A c \in Ctrls : \A v \in server[c].volumes : v.since >= 2 * Len(history') - 1
        <3>1. \A c \in Ctrls : \A v \in server[c].volumes : v.since >= Now
            BY <1>5, <1>6
        <3> QED BY <1>3, <1>5, <3>1
    <2> QED BY <1>1, <1>6, <1>7, <2>1
<1> QED BY <1>4, <1>8 DEF DeleteInv

\* The steps of the program.
LEMMA ProgramKeepsDelete ==
    ASSUME TypeInv, TaskInv, QuietInv, DeleteInv, ProgramStep, QuietInv'
    PROVE  DeleteInv'
<1>1. CASE ListControllers \/ LoadVolumes \/ VolumesDeleted \/ RestoreDrive \/ TaskDone
    <2>1. CASE prog.op = "delete"
        BY <1>1, <2>1, DeletingKeepsDelete
    <2>2. CASE prog.op # "delete" /\ \E r \in Results : End(r)
        BY <1>1, <2>2, DeleteWhenItEnds, StepsOfProgram DEF End
    <2>3. CASE prog.op # "delete" /\ \E d \in Drives : Asks(d)
        BY <2>3, AskingKeepsDelete
    <2>4. CASE prog.op # "delete" /\ prog'.op = prog.op /\ prog'.at # "idle"
        BY <2>4, DeleteWhenItGoesOn
    <2> QED BY <2>1, <2>2, <2>3, <2>4, StepsOfProgram
<1>2. CASE AllDone
    <2>1. CASE prog.op = "delete"
        BY <1>2, <2>1, DeletionEnds
    <2>2. CASE prog.op # "delete"
        BY <1>2, <2>2, DeleteWhenItEnds DEF AllDone, End, Results
    <2> QED BY <2>1, <2>2
<1>3. CASE DeleteNotSupported \/ TaskFailed
    BY <1>3, DeleteWhenItEnds DEF DeleteNotSupported, TaskFailed, End, Results
<1>4. CASE waiting_storage_ready
    <2>1. /\ prog.at = "ready" /\ prog'.at \in {"ready", "list"} /\ prog'.op = prog.op
          /\ UNCHANGED <<server, history, foreign>>
        BY <1>4 DEF waiting_storage_ready, TypeInv, ProgOK
    <2>2. Now' = Now
        BY <2>1, TimeStays
    <2> QED BY <2>1, <2>2, DeletionGoesOn
<1>5. CASE DeleteVolume
    <2>1. CASE \E d \in Drives : Asks(d)
        BY <2>1, AskingKeepsDelete
    <2>2. CASE End("refused")
        BY <1>5, <2>2, DeleteWhenItEnds DEF DeleteVolume, End, Results
    <2>3. prog.op = "delete" /\ prog.todo \subseteq Drives
        BY <1>5 DEF DeleteVolume, TypeInv, ProgOK
    <2> QED BY <1>5, <2>1, <2>2, <2>3 DEF DeleteVolume, Asks
<1>6. CASE SetJbod \/ Plan \/ CreateVolume \/ VolumesCreated
    <2>1. prog.op # "delete" /\ prog.at # "idle"
        BY <1>6 DEF SetJbod, SettingJbod, Plan, CreateVolume, VolumesCreated, TypeInv, ProgOK
    <2>2. CASE \E r \in Results : End(r)
        BY <2>1, <2>2, DeleteWhenItEnds DEF End
    <2>3. CASE \E d \in Drives : Asks(d)
        BY <2>3, AskingKeepsDelete
    <2>4. CASE prog'.op = prog.op /\ prog'.at # "idle"
        BY <2>1, <2>4, DeleteWhenItGoesOn
    <2> QED BY <2>2, <2>3, <2>4, StepsOfProgram
<1> QED BY <1>1, <1>2, <1>3, <1>4, <1>5, <1>6 DEF ProgramStep

\* What other programs do, and what settles, does not undo a deletion.
LEMMA DeletedStays ==
    ASSUME DeletedSoFar, Now' = Now, tasks' = tasks,
           prog'.at = prog.at, prog'.queue = prog.queue, prog'.todo = prog.todo,
           \A c \in Ctrls : /\ server'[c].spares = server[c].spares
                            /\ \A v \in server'[c].volumes : v \in server[c].volumes \/ v.since = Now
    PROVE  DeletedSoFar'
<1>1. Current' = Current
    BY DEF Current
<1> QED BY <1>1 DEF DeletedSoFar

\* A task of a deletion that completes.
LEMMA CompletingKeepsDelete ==
    ASSUME TypeInv, TaskInv, QuietInv, DeleteInv, NEW t \in tasks, Completes(t), prog.op = "delete"
    PROVE  DeleteInv'
<1>1. /\ TypeInv' /\ Now' = Now
      /\ server'[t.ctrl].volumes = Completed(t) /\ server'[t.ctrl].spares = server[t.ctrl].spares
      /\ \A b \in Ctrls : b # t.ctrl => server'[b] = server[b]
    BY CompletingFacts
<1>2. /\ prog'.op = prog.op /\ prog'.alone = prog.alone /\ prog'.queue = prog.queue
      /\ prog'.todo = prog.todo /\ prog.at # "idle" /\ foreign' = foreign /\ prog'.at # "idle"
      /\ tasks' = tasks \ {t}
      /\ prog.at = "wait" /\ t.since = Now => prog'.at = "completed"
      /\ prog'.at \in {"ready", "list"} <=> prog.at \in {"ready", "list"}
    BY DEF Completes, TypeInv, ProgOK, Idle
<1>3. ASSUME prog.alone, prog'.at \notin {"ready", "list"} PROVE DeletedSoFar'
    <2>1. Alone /\ DeletedSoFar
        BY <1>2, <1>3 DEF Alone, Looked, DeleteInv
    <2>2. prog.at = "wait" /\ t.since = Now /\ t.ctrl = Current /\ t.op = "delete" /\ prog.queue # <<>>
        BY <2>1, OwnTasks
    <2>3. \A u \in tasks : u = t
        BY <2>1, <2>2, OwnTasks DEF TaskInv
    <2>4. PICK q \in Ctrls : q = Current /\ q = t.ctrl
        BY <2>2, CurrentFacts
    <2>5. \A v \in server'[q].volumes : v \in server[q].volumes /\ v.drive # t.drive
        BY <1>1, <2>2, <2>4 DEF Completed
    <2>6. prog'.at = "completed" /\ Current' = q
        BY <1>2, <2>2, <2>4 DEF Current
    <2>7. \A v \in server'[q].volumes : v.since = Now \/ v.drive \in prog'.todo
        BY <1>2, <2>1, <2>2, <2>3, <2>4, <2>5 DEF DeletedSoFar
    <2>8. \A c \in Ctrls : c \notin Range(prog'.queue) =>
            server'[c].spares = {} /\ \A v \in server'[c].volumes : v.since = Now
        BY <1>1, <1>2, <2>1, <2>4, <2>5 DEF DeletedSoFar
    <2> QED BY <1>1, <2>6, <2>7, <2>8 DEF DeletedSoFar
<1>4. ASSUME ~ Disturbed PROVE Older'
    <2>1. Older
        BY <1>4 DEF DeleteInv
    <2>2. PICK n : n = [drive |-> t.drive, since |-> t.since, mine |-> TRUE]
        OBVIOUS
    <2>3. t.since \in Nat /\ t.since <= Now /\ Now \in Nat /\ t.ctrl \in Ctrls
        BY TimeOfNow DEF TypeInv, ServerOK, PastOK
    <2>4. t.op = "apply" => t.since # Now
        BY DEF TaskInv
    <2>5. t.op = "apply" => n.since < Now
        BY <2>2, <2>3, <2>4
    <2>6. \A v \in server'[t.ctrl].volumes : v \in server[t.ctrl].volumes \/ (t.op = "apply" /\ v = n)
        BY <1>1, <2>2 DEF Completed
    <2>7. \A c \in Ctrls : \A v \in server'[c].volumes : v \in server[c].volumes \/ (t.op = "apply" /\ v = n)
        BY <1>1, <2>6
    <2> QED BY <1>1, <2>1, <2>5, <2>7 DEF Older
<1>5. Disturbed' <=> Disturbed
    BY <1>1, <1>2 DEF Disturbed
<1> QED BY <1>2, <1>3, <1>4, <1>5, DeleteWhenItGoesOn

\* The steps outside the program.
LEMMA OutsideKeepsDelete ==
    ASSUME TypeInv, TaskInv, QuietInv, DeleteInv, QuietInv',
           TaskCompletes \/ TaskFails \/ Settle \/ OtherCreates \/ OtherDeletes \/ OtherSets
    PROVE  DeleteInv'
<1> DEFINE Done == JustEnded("delete", "ok") /\ LastEnded.alone
           V(c) == \A v \in server'[c].volumes : v \in server[c].volumes \/ v.since = Now
\* Between operations.
<1>1. ASSUME prog.at = "idle", prog' = Idle, history' = history, tasks' \subseteq tasks,
             \A c \in Ctrls : server'[c].spares = server[c].spares /\ V(c),
             foreign \subseteq foreign',
             \/ \A c \in Ctrls : server'[c].volumes = server[c].volumes
             \/ \E f \in foreign' : f.time = Now
      PROVE  DeleteInv'
    <2>1. PICK k \in Nat : k = Len(history) /\ Len(history') = k
        BY <1>1, TimeOfNow
    <2>2. Now >= 2 * k - 1 /\ ~ (Now < 2 * k - 1)
        <3>1. Now = 2 * k
            BY <1>1, <2>1, TimeOfNow
        <3>2. k \in Nat
            BY <2>1
        <3> QED BY <3>1, <3>2
    <2>3. JustEnded("delete", "ok")' => JustEnded("delete", "ok") /\ LastEnded' = LastEnded
        BY <1>1, TimeOfNow DEF JustEnded, LastEnded
    <2>4. ASSUME Done
          PROVE  /\ \A c \in Ctrls : /\ server'[c].spares = {}
                                     /\ \A v \in server'[c].volumes : v.since >= 2 * k - 1
                 /\ tasks' = {}
        <3>1. /\ \A c \in Ctrls : server[c].spares = {} /\ \A v \in server[c].volumes : v.since >= 2 * k - 1
              /\ tasks = {}
            BY <2>1, <2>4 DEF DeleteInv, DeletedMeansGone
        <3> QED BY <1>1, <2>2, <3>1
    <2>5. ASSUME Done, LeftAlone(Len(history))' PROVE Quiet' /\ \A c \in Ctrls : server'[c].volumes = {}
        <3>1. \A f \in foreign' : f.time < 2 * k - 1
            BY <2>1, <2>5 DEF LeftAlone
        <3>2. \A c \in Ctrls : server'[c].volumes = server[c].volumes
            BY <1>1, <2>2, <3>1
        <3>3. LeftAlone(Len(history))
            <4>1. history[k].alone /\ \A f \in foreign : f.time < 2 * k - 1
                BY <1>1, <2>1, <2>5, <3>1 DEF LeftAlone
            <4> QED BY <2>1, <4>1 DEF LeftAlone
        <3>4. \A c \in Ctrls : server[c].volumes = {}
            BY <2>5, <3>3 DEF DeleteInv, DeletedMeansGone
        <3>5. tasks' = {} /\ prog' = Idle /\ history' # <<>> /\ LastEnded'.result = "ok"
            BY <1>1, <2>4, <2>5, TimeOfNow DEF JustEnded, LastEnded
        <3> QED BY <2>5, <3>2, <3>4, <3>5 DEF QuietInv
    <2>6. DeletedMeansGone'
        BY <2>1, <2>3, <2>4, <2>5 DEF DeletedMeansGone
    <2> QED BY <1>1, <2>6 DEF DeleteInv, Idle
<1>2. ASSUME prog.at # "idle", prog.op # "delete" PROVE DeleteInv'
    <2>1. prog'.op = prog.op /\ prog'.at # "idle"
        BY <1>2, OutsideOfRequests
    <2> QED BY <1>2, <2>1, DeleteWhenItGoesOn
\* A deletion under way, disturbed or left as it is.
<1>3. ASSUME prog.at # "idle", prog.op = "delete", prog'.at = prog.at, prog'.queue = prog.queue,
             prog'.todo = prog.todo, prog'.op = prog.op, prog'.alone = prog.alone, Now' = Now, tasks' = tasks,
             \A c \in Ctrls : server'[c].spares = server[c].spares /\ V(c),
             foreign \subseteq foreign',
             \/ \A c \in Ctrls : server'[c].volumes = server[c].volumes
             \/ \E f \in foreign' : f.time = Now
      PROVE  DeleteInv'
    <2>1. DeletedSoFar => DeletedSoFar'
        BY <1>3, DeletedStays
    <2>2. ~ Disturbed' => ~ Disturbed /\ (Older => Older')
        BY <1>3 DEF Disturbed, Older
    <2> QED BY <1>3, <2>1, <2>2, DeleteWhenItGoesOn DEF DeleteInv
<1>4. prog.at = "idle" => prog = Idle /\ prog.op = "none"
    BY DEF TypeInv, ProgOK, Idle
<1>5. ASSUME NEW t \in tasks, Completes(t) PROVE DeleteInv'
    <2>1. CASE prog.op = "delete"
        BY <1>5, <2>1, CompletingKeepsDelete
    <2>2. CASE prog.at = "idle"
        <3>1. prog' = prog /\ history' = history
            BY <1>5, <2>2 DEF Completes
        <3>2. ~ Done
            BY DEF DeleteInv, DeletedMeansGone
        <3>3. DeletedMeansGone'
            BY <3>1, <3>2 DEF DeletedMeansGone, JustEnded, LastEnded
        <3> QED BY <1>4, <2>2, <3>1, <3>3 DEF DeleteInv
    <2> QED BY <1>2, <2>1, <2>2
<1>6. ASSUME NEW t \in tasks, Fails(t) PROVE DeleteInv'
    <2>1. CASE prog.at = "idle"
        <3>1. prog' = prog /\ history' = history
            BY <1>6, <2>1 DEF Fails
        <3>2. ~ Done
            BY DEF DeleteInv, DeletedMeansGone
        <3>3. DeletedMeansGone'
            BY <3>1, <3>2 DEF DeletedMeansGone, JustEnded, LastEnded
        <3> QED BY <1>4, <2>1, <3>1, <3>3 DEF DeleteInv
    <2>2. CASE prog.at # "idle" /\ prog.op = "delete"
        <3>1. /\ prog'.op = prog.op /\ prog'.alone = prog.alone /\ prog'.queue = prog.queue
              /\ prog'.at # "idle" /\ UNCHANGED <<server, history, foreign>>
              /\ prog.at = "wait" /\ t.since = Now => prog'.at = "failed"
              /\ prog'.at \in {"ready", "list"} <=> prog.at \in {"ready", "list"}
            BY <1>6, <2>2 DEF Fails, TypeInv, ProgOK
        <3>2. Now' = Now
            BY <1>6, FailingTaskFacts
        <3>3. ASSUME prog.alone, prog'.at \notin {"ready", "list"} PROVE DeletedSoFar'
            <4>1. Alone /\ DeletedSoFar
                BY <2>2, <3>1, <3>3 DEF Alone, Looked, DeleteInv
            <4>2. prog'.at = "failed"
                BY <3>1, <4>1, OwnTasks
            <4> QED BY <3>1, <3>2, <4>1, <4>2 DEF DeletedSoFar
        <3>4. \A c \in Ctrls : server'[c].volumes = server[c].volumes
            BY <3>1
        <3> QED BY <2>2, <3>1, <3>2, <3>3, <3>4, DeletionGoesOn
    <2> QED BY <1>2, <2>1, <2>2
<1>7. ASSUME NEW c \in Ctrls, NEW d \in Drives, Settles(c, d) \/ Creates(c, d) \/ Deletes(c, d)
      PROVE  DeleteInv'
    <2>1. UNCHANGED <<prog, tasks, history>> /\ Now' = Now /\ foreign \subseteq foreign'
        BY <1>7, SettlingFacts, CreatingFacts, DeletingFacts DEF Settles, Creates, Deletes, Noted
    <2>2. \A b \in Ctrls : server'[b].spares = server[b].spares
        BY <1>7, SettlingFacts, CreatingFacts, DeletingFacts
    <2>3. \A b \in Ctrls : V(b)
        <3>1. PICK n : n = [drive |-> d, since |-> Now, mine |-> FALSE]
            OBVIOUS
        <3>2. \A v \in server'[c].volumes : v \in server[c].volumes \/ v = n
            BY <1>7, <3>1, SettlingFacts, CreatingFacts, DeletingFacts DEF CreatedBy, Left
        <3>3. n.since = Now
            BY <3>1
        <3> QED BY <1>7, <3>2, <3>3, SettlingFacts, CreatingFacts, DeletingFacts
    <2>4. \/ \A b \in Ctrls : server'[b].volumes = server[b].volumes
          \/ \E f \in foreign' : f.time = Now
        <3>1. CASE Settles(c, d)
            BY <3>1, SettlingFacts
        <3>2. CASE ~ Settles(c, d)
            <4>1. PICK f : f.time = Now /\ foreign' = foreign \cup {f}
                BY <1>7, <3>2 DEF Creates, Deletes, Noted
            <4> QED BY <4>1
        <3> QED BY <3>1, <3>2
    <2> HIDE DEF V
    <2> QED BY <1>1, <1>2, <1>3, <1>4, <2>1, <2>2, <2>3, <2>4
<1>8. ASSUME NEW c \in Ctrls, Sets(c) PROVE DeleteInv'
    <2>1. /\ UNCHANGED <<server, tasks, history>> /\ Now' = Now
          /\ prog'.at = prog.at /\ prog'.queue = prog.queue /\ prog'.todo = prog.todo
          /\ prog'.op = prog.op /\ prog'.alone = prog.alone
        BY <1>8, SettingFacts DEF Sets, TypeInv, ProgOK
    <2>2. prog.at = "idle" => prog' = Idle
        <3>1. TypeInv'
            BY <1>8, SettingFacts
        <3> QED BY <2>1, <3>1 DEF TypeInv, ProgOK
    <2>3. PICK f : f.time = Now /\ foreign' = foreign \cup {f}
        BY <1>8 DEF Sets, Noted
    <2> QED BY <1>1, <1>2, <1>3, <1>4, <2>1, <2>2, <2>3
<1> QED BY <1>5, <1>6, <1>7, <1>8, OutsideSteps

LEMMA NextKeepsDelete == TypeInv /\ TaskInv /\ QuietInv /\ DeleteInv /\ [Next]_vars => DeleteInv'
<1> SUFFICES ASSUME TypeInv, TaskInv, QuietInv, DeleteInv, [Next]_vars PROVE DeleteInv'
    OBVIOUS
<1>0. TypeInv' /\ QuietInv'
    BY NextKeepsType, NextKeepsQuiet
<1>1. ASSUME NEW op \in {"delete", "apply"}, NEW r \in Requests \cup {<<>>}, Start(op, r) PROVE DeleteInv'
    <2>1. Now' = Now + 1 /\ prog'.at = "ready" /\ server' = server /\ Now \in Nat
        BY <1>1, StartKeepsType, TimeOfNow DEF Start
    <2>2. \A c \in Ctrls : \A v \in server[c].volumes : v.since \in Nat /\ v.since <= Now
        BY DEF TypeInv, ServerOK, PastOK, Volume
    <2>3. \A n \in Nat : n <= Now => n < Now + 1
        BY <2>1
    <2>4. Older'
        BY <2>1, <2>2, <2>3 DEF Older
    <2> QED BY <2>1, <2>4, DeleteWhenItGoesOn
<1>2. CASE delete_all_raid_configuration \/ apply_raid_configuration
    BY <1>1, <1>2 DEF delete_all_raid_configuration, apply_raid_configuration
<1>3. CASE ProgramStep
    BY <1>0, <1>3, ProgramKeepsDelete
<1>4. CASE RequestFails
    <2>1. PICK b \in BOOLEAN : Ended("error", b)
        BY <1>4, WhenARequestFails
    <2> QED BY <1>4, <2>1, FailedRequestTasks, DeleteWhenItEnds DEF Results
<1>5. CASE TaskCompletes \/ TaskFails \/ Settle \/ OtherCreates \/ OtherDeletes \/ OtherSets
    BY <1>0, <1>5, OutsideKeepsDelete
<1>6. CASE UNCHANGED vars
    BY <1>6 DEF vars, DeleteInv, DeletedSoFar, Disturbed, Older, DeletedMeansGone, JustEnded, LastEnded,
                LeftAlone, Quiet, Current, Now
<1> QED BY <1>2, <1>3, <1>4, <1>5, <1>6 DEF Next, ServerStep

\* After a deletion of everything that reports no error there is no hot spare
\* and no volume that was there when it began, and none of an earlier operation
\* that gave up appears later; left alone, there is none at all, and the next
\* operation can begin at once.
THEOREM DeletionsDelete == Spec => []DeletedMeansGone
<1>1. Init => DeleteInv
    <2>1. Init => prog.op = "none" /\ history = <<>>
        BY DEF Init, Idle
    <2> QED BY <2>1 DEF DeleteInv, DeletedMeansGone, JustEnded
<1>2. DeleteInv => DeletedMeansGone
    BY DEF DeleteInv
<1> QED BY <1>1, <1>2, InitType, InitTasks, InitQuiet, NextKeepsType, NextKeepsTasks, NextKeepsQuiet,
           NextKeepsDelete, PTL DEF Spec

----------------------------------------------------------------------------
(* An application makes all that it was asked for.                          *)

\* A step leaves the volumes that were made at a time on a controller, or
\* another program takes them.
Keeps(c, time) ==
    /\ foreign \subseteq foreign'
    /\ \A v \in server'[c].volumes : v.mine /\ v.since = time => v \in server[c].volumes
    /\ \A v \in server[c].volumes : v.mine /\ v.since = time =>
            v \in server'[c].volumes \/ TakenFrom(c, v.drive, time)'

LEMMA AsAskedStays ==
    ASSUME NEW c, NEW S, NEW time, Keeps(c, time), AsAsked(c, S, time)
    PROVE  AsAsked(c, S, time)'
<1>1. \A v \in Made(c, time)' : v.drive \in S
    BY DEF Keeps, AsAsked, Made
<1>2. ASSUME NEW d \in S PROVE (\E v \in Made(c, time)' : v.drive = d) \/ TakenFrom(c, d, time)'
    <2>1. CASE \E v \in Made(c, time) : v.drive = d
        BY <2>1 DEF Keeps, Made
    <2>2. CASE TakenFrom(c, d, time)
        BY <2>2 DEF Keeps, TakenFrom
    <2> QED BY <1>2, <2>1, <2>2 DEF AsAsked
<1> QED BY <1>1, <1>2 DEF AsAsked

LEMMA FinishedStays ==
    ASSUME NEW r, NEW c, NEW time, Keeps(c, time) \/ Jbods(r, c) # {}, Finished(r, c, time),
           \A t \in tasks' : t.ctrl = c => t \in tasks, server[c].jbod => server'[c].jbod
    PROVE  Finished(r, c, time)'
<1>1. (Jbods(r, c)' = {} <=> Jbods(r, c) = {}) /\ Group(r, c)' = Group(r, c)
    BY DEF Jbods, Group, controller
<1>2. CASE Jbods(r, c) # {}
    BY <1>1, <1>2 DEF Finished
<1>3. CASE Jbods(r, c) = {}
    <2>1. PICK S \in SUBSET Drives : Cardinality(S) = Cardinality(Group(r, c)) /\ AsAsked(c, S, time)
        BY <1>3 DEF Finished
    <2>2. AsAsked(c, S, time)'
        BY <1>3, <2>1, AsAskedStays
    <2>3. \A t \in tasks' : t.ctrl # c
        BY <1>3 DEF Finished
    <2> QED BY <1>1, <1>3, <2>1, <2>2, <2>3 DEF Finished
<1> QED BY <1>2, <1>3

\* The steps of the program and of the server that leave the volumes alone.
LEMMA KeptAsTheyAre ==
    ASSUME NEW c, server'[c].volumes = server[c].volumes, foreign \subseteq foreign'
    PROVE  \A time : Keeps(c, time)
BY DEF Keeps

\* Other programs make none of the program's volumes, and it is known which
\* they delete.
LEMMA KeptByOthers ==
    ASSUME TypeInv, NEW c \in Ctrls, NEW d \in Drives, Creates(c, d) \/ Deletes(c, d)
    PROVE  \A b \in Ctrls, time \in Nat : time <= Now => Keeps(b, time)
<1>1. foreign \subseteq foreign'
    BY DEF Creates, Deletes, Noted
<1>2. \A b \in Ctrls : b # c => server'[b].volumes = server[b].volumes
    BY CreatingFacts, DeletingFacts
<1>3. SUFFICES ASSUME NEW time \in Nat, time <= Now PROVE Keeps(c, time)
    BY <1>1, <1>2, KeptAsTheyAre
<1>4. CASE Creates(c, d)
    <2>1. PICK n : n = [drive |-> d, since |-> Now, mine |-> FALSE]
        OBVIOUS
    <2>2. server'[c].volumes = server[c].volumes \cup {n} /\ n.mine = FALSE
        BY <1>4, <2>1, CreatingFacts DEF CreatedBy
    <2> QED BY <1>1, <2>2 DEF Keeps
<1>5. CASE Deletes(c, d)
    <2>1. server'[c].volumes = {v \in server[c].volumes : v.drive # d}
        BY <1>5, DeletingFacts DEF Left
    <2>2. PICK n : n = Now
        OBVIOUS
    <2>3. PICK f : f = [time |-> n, did |-> <<"delete", c, d>>]
        OBVIOUS
    <2>4. foreign' = foreign \cup {f} /\ f.time = n /\ f.did = <<"delete", c, d>>
        BY <1>5, <2>2, <2>3 DEF Deletes, Noted
    <2>5. n >= time
        BY <1>3, <2>2, TimeOfNow
    <2>6. TakenFrom(c, d, time)'
        BY <2>4, <2>5 DEF TakenFrom
    <2> QED BY <1>1, <2>1, <2>6 DEF Keeps
<1> QED BY <1>4, <1>5

\* A task of another time neither makes nor deletes a volume of this time.
LEMMA KeptByTasks ==
    ASSUME TypeInv, NEW t \in tasks, Completes(t), NEW c \in Ctrls, NEW time,
           t.ctrl = c => t.since # time /\ (t.op = "apply" \/ Made(c, time) = {})
    PROVE  Keeps(c, time)
<1>1. foreign' = foreign
    BY DEF Completes
<1>2. CASE t.ctrl # c
    <2>1. server'[c].volumes = server[c].volumes
        BY <1>2, CompletingFacts
    <2> QED BY <1>1, <2>1, KeptAsTheyAre
<1>3. CASE t.ctrl = c
    <2>1. PICK n : n = [drive |-> t.drive, since |-> t.since, mine |-> TRUE]
        OBVIOUS
    <2>2. server'[c].volumes = Completed(t)
        BY <1>3, CompletingFacts
    <2>3. \A v \in server'[c].volumes : v \in server[c].volumes \/ v = n
        BY <1>3, <2>1, <2>2 DEF Completed
    <2>4. n.since # time
        BY <1>3, <2>1
    <2>5. t.op = "apply" => server[c].volumes \subseteq server'[c].volumes
        BY <1>3, <2>2 DEF Completed
    <2> QED BY <1>1, <1>3, <2>3, <2>4, <2>5 DEF Keeps, Made
<1> QED BY <1>2, <1>3

\* The time of an application, until it is listed: nothing is of this time.
LEMMA FreshStays ==
    ASSUME TypeInv, Fresh, Now' = Now,
           \A c \in Ctrls : \A v \in server'[c].volumes :
                v \in server[c].volumes \/ (v.mine => v.since < Now)
    PROVE  Fresh'
BY DEF Fresh

\* An application that goes on.
LEMMA ApplyWhenItGoesOn ==
    ASSUME IsFiniteSet(foreign'), prog'.at # "idle",
           prog'.op # "apply" \/ prog'.at \in {"ready", "list"} => Fresh',
           prog'.op = "apply" /\ prog'.at \notin {"ready", "list"} => Making',
           AtCreate' => \A c \in Ctrls : c = Current' => AtWork(c)'
    PROVE  ApplyInv'
<1>1. prog' # Idle
    BY DEF Idle
<1> QED BY <1>1 DEF ApplyInv, JustEnded

\* The next operation is of a later time.
LEMMA LaterIsFresh ==
    ASSUME TypeInv, Now' = Now + 1, \A c \in Ctrls : server'[c].volumes = server[c].volumes
    PROVE  Fresh'
<1>1. \A n \in Nat : n <= Now => n < Now + 1
    BY TimeOfNow
<1>2. \A c \in Ctrls : \A v \in server[c].volumes : v.since \in Nat /\ v.since <= Now
    BY DEF TypeInv, ServerOK, PastOK, Volume
<1> QED BY <1>1, <1>2 DEF Fresh

\* An operation that ends, and is not done.
LEMMA ApplyWhenItEnds ==
    ASSUME TypeInv, ApplyInv, prog.at # "idle", NEW r \in Results, NEW b, Ended(r, b),
           foreign' = foreign, \A c \in Ctrls : server'[c].volumes = server[c].volumes,
           prog.op # "apply" \/ r # "ok"
    PROVE  ApplyInv'
<1>1. PICK k \in Nat : k = Len(history)
    BY TimeOfNow
<1>2. /\ prog' = Idle /\ Len(history') = k + 1 /\ Now' = Now + 1
      /\ history'[k + 1] = [op |-> prog.op, result |-> r, alone |-> prog.alone]
    BY <1>1, WhenItEnds
<1>3. LastEnded'.op = prog.op /\ LastEnded'.result = r
    BY <1>2 DEF LastEnded
<1>4. prog'.op = "none" /\ prog'.at = "idle"
    BY <1>2 DEF Idle
<1>5. Fresh'
    BY <1>2, LaterIsFresh
<1>6. ~ AtCreate' /\ ~ JustEnded("apply", "ok")'
    BY <1>3, <1>4 DEF AtCreate, JustEnded
<1> QED BY <1>4, <1>5, <1>6 DEF ApplyInv

\* An application that is done.
LEMMA ApplicationEnds ==
    ASSUME TypeInv, ApplyInv, AllDone, prog.op = "apply"
    PROVE  ApplyInv'
<1>1. /\ prog.at = "controller" /\ prog.queue = <<>> /\ End("ok")
      /\ UNCHANGED <<reports, server, tasks, foreign>> /\ "ok" \in Results
    BY DEF AllDone, Results
<1>2. PICK k \in Nat : k = Len(history)
    BY TimeOfNow
<1>3. /\ prog' = Idle /\ Len(history') = k + 1 /\ Now' = Now + 1 /\ last'.request = prog.request
    <2>1. prog' = Idle /\ Len(history') = k + 1 /\ Now' = Now + 1
        BY <1>1, <1>2, WhenItEnds DEF End
    <2>2. last'.request = prog.request
        BY <1>1 DEF End, Ended
    <2> QED BY <2>1, <2>2
<1>4. PICK n : n = Now
    OBVIOUS
<1>5. PICK r : r = prog.request
    OBVIOUS
<1>6. 2 * (k + 1) - 1 = n
    <2>1. n = 2 * k + 1
        BY <1>1, <1>2, <1>4, TimeOfNow
    <2>2. k \in Nat
        BY <1>2
    <2> QED BY <2>1, <2>2
<1>7. ASSUME NEW c \in Grouped(r) PROVE Finished(r, c, n)'
    <2>1. c \notin Range(prog.queue)
        BY <1>1, EmptySeq DEF Range
    <2>2. Finished(r, c, n)
        BY <1>1, <1>4, <1>5, <1>7, <2>1 DEF ApplyInv, Making
    <2>3. Keeps(c, n)
        BY <1>1, KeptAsTheyAre
    <2> QED BY <1>1, <2>2, <2>3, FinishedStays
<1>8. \A c \in Grouped(last.request)' : Finished(last.request, c, 2 * Len(history) - 1)'
    <2>1. last'.request = r /\ 2 * Len(history') - 1 = n
        BY <1>3, <1>5, <1>6
    <2>2. Grouped(r)' = Grouped(r)
        BY DEF Grouped, Group, controller
    <2> QED BY <1>7, <2>1, <2>2
<1>9. prog'.op = "none" /\ prog'.at = "idle"
    BY <1>3 DEF Idle
<1>10. Fresh' /\ ~ AtCreate'
    BY <1>1, <1>3, <1>9, LaterIsFresh DEF AtCreate
<1> QED BY <1>1, <1>8, <1>9, <1>10 DEF ApplyInv

\* A step that is at work on the controller whose turn it is leaves the others.
LEMMA MakingStays ==
    ASSUME TypeInv, Making, Now' = Now, prog'.queue = prog.queue, prog'.request = prog.request,
           \A c \in Grouped(prog.request) :
                \/ Keeps(c, Now) \/ (AtCreate' /\ c = Current)
                \/ (c \notin Range(prog.queue) /\ Jbods(prog.request, c) # {}),
           \A c \in Ctrls : server[c].jbod => server'[c].jbod,
           \A t \in tasks' : t \in tasks \/ (prog.queue # <<>> /\ t.ctrl = Current),
           AtCreate => AtCreate', AtCreate' => prog.queue # <<>>
    PROVE  Making'
<1>1. PICK n : n = Now
    OBVIOUS
<1>2. PICK r : r = prog.request
    OBVIOUS
<1>3. Current' = Current /\ Grouped(r)' = Grouped(r) /\ (prog.queue # <<>> => Current \in Range(prog.queue))
    BY CurrentFacts DEF Current, Grouped, Group, controller
<1>4. ASSUME NEW c \in Grouped(r), c \notin Range(prog.queue) PROVE Finished(r, c, n)'
    <2>1. Finished(r, c, n) /\ c \in Ctrls
        BY <1>1, <1>2, <1>4 DEF Making, Grouped
    <2>2. (Keeps(c, n) \/ Jbods(r, c) # {}) /\ \A t \in tasks' : t.ctrl = c => t \in tasks
        BY <1>1, <1>2, <1>3, <1>4, <2>1
    <2> QED BY <2>1, <2>2, FinishedStays
<1>5. ASSUME NEW c \in Range(prog.queue) PROVE Made(c, n)' = {} \/ (AtCreate' /\ c = Current)
    <2>1. c \in Grouped(r) /\ c \in Ctrls
        BY <1>2, <1>5 DEF Making, Grouped
    <2>2. CASE Made(c, n) = {} /\ Keeps(c, n)
        BY <2>2 DEF Keeps, Made
    <2> QED BY <1>1, <1>2, <1>5, <2>1, <2>2 DEF Making
<1>6. Range(prog.queue) \subseteq Grouped(r)
    BY <1>2 DEF Making
<1>7. prog'.request = r /\ Now' = n /\ prog'.queue = prog.queue
    BY <1>1, <1>2
<1> QED BY <1>3, <1>4, <1>5, <1>6, <1>7 DEF Making

\* The turn goes on to the next controller.
LEMMA TurnGoesOn ==
    ASSUME TypeInv, Making, Now' = Now, prog.queue # <<>>, prog'.queue = Tail(prog.queue),
           prog'.request = prog.request, foreign' = foreign, tasks' = tasks,
           \A c \in Ctrls : server'[c].volumes = server[c].volumes /\ (server[c].jbod => server'[c].jbod),
           \A r, n : \A c \in Ctrls : c = Current /\ r = prog.request /\ n = Now => Finished(r, c, n)'
    PROVE  Making'
<1>1. PICK n : n = Now
    OBVIOUS
<1>2. PICK r : r = prog.request
    OBVIOUS
<1>3. PICK q \in Ctrls : /\ q = Current /\ Range(prog.queue) = {q} \cup Range(Tail(prog.queue))
                         /\ q \notin Range(Tail(prog.queue))
    BY CurrentFacts
<1>4. Grouped(r)' = Grouped(r)
    BY DEF Grouped, Group, controller
<1>5. \A c \in Ctrls : Keeps(c, n)
    BY KeptAsTheyAre
<1>6. ASSUME NEW c \in Grouped(r), c \notin Range(Tail(prog.queue)) PROVE Finished(r, c, n)'
    <2>1. c \in Ctrls
        BY <1>6 DEF Grouped
    <2>2. CASE c = q
        BY <1>1, <1>2, <1>3, <2>2
    <2>3. CASE c # q
        <3>1. Finished(r, c, n)
            BY <1>1, <1>2, <1>3, <1>6, <2>3 DEF Making
        <3> QED BY <1>5, <2>1, <3>1, FinishedStays
    <2> QED BY <2>2, <2>3
<1>7. ASSUME NEW c \in Range(Tail(prog.queue)) PROVE Made(c, n)' = {}
    <2>1. c \in Ctrls /\ Made(c, n) = {}
        BY <1>1, <1>2, <1>3, <1>7 DEF Making, Grouped
    <2> QED BY <1>5, <2>1 DEF Keeps, Made
<1>8. Range(Tail(prog.queue)) \subseteq Grouped(r)
    BY <1>2, <1>3 DEF Making
<1>9. prog'.request = r /\ Now' = n /\ prog'.queue = Tail(prog.queue)
    BY <1>1, <1>2
<1> QED BY <1>4, <1>6, <1>7, <1>8, <1>9 DEF Making

\* The step that lists the controllers.
LEMMA ListingKeepsApply ==
    ASSUME TypeInv, ApplyInv, ListControllers
    PROVE  ApplyInv'
<1>0. prog.at = "list" /\ Fresh /\ UNCHANGED <<server, tasks, foreign>>
    BY DEF ListControllers, ApplyInv
<1>1. CASE End("invalid")
    BY <1>0, <1>1, ApplyWhenItEnds DEF End, Results
<1>2. CASE ~ End("invalid")
    <2>1. PICK q : /\ prog' = [prog EXCEPT !.at = "controller", !.queue = q] /\ history' = history
                   /\ prog.op = "apply" => q \in SetToSeqs(Grouped(prog.request))
        <3>1. CASE prog.op = "delete"
            BY <1>2, <3>1 DEF ListControllers
        <3>2. CASE prog.op # "delete"
            BY <1>2, <3>2 DEF ListControllers
        <3> QED BY <3>1, <3>2
    <2>2. /\ prog'.at = "controller" /\ prog'.queue = q /\ prog'.op = prog.op
          /\ prog'.request = prog.request
        BY <2>1 DEF TypeInv, ProgOK
    <2>3. Now' = Now
        BY <1>0, <2>1, <2>2, TimeStays
    <2>4. Fresh'
        BY <1>0, <2>3, FreshStays
    <2>5. ASSUME prog.op = "apply" PROVE Making'
        <3>1. PICK r : r = prog.request
            OBVIOUS
        <3>2. Range(q) = Grouped(r) /\ prog'.request = r
            BY <2>1, <2>2, <2>5, <3>1, GroupedInOrder
        <3>3. Grouped(r)' = Grouped(r) /\ Grouped(r) \subseteq Ctrls
            BY DEF Grouped, Group, controller
        <3>4. \A c \in Ctrls : Made(c, Now)' = {}
            <4>1. PICK n : n = Now
                OBVIOUS
            <4>2. n \in Nat /\ ~ (n < n)
                BY <4>1, TimeOfNow
            <4>3. \A c \in Ctrls : \A v \in server[c].volumes : ~ (v.mine /\ v.since = n)
                BY <1>0, <4>1, <4>2 DEF Fresh
            <4> QED BY <1>0, <2>3, <4>1, <4>3 DEF Made
        <3> QED BY <2>2, <3>2, <3>3, <3>4 DEF Making
    <2>6. ~ AtCreate'
        BY <2>2 DEF AtCreate
    <2> QED BY <1>0, <2>2, <2>4, <2>5, <2>6, ApplyWhenItGoesOn DEF ApplyInv
<1> QED BY <1>1, <1>2

\* A controller in JBOD mode is what was asked for.
LEMMA JbodKeepsApply ==
    ASSUME TypeInv, ApplyInv, SetJbod
    PROVE  ApplyInv'
<1>1. /\ prog.at = "controller" /\ prog.op = "apply" /\ prog.queue # <<>> /\ Jbods(prog.request, Current) # {}
      /\ UNCHANGED <<tasks, foreign>> /\ Current \in Ctrls
    BY CurrentFacts DEF SetJbod, SettingJbod
<1>2. CASE Current \in prog.stale
    BY <1>1, <1>2, ApplyWhenItEnds DEF SetJbod, End, Results
<1>3. CASE Current \notin prog.stale
    <2>1. PICK q \in Ctrls : q = Current
        BY <1>1
    <2>2. /\ server' = [server EXCEPT ![q].jbod = TRUE] /\ history' = history
          /\ prog' = [prog EXCEPT !.queue = Tail(@), !.touched = TRUE]
        BY <1>3, <2>1 DEF SetJbod
    <2>3. /\ prog'.at = "controller" /\ prog'.queue = Tail(prog.queue) /\ prog'.op = prog.op
          /\ prog'.request = prog.request
        BY <1>1, <2>2 DEF TypeInv, ProgOK
    <2>4. /\ server'[q].jbod /\ server'[q].volumes = server[q].volumes
          /\ \A c \in Ctrls : c # q => server'[c] = server[c]
        BY <2>2 DEF TypeInv, ServerOK
    <2>5. \A c \in Ctrls : server'[c].volumes = server[c].volumes /\ (server[c].jbod => server'[c].jbod)
        BY <2>4
    <2>6. Now' = Now
        BY <1>1, <2>2, <2>3, TimeStays
    <2>7. ASSUME NEW c \in Ctrls, NEW r, NEW n, c = Current, r = prog.request PROVE Finished(r, c, n)'
        <3>1. Jbods(r, c)' = Jbods(r, c)
            BY DEF Jbods, Group, controller
        <3> QED BY <1>1, <2>1, <2>4, <2>7, <3>1 DEF Finished
    <2>8. Making
        BY <1>1 DEF ApplyInv
    <2>9. Making'
        BY <1>1, <2>3, <2>5, <2>6, <2>7, <2>8, TurnGoesOn
    <2>10. ~ AtCreate'
        BY <2>3 DEF AtCreate
    <2> QED BY <1>1, <2>3, <2>9, <2>10, ApplyWhenItGoesOn DEF ApplyInv
<1> QED BY <1>2, <1>3

\* The drives are chosen, and nothing has been made on them.
LEMMA PlanKeepsApply ==
    ASSUME TypeInv, TaskInv, ApplyInv, Plan
    PROVE  ApplyInv'
<1>1. /\ prog.at = "controller" /\ prog.op = "apply" /\ prog.queue # <<>>
      /\ Jbods(prog.request, Current) = {} /\ UNCHANGED <<reports, server, tasks, foreign>>
    BY PlanSteps
<1>2. CASE End("no disks")
    BY <1>1, <1>2, ApplyWhenItEnds DEF End, Results
<1>3. CASE ~ End("no disks")
    <2>1. PICK S \in SUBSET SeenFree(Current) :
            /\ S \in kSubset(Cardinality(Group(prog.request, Current)), SeenFree(Current))
            /\ prog'.todo = S /\ prog'.done = {} /\ prog'.at = "create"
            /\ prog'.queue = prog.queue /\ prog'.op = prog.op /\ prog'.request = prog.request
            /\ history' = history
        BY <1>3, PlanSteps
    <2>2. PICK n : n = Now
        OBVIOUS
    <2>3. PICK r : r = prog.request
        OBVIOUS
    <2>4. Now' = Now /\ Current' = Current
        BY <1>1, <2>1, TimeStays DEF Current
    <2>5. AtCreate' /\ ~ AtCreate
        BY <1>1, <2>1 DEF AtCreate
    <2>6. Making
        BY <1>1 DEF ApplyInv
    <2>7. \A c \in Ctrls : Keeps(c, Now)
        BY <1>1, KeptAsTheyAre
    <2>8. Making'
        BY <1>1, <2>1, <2>4, <2>5, <2>6, <2>7, MakingStays DEF Grouped
    <2>9. ASSUME NEW c \in Ctrls, c = Current PROVE AtWork(c)'
        <3>1. Cardinality(S) = Cardinality(Group(r, c))
            BY <2>1, <2>3, <2>9 DEF kSubset
        <3>2. AsAsked(c, {}, n)'
            <4>1. Made(c, n) = {}
                BY <1>1, <2>2, <2>5, <2>6, <2>9, CurrentFacts DEF Making
            <4>2. Made(c, n)' = {}
                BY <1>1, <4>1 DEF Made
            <4> QED BY <4>2 DEF AsAsked
        <3>3. \A t \in tasks' : t.since # n
            BY <1>1, <2>2 DEF TaskInv
        <3>4. Jbods(r, c)' = Jbods(r, c) /\ Group(r, c)' = Group(r, c) /\ Jbods(r, c) = {}
            BY <1>1, <2>3, <2>9 DEF Jbods, Group, controller
        <3>5. prog'.request = r /\ Now' = n /\ prog'.done \cup prog'.todo = S
            BY <2>1, <2>2, <2>3, <2>4
        <3> QED BY <2>1, <3>1, <3>2, <3>3, <3>4, <3>5 DEF AtWork
    <2> QED BY <1>1, <2>1, <2>4, <2>8, <2>9, ApplyWhenItGoesOn DEF ApplyInv
<1> QED BY <1>2, <1>3

\* A creation is asked for, on a controller that has no other task.
LEMMA CreatingKeepsApply ==
    ASSUME TypeInv, TaskInv, ApplyInv, NEW d \in Drives, Asks(d)
    PROVE  ApplyInv'
<1>1. /\ prog.at \in {"delete", "create"} /\ d \in prog.todo /\ ~ Refuses(prog.op, Current, d)
      /\ prog'.at = "wait" /\ prog'.request = prog.request /\ prog'.queue = prog.queue /\ prog'.op = prog.op
      /\ prog'.todo = prog.todo \ {d} /\ prog'.done = prog.done \cup {d} /\ d \notin prog.done
      /\ UNCHANGED <<reports, server, history, foreign>> /\ prog.queue # <<>>
    BY DEF Asks, TypeInv, ProgOK
<1>2. Now' = Now /\ Current' = Current
    BY <1>1, TimeStays DEF Current
<1>3. PICK t : t.ctrl = Current /\ t.since = Now /\ t.drive = d /\ tasks' = tasks \cup {t}
    BY DEF Asks
<1>4. CASE prog.op = "delete"
    <2>1. Fresh' /\ ~ AtCreate'
        BY <1>1, <1>2, <1>4, FreshStays DEF ApplyInv, AtCreate
    <2> QED BY <1>1, <1>4, <2>1, ApplyWhenItGoesOn DEF ApplyInv
<1>5. CASE prog.op = "apply"
    <2>1. AtCreate /\ AtCreate' /\ Making /\ prog.at = "create"
        BY <1>1, <1>5 DEF AtCreate, ApplyInv, TypeInv, ProgOK
    <2>2. \A c \in Ctrls : Keeps(c, Now)
        BY <1>1, KeptAsTheyAre
    <2>3. Making'
        BY <1>1, <1>2, <1>3, <2>1, <2>2, MakingStays DEF Grouped
    <2>4. ASSUME NEW c \in Ctrls, c = Current PROVE AtWork(c)'
        <3>1. AtWork(c)
            BY <2>1, <2>4 DEF ApplyInv
        <3>2. PICK n : n = Now
            OBVIOUS
        <3>3. PICK r : r = prog.request
            OBVIOUS
        <3>4. PICK D : D = prog.done
            OBVIOUS
        <3>5. AsAsked(c, D, n)'
            BY <2>1, <2>2, <2>4, <3>1, <3>2, <3>4, AsAskedStays DEF AtWork
        <3>6. \A u \in tasks : u.ctrl # c /\ u.since # n
            BY <1>1, <1>5, <2>1, <2>4, <3>2 DEF Refuses, TaskInv
        <3>7. Jbods(r, c)' = Jbods(r, c) /\ Group(r, c)' = Group(r, c)
            BY DEF Jbods, Group, controller
        <3>8. prog'.done \cup prog'.todo = prog.done \cup prog.todo
            BY <1>1
        <3>9. prog'.request = r /\ Now' = n /\ prog'.done \ {t.drive} = D /\ prog'.at = "wait"
            BY <1>1, <1>2, <1>3, <3>2, <3>3, <3>4
        <3>10. \A u \in tasks' : u.since = n => u = t
            BY <1>3, <3>6
        <3>11. \A u \in tasks' : u.ctrl = c => u.since = n
            BY <1>3, <3>2, <3>6
        <3>12. Jbods(r, c) = {} /\ Cardinality(prog.done \cup prog.todo) = Cardinality(Group(r, c))
            BY <3>1, <3>3 DEF AtWork
        <3> QED BY <3>5, <3>7, <3>8, <3>9, <3>10, <3>11, <3>12 DEF AtWork
    <2> QED BY <1>1, <1>2, <1>5, <2>3, <2>4, ApplyWhenItGoesOn DEF ApplyInv
<1>6. prog.op \in {"delete", "apply"}
    BY <1>1 DEF TypeInv, ProgOK
<1> QED BY <1>4, <1>5, <1>6

\* What is said of the controller whose turn it is.
LEMMA AtWorkStays ==
    ASSUME NEW c, AtWork(c), Now' = Now, prog'.request = prog.request, prog'.done = prog.done,
           prog'.todo = prog.todo, tasks' \subseteq tasks,
           Keeps(c, Now) \/ (prog'.at = "failed" /\ \A t \in tasks' : t.since # Now),
           prog'.at \in {"create", "completed"} => prog.at \in {"create", "completed"}
    PROVE  AtWork(c)'
<1>1. PICK n : n = Now
    OBVIOUS
<1>2. PICK r : r = prog.request
    OBVIOUS
<1>3. PICK D : D = prog.done
    OBVIOUS
<1>4. Jbods(r, c)' = Jbods(r, c) /\ Group(r, c)' = Group(r, c)
    BY DEF Jbods, Group, controller
<1>5. prog'.request = r /\ Now' = n /\ prog'.done = D /\ prog'.todo = prog.todo
    BY <1>1, <1>2, <1>3
<1>6. /\ Jbods(r, c) = {} /\ Cardinality(D \cup prog.todo) = Cardinality(Group(r, c))
      /\ D # {} => \A t \in tasks' : t.ctrl = c => t.since = n
    BY <1>1, <1>2, <1>3 DEF AtWork
<1>7. prog'.at \in {"create", "completed"} => AsAsked(c, D, n)'
    BY <1>1, <1>3, AsAskedStays DEF AtWork
<1>8. ASSUME NEW t \in tasks', t.since = n PROVE AsAsked(c, D \ {t.drive}, n)'
    <2>1. AsAsked(c, D \ {t.drive}, n) /\ Keeps(c, n)
        BY <1>1, <1>3, <1>8 DEF AtWork
    <2> QED BY <2>1, AsAskedStays
<1> QED BY <1>4, <1>5, <1>6, <1>7, <1>8 DEF AtWork

\* A group of pending volumes is finite.
LEMMA GroupFacts ==
    ASSUME NEW r \in Requests \cup {<<>>}, NEW c
    PROVE  IsFiniteSet(Group(r, c)) /\ Cardinality(Group(r, c)) \in Nat
<1>1. r \in Seq(Range(r))
    BY RaidApplyAssumption, EmptySeq
<1>2. Len(r) \in Nat /\ DOMAIN r = 1..Len(r)
    BY <1>1, LenProperties
<1>3. IsFiniteSet(DOMAIN r)
    BY <1>2, FS_Interval
<1>4. Group(r, c) \subseteq DOMAIN r
    BY DEF Group
<1> QED BY <1>3, <1>4, FS_Subset, FS_CardinalityType

\* All volumes of a controller have been created.
LEMMA CreatedAll ==
    ASSUME TypeInv, TaskInv, ApplyInv, VolumesCreated
    PROVE  ApplyInv'
<1>1. /\ prog.at = "create" /\ prog.op = "apply" /\ prog.queue # <<>> /\ prog.todo = {}
      /\ prog'.at = "controller" /\ prog'.queue = Tail(prog.queue) /\ prog'.op = prog.op
      /\ prog'.request = prog.request /\ UNCHANGED <<server, tasks, history, foreign>>
    BY DEF VolumesCreated, TypeInv, ProgOK
<1>2. Now' = Now /\ AtCreate /\ ~ AtCreate' /\ Making
    BY <1>1, TimeStays DEF AtCreate, ApplyInv
<1>3. ASSUME NEW c \in Ctrls, NEW r, NEW n, c = Current, r = prog.request, n = Now
      PROVE  Finished(r, c, n)'
    <2>1. AtWork(c) /\ r \in Requests \cup {<<>>} /\ prog.done \subseteq Drives
        BY <1>1, <1>2, <1>3 DEF ApplyInv, TypeInv, ProgOK
    <2>2. PICK D \in SUBSET Drives : D = prog.done
        BY <2>1
    <2>3. AsAsked(c, D, n) /\ Cardinality(D) = Cardinality(Group(r, c)) /\ Jbods(r, c) = {}
        <3>1. prog.done \cup prog.todo = D
            BY <1>1, <2>2
        <3> QED BY <1>1, <1>3, <2>1, <2>2, <3>1 DEF AtWork
    <2>4. Group(r, c) # {}
        BY <1>1, <1>2, <1>3, CurrentFacts DEF Making, Grouped
    <2>5. D # {}
        <3>1. IsFiniteSet({}) /\ Cardinality({}) = 0
            BY FS_EmptySet
        <3>2. Cardinality(Group(r, c)) # 0
            BY <2>1, <2>4, GroupFacts, FS_EmptySet
        <3> QED BY <2>3, <3>1, <3>2
    <2>6. \A t \in tasks : t.ctrl # c
        BY <1>1, <1>3, <2>1, <2>2, <2>5 DEF AtWork, TaskInv
    <2>7. Finished(r, c, n)
        BY <2>2, <2>3, <2>6 DEF Finished
    <2>8. Keeps(c, n)
        BY <1>1, KeptAsTheyAre
    <2> QED BY <1>1, <2>7, <2>8, FinishedStays
<1>4. Making'
    <2>1. \A c \in Ctrls : server'[c].volumes = server[c].volumes /\ (server[c].jbod => server'[c].jbod)
        BY <1>1
    <2>2. UNCHANGED <<tasks, foreign>>
        BY <1>1
    <2> QED BY <1>1, <1>2, <1>3, <2>1, <2>2, TurnGoesOn
<1> QED BY <1>1, <1>2, <1>4, ApplyWhenItGoesOn DEF ApplyInv

\* A step of the program that goes on with a deletion.
LEMMA DeletionKeepsApply ==
    ASSUME TypeInv, ApplyInv, prog.op = "delete", prog.at # "idle", prog'.op = prog.op, prog'.at # "idle",
           history' = history, foreign' = foreign, \A c \in Ctrls : server'[c].volumes = server[c].volumes
    PROVE  ApplyInv'
<1>1. Now' = Now
    BY TimeStays
<1>2. Fresh'
    BY <1>1, FreshStays DEF ApplyInv
<1>3. ~ AtCreate'
    BY DEF AtCreate
<1> QED BY <1>2, <1>3, ApplyWhenItGoesOn DEF ApplyInv

\* A creation has been waited for.
LEMMA WaitedKeepsApply ==
    ASSUME TypeInv, ApplyInv, TaskDone, prog.op = "apply"
    PROVE  ApplyInv'
<1>1. /\ prog.at = "completed" /\ prog.queue # <<>> /\ prog'.at = "create"
      /\ prog'.queue = prog.queue /\ prog'.op = prog.op /\ prog'.request = prog.request
      /\ prog'.done = prog.done /\ prog'.todo = prog.todo
      /\ UNCHANGED <<server, tasks, history, foreign>>
    BY DEF TaskDone, TypeInv, ProgOK
<1>2. Now' = Now /\ Current' = Current /\ AtCreate /\ AtCreate' /\ Making
    BY <1>1, TimeStays DEF AtCreate, ApplyInv, Current
<1>3. \A c \in Ctrls : Keeps(c, Now)
    BY <1>1, KeptAsTheyAre
<1>4. Making'
    BY <1>1, <1>2, <1>3, MakingStays DEF Grouped
<1>5. \A c \in Ctrls : c = Current' => AtWork(c)'
    BY <1>1, <1>2, <1>3, AtWorkStays DEF ApplyInv
<1> QED BY <1>1, <1>2, <1>4, <1>5, ApplyWhenItGoesOn DEF ApplyInv

\* The steps of the program.
LEMMA ProgramKeepsApply ==
    ASSUME TypeInv, TaskInv, ApplyInv, ProgramStep
    PROVE  ApplyInv'
<1>1. CASE ListControllers
    BY <1>1, ListingKeepsApply
<1>2. CASE SetJbod
    BY <1>2, JbodKeepsApply
<1>3. CASE Plan
    BY <1>3, PlanKeepsApply
<1>4. CASE VolumesCreated
    BY <1>4, CreatedAll
<1>5. CASE waiting_storage_ready
    <2>1. /\ prog.at = "ready" /\ prog'.at \in {"ready", "list"} /\ prog'.op = prog.op
          /\ UNCHANGED <<server, history, foreign>>
        BY <1>5 DEF waiting_storage_ready, TypeInv, ProgOK
    <2>2. Now' = Now
        BY <2>1, TimeStays
    <2>3. Fresh' /\ ~ AtCreate'
        BY <2>1, <2>2, FreshStays DEF ApplyInv, AtCreate
    <2> QED BY <2>1, <2>3, ApplyWhenItGoesOn DEF ApplyInv
<1>6. ASSUME NEW r \in Results, End(r), prog.op # "apply" \/ r # "ok", UNCHANGED <<server, foreign>>,
             prog.at # "idle"
      PROVE  ApplyInv'
    BY <1>6, ApplyWhenItEnds DEF End
<1>7. CASE AllDone
    <2>1. CASE prog.op = "apply"
        BY <1>7, <2>1, ApplicationEnds
    <2>2. CASE prog.op # "apply"
        BY <1>6, <1>7, <2>2 DEF AllDone, Results
    <2> QED BY <2>1, <2>2
<1>8. CASE DeleteNotSupported \/ TaskFailed
    BY <1>6, <1>8 DEF DeleteNotSupported, TaskFailed, Results
<1>9. CASE DeleteVolume \/ CreateVolume
    <2>1. CASE \E d \in Drives : Asks(d)
        BY <2>1, CreatingKeepsApply
    <2>2. CASE End("refused")
        BY <1>6, <1>9, <2>2 DEF DeleteVolume, CreateVolume, Results
    <2>3. /\ prog.at = "delete" => prog.op = "delete"
          /\ prog.at = "create" => prog.op = "apply"
          /\ prog.todo \subseteq Drives
        BY DEF TypeInv, ProgOK
    <2>4. CASE DeleteVolume
        BY <2>1, <2>2, <2>3, <2>4 DEF DeleteVolume, Asks
    <2>5. CASE CreateVolume
        BY <2>1, <2>2, <2>3, <2>5 DEF CreateVolume, Asks
    <2> QED BY <1>9, <2>4, <2>5
<1>10. CASE LoadVolumes \/ VolumesDeleted \/ RestoreDrive \/ (TaskDone /\ prog.op # "apply")
    <2>1. /\ prog.op = "delete" /\ prog.at # "idle" /\ prog'.op = prog.op
          /\ prog'.at \in {"delete", "restore", "controller"}
          /\ UNCHANGED <<history, foreign>>
        <3>1. CASE RestoreDrive
            BY <3>1 DEF RestoreDrive, TypeInv, ProgOK
        <3>2. CASE LoadVolumes \/ VolumesDeleted \/ (TaskDone /\ prog.op # "apply")
            BY <3>2 DEF LoadVolumes, VolumesDeleted, TaskDone, TypeInv, ProgOK
        <3> QED BY <1>10, <3>1, <3>2
    <2>2. ~ (\E d \in Drives : Asks(d)) /\ prog'.at # "idle" /\ ~ (\E r \in Results : End(r))
        <3>1. ASSUME NEW d, Asks(d) PROVE prog'.at = "wait"
            BY <3>1 DEF Asks, TypeInv, ProgOK
        <3>2. ASSUME NEW r, End(r) PROVE prog'.at = "idle"
            BY <3>2 DEF End, Ended, Idle
        <3> QED BY <2>1, <3>1, <3>2
    <2>3. \A c \in Ctrls : server'[c].volumes = server[c].volumes
        BY <2>2, StepsOfProgram
    <2> QED BY <2>1, <2>2, <2>3, DeletionKeepsApply
<1>11. CASE TaskDone /\ prog.op = "apply"
    BY <1>11, WaitedKeepsApply
<1> QED BY <1>1, <1>2, <1>3, <1>4, <1>5, <1>7, <1>8, <1>9, <1>10, <1>11 DEF ProgramStep

\* A task that completes while an application is at work on a controller.
LEMMA CompletingKeepsApply ==
    ASSUME TypeInv, TaskInv, ApplyInv, NEW t \in tasks, Completes(t)
    PROVE  ApplyInv'
<1>0. /\ TypeInv' /\ Now' = Now /\ t.ctrl \in Ctrls
      /\ server'[t.ctrl].volumes = Completed(t) /\ server'[t.ctrl].jbod = server[t.ctrl].jbod
      /\ \A b \in Ctrls : b # t.ctrl => server'[b] = server[b]
    BY CompletingFacts
<1>1. /\ prog'.op = prog.op /\ prog'.queue = prog.queue /\ prog'.request = prog.request
      /\ prog'.todo = prog.todo /\ prog'.done = prog.done
      /\ prog'.at = (IF prog.at = "wait" /\ t.since = Now THEN "completed" ELSE prog.at)
      /\ UNCHANGED <<history, last, foreign>> /\ tasks' = tasks \ {t}
    BY DEF Completes, TypeInv, ProgOK
<1>2. PICK n \in Nat : n = Now
    BY TimeOfNow
<1>3. t.since \in Nat /\ t.since <= n /\ t.op \in {"delete", "apply"}
    BY <1>2 DEF TypeInv, ServerOK, PastOK
<1>4. \A c \in Ctrls : server[c].jbod => server'[c].jbod
    BY <1>0
<1>5. (AtCreate' <=> AtCreate) /\ (prog'.at \in {"ready", "list"} <=> prog.at \in {"ready", "list"})
    BY <1>1 DEF AtCreate
<1>6. ASSUME prog.op # "apply" \/ prog.at \in {"ready", "list"} PROVE Fresh'
    <2>1. t.op = "apply" => t.since # n
        BY <1>2, <1>6 DEF TaskInv
    <2>2. PICK v : v = [drive |-> t.drive, since |-> t.since, mine |-> TRUE]
        OBVIOUS
    <2>3. t.op = "apply" => v.since < n
        BY <1>3, <2>1, <2>2
    <2>4. \A w \in server'[t.ctrl].volumes : w \in server[t.ctrl].volumes \/ (t.op = "apply" /\ w = v)
        BY <1>0, <2>2 DEF Completed
    <2>5. \A c \in Ctrls : \A w \in server'[c].volumes : w \in server[c].volumes \/ (t.op = "apply" /\ w = v)
        BY <1>0, <2>4
    <2>6. Fresh
        BY <1>6 DEF ApplyInv
    <2> QED BY <1>0, <1>2, <2>3, <2>5, <2>6, FreshStays
<1>7. ASSUME prog.op = "apply", prog.at \notin {"idle", "ready", "list"}
      PROVE  Making' /\ (AtCreate' => \A c \in Ctrls : c = Current' => AtWork(c)')
    <2>1. Making /\ Current' = Current /\ (AtCreate => prog.queue # <<>>)
        BY <1>1, <1>7 DEF ApplyInv, AtCreate, Current, TypeInv, ProgOK
    \* The task that is waited for.
    <2>2. CASE t.since = n
        <3>1. /\ AtCreate /\ prog.at = "wait" /\ t.ctrl = Current /\ t.op = "apply" /\ t.drive \in prog.done
              /\ \A u \in tasks' : u.since # n
            BY <1>1, <1>2, <1>7, <2>2 DEF TaskInv, AtCreate
        <3>2. PICK q \in Ctrls : q = Current
            BY <2>1, <3>1, CurrentFacts
        <3>3. \A c \in Ctrls : c # q => Keeps(c, n)
            BY <1>1, <2>2, <3>1, <3>2, KeptByTasks
        <3>4. Making'
            BY <1>0, <1>1, <1>2, <1>4, <1>5, <2>1, <3>1, <3>2, <3>3, MakingStays DEF Grouped
        <3>5. AtWork(q)
            BY <3>1, <3>2 DEF ApplyInv
        <3>6. PICK D : D = prog.done
            OBVIOUS
        <3>7. PICK r : r = prog.request
            OBVIOUS
        <3>8. AsAsked(q, D, n)'
            <4>1. PICK v : v = [drive |-> t.drive, since |-> t.since, mine |-> TRUE]
                OBVIOUS
            <4>2. server'[q].volumes = server[q].volumes \cup {v}
                BY <1>0, <3>1, <3>2, <4>1 DEF Completed
            <4>3. v.drive = t.drive /\ v.since = n /\ v.mine
                BY <2>2, <4>1
            <4>4. Made(q, n)' = Made(q, n) \cup {v}
                BY <4>2, <4>3 DEF Made
            <4>5. AsAsked(q, D \ {t.drive}, n)
                BY <1>2, <2>2, <3>5, <3>6 DEF AtWork
            <4>6. \A d : TakenFrom(q, d, n)' <=> TakenFrom(q, d, n)
                BY <1>1 DEF TakenFrom
            <4>7. t.drive \in D
                BY <3>1, <3>6
            <4> QED BY <4>3, <4>4, <4>5, <4>6, <4>7 DEF AsAsked
        <3>9. AtWork(q)'
            <4>1. Jbods(r, q)' = Jbods(r, q) /\ Group(r, q)' = Group(r, q)
                BY DEF Jbods, Group, controller
            <4>2. prog'.request = r /\ Now' = n /\ prog'.done = D /\ prog'.todo = prog.todo
                BY <1>0, <1>1, <1>2, <3>6, <3>7
            <4>3. /\ Jbods(r, q) = {} /\ Cardinality(D \cup prog.todo) = Cardinality(Group(r, q))
                  /\ D # {} => \A u \in tasks' : u.ctrl = q => u.since = n
                BY <1>1, <1>2, <3>5, <3>6, <3>7 DEF AtWork
            <4> QED BY <3>1, <3>8, <4>1, <4>2, <4>3 DEF AtWork
        <3> QED BY <2>1, <3>2, <3>4, <3>9
    \* A task of an earlier operation, which is on a controller that has no
    \* volume of this one.
    <2>3. CASE t.since # n
        <3>1. prog'.at = prog.at
            BY <1>1, <1>2, <2>3
        <3>2. ASSUME NEW c \in Grouped(prog.request), ~ (AtCreate /\ c = Current),
                     c \in Range(prog.queue) \/ Jbods(prog.request, c) = {}
              PROVE  Keeps(c, n)
            <4>1. c \in Ctrls
                BY DEF Grouped
            <4>2. CASE c \in Range(prog.queue)
                BY <1>2, <2>1, <2>3, <3>2, <4>1, <4>2, KeptByTasks DEF Making
            <4>3. CASE c \notin Range(prog.queue)
                <5>1. t.ctrl # c
                    BY <2>1, <3>2, <4>3 DEF Making, Finished
                <5> QED BY <4>1, <5>1, KeptByTasks
            <4> QED BY <4>2, <4>3
        <3>3. Making'
            BY <1>0, <1>1, <1>2, <1>4, <1>5, <2>1, <3>2, MakingStays
        <3>4. ASSUME AtCreate, NEW c \in Ctrls, c = Current PROVE AtWork(c)'
            <4>1. AtWork(c)
                BY <3>4 DEF ApplyInv
            <4>2. CASE prog.at = "failed"
                BY <1>0, <1>1, <3>1, <4>1, <4>2, AtWorkStays DEF TaskInv
            <4>3. CASE prog.at # "failed"
                <5>1. t.ctrl = c => prog.done = {}
                    BY <1>2, <2>3, <4>1 DEF AtWork
                <5>2. prog.at = "wait" => prog.done # {}
                    BY DEF TaskInv
                <5>3. t.ctrl = c => AsAsked(c, {}, n)
                    BY <1>2, <3>4, <4>1, <4>3, <5>1, <5>2 DEF AtWork, AtCreate
                <5>4. t.ctrl = c => Made(c, n) = {}
                    BY <5>3 DEF AsAsked
                <5>5. Keeps(c, Now)
                    BY <1>2, <2>3, <5>4, KeptByTasks
                <5> QED BY <1>0, <1>1, <3>1, <4>1, <5>5, AtWorkStays
            <4> QED BY <4>2, <4>3
        <3> QED BY <1>5, <2>1, <3>3, <3>4
    <2> QED BY <2>2, <2>3
<1>8. CASE prog.at # "idle"
    <2>1. prog'.at # "idle" /\ (~ AtCreate' \/ prog.op = "apply")
        BY <1>1, <1>8 DEF AtCreate
    <2>2. ~ (AtCreate' /\ prog.at \in {"ready", "list"})
        BY <1>1 DEF AtCreate
    <2> QED BY <1>1, <1>5, <1>6, <1>7, <1>8, <2>1, <2>2, ApplyWhenItGoesOn DEF ApplyInv
<1>9. CASE prog.at = "idle"
    <2>1. prog = Idle /\ prog' = prog /\ prog.op = "none" /\ ~ AtCreate'
        BY <1>1, <1>9 DEF TypeInv, ProgOK, Idle, AtCreate, Completes
    <2>2. ASSUME JustEnded("apply", "ok")
          PROVE  \A c \in Grouped(last.request) : Finished(last.request, c, 2 * Len(history) - 1)'
        <3>1. PICK r : r = last.request
            OBVIOUS
        <3>2. PICK m : m = 2 * Len(history) - 1
            OBVIOUS
        <3>3. ASSUME NEW c \in Grouped(r) PROVE Finished(r, c, m)'
            <4>1. Finished(r, c, m) /\ c \in Ctrls
                BY <2>2, <3>1, <3>2, <3>3 DEF ApplyInv, Grouped
            <4>2. Jbods(r, c) = {} => t.ctrl # c
                BY <4>1 DEF Finished
            <4>3. Keeps(c, m) \/ Jbods(r, c) # {}
                BY <4>1, <4>2, KeptByTasks
            <4> QED BY <1>1, <1>4, <4>1, <4>3, FinishedStays
        <3>4. last'.request = r /\ 2 * Len(history') - 1 = m
            BY <1>1, <3>1, <3>2
        <3> QED BY <3>1, <3>3, <3>4
    <2>3. /\ JustEnded("apply", "ok")' <=> JustEnded("apply", "ok")
          /\ last' = last /\ Grouped(last.request)' = Grouped(last.request)
        BY <1>1, <2>1 DEF JustEnded, LastEnded, Grouped, Group, controller
    <2>4. Fresh' /\ IsFiniteSet(foreign')
        BY <1>1, <1>6, <2>1 DEF ApplyInv
    <2> QED BY <2>1, <2>2, <2>3, <2>4 DEF ApplyInv
<1> QED BY <1>8, <1>9

\* What others do, and a task that fails or a drive that settles.
LEMMA OthersKeepApply ==
    ASSUME TypeInv, ApplyInv, TypeInv', Now' = Now, IsFiniteSet(foreign'),
           prog'.op = prog.op, prog'.queue = prog.queue, prog'.request = prog.request,
           prog'.todo = prog.todo, prog'.done = prog.done, UNCHANGED <<history, last>>, tasks' \subseteq tasks,
           \/ prog'.at = prog.at
           \/ prog.at = "wait" /\ prog'.at = "failed" /\ \A t \in tasks' : t.since # Now,
           \A c \in Ctrls, time \in Nat : time <= Now => Keeps(c, time),
           \A c \in Ctrls : /\ server[c].jbod => server'[c].jbod
                            /\ \A v \in server'[c].volumes : v \in server[c].volumes \/ ~ v.mine
    PROVE  ApplyInv'
<1>1. (AtCreate' <=> AtCreate) /\ (prog'.at \in {"ready", "list"} <=> prog.at \in {"ready", "list"})
    BY DEF AtCreate
<1>2. Now \in Nat /\ \A c \in Ctrls : Keeps(c, Now)
    BY TimeOfNow
<1>3. Fresh => Fresh'
    BY DEF Fresh
<1>4. CASE prog.at # "idle"
    <2>1. prog'.at # "idle"
        BY <1>4
    <2>2. ASSUME prog.op = "apply", prog.at \notin {"ready", "list"} PROVE Making'
        <3>1. Making
            BY <2>2 DEF ApplyInv
        <3>2. AtCreate' => prog.queue # <<>>
            BY <1>1 DEF AtCreate, TypeInv, ProgOK
        <3> QED BY <1>1, <1>2, <3>1, <3>2, MakingStays DEF Grouped
    <2>3. ASSUME AtCreate PROVE \A c \in Ctrls : c = Current' => AtWork(c)'
        <3>1. Current' = Current
            BY DEF Current
        <3>2. ASSUME NEW c \in Ctrls, c = Current PROVE AtWork(c)'
            <4>1. AtWork(c) /\ Keeps(c, Now)
                BY <1>2, <2>3, <3>2 DEF ApplyInv
            <4> QED BY <4>1, AtWorkStays
        <3> QED BY <3>1, <3>2
    <2> QED BY <1>1, <1>3, <2>1, <2>2, <2>3, ApplyWhenItGoesOn DEF ApplyInv
<1>5. CASE prog.at = "idle"
    <2>1. prog = Idle /\ prog' = Idle /\ prog.op = "none" /\ ~ AtCreate'
        BY <1>1, <1>5 DEF TypeInv, ProgOK, Idle, AtCreate
    <2>2. ASSUME JustEnded("apply", "ok")
          PROVE  \A c \in Grouped(last.request) : Finished(last.request, c, 2 * Len(history) - 1)'
        <3>1. PICK r : r = last.request
            OBVIOUS
        <3>2. PICK m \in Nat : m = 2 * Len(history) - 1 /\ m <= Now
            <4>1. PICK k \in Nat : k = Len(history) /\ k # 0
                BY <2>2, TimeOfNow, EmptySeq DEF JustEnded, TypeInv, PastOK
            <4>2. Now = 2 * k
                BY <1>5, <4>1, TimeOfNow
            <4>3. k \in Nat /\ k # 0
                BY <4>1
            <4>4. 2 * k - 1 \in Nat /\ 2 * k - 1 <= 2 * k
                BY <4>3
            <4> QED BY <4>1, <4>2, <4>4
        <3>3. ASSUME NEW c \in Grouped(r) PROVE Finished(r, c, m)'
            <4>1. Finished(r, c, m) /\ c \in Ctrls /\ Keeps(c, m)
                BY <2>2, <3>1, <3>2, <3>3 DEF ApplyInv, Grouped
            <4> QED BY <4>1, FinishedStays
        <3>4. last'.request = r /\ 2 * Len(history') - 1 = m
            BY <3>1, <3>2
        <3> QED BY <3>1, <3>3, <3>4
    <2>3. /\ JustEnded("apply", "ok")' <=> JustEnded("apply", "ok")
          /\ Grouped(last.request)' = Grouped(last.request)
        BY <2>1 DEF JustEnded, LastEnded, Grouped, Group, controller
    <2>4. Fresh'
        BY <1>3, <2>1 DEF ApplyInv
    <2> QED BY <2>1, <2>2, <2>3, <2>4 DEF ApplyInv
<1> QED BY <1>4, <1>5

LEMMA OutsideKeepsApply ==
    ASSUME TypeInv, TaskInv, ApplyInv,
           TaskCompletes \/ TaskFails \/ Settle \/ OtherCreates \/ OtherDeletes \/ OtherSets
    PROVE  ApplyInv'
<1>0. IsFiniteSet(foreign) /\ \A what : Noted(what) => IsFiniteSet(foreign')
    <2>1. IsFiniteSet(foreign)
        BY DEF ApplyInv
    <2> QED BY <2>1, FS_AddElement DEF Noted
<1>1. ASSUME NEW t \in tasks, Completes(t) PROVE ApplyInv'
    BY <1>1, CompletingKeepsApply
<1>2. ASSUME NEW t \in tasks, Fails(t) PROVE ApplyInv'
    <2>1. TypeInv' /\ Now' = Now
        BY <1>2, FailingTaskFacts
    <2>2. /\ prog'.op = prog.op /\ prog'.queue = prog.queue /\ prog'.request = prog.request
          /\ prog'.todo = prog.todo /\ prog'.done = prog.done
          /\ prog'.at = (IF prog.at = "wait" /\ t.since = Now THEN "failed" ELSE prog.at)
          /\ UNCHANGED <<server, history, last, foreign>> /\ tasks' = tasks \ {t}
        BY <1>2 DEF Fails, TypeInv, ProgOK
    <2>3. prog.at = "wait" /\ t.since = Now => \A u \in tasks' : u.since # Now
        BY <2>2 DEF TaskInv
    <2>4. \A c \in Ctrls, time \in Nat : time <= Now => Keeps(c, time)
        BY <2>2, KeptAsTheyAre
    <2> QED BY <1>0, <2>1, <2>2, <2>3, <2>4, OthersKeepApply
<1>3. ASSUME NEW c \in Ctrls, NEW d \in Drives, Settles(c, d) PROVE ApplyInv'
    <2>1. TypeInv' /\ Now' = Now /\ \A b \in Ctrls : server'[b].volumes = server[b].volumes
        BY <1>3, SettlingFacts
    <2>2. UNCHANGED <<prog, tasks, history, last, foreign>>
        BY <1>3 DEF Settles
    <2>3. \A b \in Ctrls, time \in Nat : time <= Now => Keeps(b, time)
        BY <2>1, <2>2, KeptAsTheyAre
    <2>4. \A b \in Ctrls : server[b].jbod => server'[b].jbod
        BY <1>3, SettlingFacts
    <2> QED BY <1>0, <2>1, <2>2, <2>3, <2>4, OthersKeepApply
<1>4. ASSUME NEW c \in Ctrls, NEW d \in Drives, Creates(c, d) \/ Deletes(c, d) PROVE ApplyInv'
    <2>1. TypeInv' /\ Now' = Now
        BY <1>4, CreatingFacts, DeletingFacts
    <2>2. UNCHANGED <<prog, tasks, history, last>> /\ IsFiniteSet(foreign')
        BY <1>0, <1>4 DEF Creates, Deletes
    <2>3. \A b \in Ctrls, time \in Nat : time <= Now => Keeps(b, time)
        BY <1>4, KeptByOthers
    <2>4. \A b \in Ctrls : server[b].jbod => server'[b].jbod
        BY <1>4, CreatingFacts, DeletingFacts
    <2>5. \A b \in Ctrls : \A v \in server'[b].volumes : v \in server[b].volumes \/ ~ v.mine
        <3>1. PICK n : n = [drive |-> d, since |-> Now, mine |-> FALSE]
            OBVIOUS
        <3>2. \A v \in server'[c].volumes : v \in server[c].volumes \/ v = n
            BY <1>4, <3>1, CreatingFacts, DeletingFacts DEF CreatedBy, Left
        <3>3. n.mine = FALSE
            BY <3>1
        <3> QED BY <1>4, <3>2, <3>3, CreatingFacts, DeletingFacts
    <2> QED BY <2>1, <2>2, <2>3, <2>4, <2>5, OthersKeepApply
<1>5. ASSUME NEW c \in Ctrls, Sets(c) PROVE ApplyInv'
    <2>1. TypeInv' /\ Now' = Now
        BY <1>5, SettingFacts
    <2>2. /\ prog'.at = prog.at /\ prog'.op = prog.op /\ prog'.queue = prog.queue
          /\ prog'.request = prog.request /\ prog'.todo = prog.todo /\ prog'.done = prog.done
          /\ UNCHANGED <<server, tasks, history, last>> /\ foreign \subseteq foreign'
          /\ IsFiniteSet(foreign')
        BY <1>0, <1>5 DEF Sets, Noted, TypeInv, ProgOK
    <2>3. \A b \in Ctrls, time \in Nat : time <= Now => Keeps(b, time)
        BY <2>2, KeptAsTheyAre
    <2> QED BY <2>1, <2>2, <2>3, OthersKeepApply
<1> QED BY <1>1, <1>2, <1>3, <1>4, <1>5, OutsideSteps

LEMMA NextKeepsApply == TypeInv /\ TaskInv /\ ApplyInv /\ [Next]_vars => ApplyInv'
<1> SUFFICES ASSUME TypeInv, TaskInv, ApplyInv, [Next]_vars PROVE ApplyInv'
    OBVIOUS
<1>1. ASSUME NEW op \in {"delete", "apply"}, NEW r \in Requests \cup {<<>>}, Start(op, r) PROVE ApplyInv'
    <2>1. Now' = Now + 1 /\ prog'.at = "ready" /\ UNCHANGED <<server, foreign>>
        BY <1>1, StartKeepsType DEF Start
    <2>2. Fresh' /\ ~ AtCreate'
        BY <2>1, LaterIsFresh DEF AtCreate
    <2> QED BY <2>1, <2>2, ApplyWhenItGoesOn DEF ApplyInv
<1>2. CASE delete_all_raid_configuration \/ apply_raid_configuration
    BY <1>1, <1>2 DEF delete_all_raid_configuration, apply_raid_configuration
<1>3. CASE ProgramStep
    BY <1>3, ProgramKeepsApply
<1>4. CASE RequestFails
    <2>1. PICK b \in BOOLEAN : Ended("error", b)
        BY <1>4, WhenARequestFails
    <2>2. prog.at # "idle" /\ foreign' = foreign /\ \A c \in Ctrls : server'[c].volumes = server[c].volumes
        BY <1>4, FailedRequestTasks, TimeOfNow DEF RequestFails
    <2> QED BY <2>1, <2>2, ApplyWhenItEnds DEF Results
<1>5. CASE TaskCompletes \/ TaskFails \/ Settle \/ OtherCreates \/ OtherDeletes \/ OtherSets
    BY <1>5, OutsideKeepsApply
<1>6. CASE UNCHANGED vars
    <2>1. UNCHANGED <<prog, server, tasks, history, last, foreign>> /\ Now' = Now
        BY <1>6 DEF vars, Now
    <2>2. TypeInv'
        BY <1>6, NextKeepsType
    <2>3. \A b \in Ctrls, time \in Nat : time <= Now => Keeps(b, time)
        BY <2>1, KeptAsTheyAre
    <2>4. IsFiniteSet(foreign')
        BY <2>1 DEF ApplyInv
    <2> QED BY <2>1, <2>2, <2>3, <2>4, OthersKeepApply
<1> QED BY <1>2, <1>3, <1>4, <1>5, <1>6 DEF Next, ServerStep

\* A cleared server has nothing but what the next operation makes.
LEMMA LatestFacts ==
    ASSUME TypeInv
    PROVE  /\ Latest \in Nat
           /\ prog.at = "idle" => Latest = Len(history) /\ Now = 2 * Latest
           /\ prog.at # "idle" => Latest = Len(history) + 1 /\ Now = 2 * Latest - 1
<1>1. PICK k \in Nat : k = Len(history)
    BY TimeOfNow
<1>2. k \in Nat
    BY <1>1
<1>3. /\ prog.at = "idle" => Latest = k /\ Now = 2 * k
      /\ prog.at # "idle" => Latest = k + 1 /\ Now = 2 * k + 1
    BY <1>1, <1>2, TimeOfNow DEF Latest
<1> QED BY <1>1, <1>2, <1>3

LEMMA LatestStays ==
    ASSUME TypeInv, TypeInv', history' = history, prog'.at = "idle" <=> prog.at = "idle"
    PROVE  Latest' = Latest
<1>1. prog' = Idle <=> prog = Idle
    BY DEF TypeInv, ProgOK, Idle
<1> QED BY <1>1 DEF Latest

LEMMA ClearedStays ==
    ASSUME ClearedInv, NEW k \in Nat, k = Latest, Latest' = k,
           \A i \in 1..(k - 1) : history'[i] = history[i],
           foreign \subseteq foreign',
           (\A f \in foreign' : f.time < 2 * (k - 1) - 1) =>
                /\ \A t \in tasks' : t \in tasks \/ t.since = 2 * k - 1
                /\ \A c \in Ctrls : \A v \in server'[c].volumes :
                        v \in server[c].volumes \/ (v.mine /\ \E t \in tasks : v.since = t.since)
    PROVE  ClearedInv'
<1> SUFFICES ASSUME k > 1, Cleared(k - 1)'
             PROVE  /\ \A t \in tasks' : t.since = 2 * k - 1
                    /\ \A c \in Ctrls : \A v \in server'[c].volumes : v.mine /\ v.since = 2 * k - 1
    BY DEF ClearedInv
<1>1. k - 1 \in 1..(k - 1)
    OBVIOUS
<1>2. history'[k - 1] = history[k - 1] /\ \A f \in foreign' : f.time < 2 * (k - 1) - 1
    BY <1>1 DEF Cleared, LeftAlone
<1>3. Cleared(k - 1)
    BY <1>2 DEF Cleared, LeftAlone
<1>4. /\ \A t \in tasks : t.since = 2 * k - 1
      /\ \A c \in Ctrls : \A v \in server[c].volumes : v.mine /\ v.since = 2 * k - 1
    BY <1>3 DEF ClearedInv
<1> QED BY <1>2, <1>4

LEMMA NextKeepsCleared ==
    ASSUME TypeInv, DeleteInv, ClearedInv, [Next]_vars, TypeInv'
    PROVE  ClearedInv'
<1>0. PICK k \in Nat : k = Latest
    BY LatestFacts
<1>1. ASSUME NEW op \in {"delete", "apply"}, NEW r \in Requests \cup {<<>>}, Start(op, r) PROVE ClearedInv'
    <2>1. prog.at = "idle" /\ prog'.at # "idle" /\ UNCHANGED <<server, tasks, history, foreign>>
        BY <1>1 DEF Start, Idle
    <2>2. Len(history) = k /\ Latest' = k + 1 /\ k + 1 - 1 = k
        <3>1. Len(history) = k /\ prog' # Idle
            BY <1>0, <2>1, LatestFacts DEF Idle
        <3>2. Latest' = k + 1
            BY <2>1, <3>1 DEF Latest
        <3> QED BY <1>0, <3>1, <3>2
    <2> SUFFICES ASSUME k + 1 > 1, Cleared(k)'
                 PROVE  tasks = {} /\ \A c \in Ctrls : server[c].volumes = {}
        BY <2>1, <2>2 DEF ClearedInv
    <2>3. Cleared(k)
        BY <2>1 DEF Cleared, LeftAlone
    <2>4. history # <<>> /\ prog = Idle
        <3>1. k # 0
            BY <1>0
        <3> QED BY <1>1, <2>2, <3>1, EmptySeq DEF Start
    <2>5. JustEnded("delete", "ok") /\ LastEnded.alone /\ LeftAlone(Len(history))
        BY <2>2, <2>3, <2>4 DEF Cleared, LeftAlone, JustEnded, LastEnded
    <2> QED BY <2>5 DEF DeleteInv, DeletedMeansGone
<1>2. CASE delete_all_raid_configuration \/ apply_raid_configuration
    BY <1>1, <1>2 DEF delete_all_raid_configuration, apply_raid_configuration
\* The steps of the program.
<1>3. ASSUME NEW r \in Results, NEW b, Ended(r, b), prog.at # "idle", foreign' = foreign,
             \A t \in tasks' : t \in tasks \/ t.since = Now,
             \A c \in Ctrls : server'[c].volumes = server[c].volumes
      PROVE  ClearedInv'
    <2>1. Len(history) = k - 1 /\ Now = 2 * k - 1
        <3>1. PICK l \in Nat : l = Len(history)
            BY TimeOfNow
        <3>2. k = l + 1 /\ Now = 2 * k - 1
            BY <1>0, <1>3, <3>1, LatestFacts
        <3>3. l \in Nat
            BY <3>1
        <3> QED BY <3>1, <3>2, <3>3
    <2>2. /\ prog' = Idle /\ Len(history') = k - 1 + 1 /\ \A i \in 1..(k - 1) : history'[i] = history[i]
        BY <1>3, <2>1, WhenItEnds
    <2>3. Latest' = k
        <3>1. Latest' = k - 1 + 1 + 0
            BY <2>2 DEF Latest
        <3> QED BY <1>0, <3>1
    <2> QED BY <1>0, <1>3, <2>1, <2>2, <2>3, ClearedStays
<1>4. ASSUME prog.at # "idle", prog'.at # "idle", history' = history, foreign' = foreign,
             \A t \in tasks' : t \in tasks \/ t.since = Now,
             \A c \in Ctrls : server'[c].volumes = server[c].volumes
      PROVE  ClearedInv'
    <2>1. Latest' = k /\ Now = 2 * k - 1
        BY <1>0, <1>4, LatestFacts, LatestStays
    <2> QED BY <1>0, <1>4, <2>1, ClearedStays
<1>5. CASE ProgramStep
    <2>1. CASE (\E r \in Results : End(r)) /\ UNCHANGED <<server, tasks, foreign>>
        BY <1>3, <1>5, <2>1, StepsOfProgram DEF End
    <2>2. ASSUME NEW d \in Drives, Asks(d) PROVE ClearedInv'
        <3>1. /\ prog.at # "idle" /\ prog'.at # "idle" /\ UNCHANGED <<server, history, foreign>>
            BY <2>2 DEF Asks, TypeInv, ProgOK
        <3>2. PICK t : t.since = Now /\ tasks' = tasks \cup {t}
            BY <2>2 DEF Asks
        <3> QED BY <1>4, <3>1, <3>2
    <2>3. CASE /\ UNCHANGED <<tasks, history, foreign>> /\ prog'.at # "idle"
               /\ \A c \in Ctrls : server'[c].volumes = server[c].volumes
        BY <1>4, <1>5, <2>3, StepsOfProgram
    <2> QED BY <1>5, <2>1, <2>2, <2>3, StepsOfProgram
<1>6. CASE RequestFails
    <2>1. PICK b \in BOOLEAN : Ended("error", b)
        BY <1>6, WhenARequestFails
    <2>2. \A t \in tasks' : t \in tasks \/ t.since = Now
        <3>1. CASE tasks' = tasks
            BY <3>1
        <3>2. CASE \E d \in prog.todo :
                    tasks' = tasks \cup {[ctrl |-> Current, op |-> prog.op, drive |-> d, since |-> Now]}
            <4>1. PICK t : t.since = Now /\ tasks' = tasks \cup {t}
                BY <3>2
            <4> QED BY <4>1
        <3> QED BY <1>6, <3>1, <3>2, FailedRequestTasks
    <2> QED BY <1>3, <1>6, <2>1, <2>2, FailedRequestTasks DEF Results
\* The steps of the server and of others.
<1>7. ASSUME history' = history, prog'.at = "idle" <=> prog.at = "idle", tasks' \subseteq tasks,
             foreign \subseteq foreign',
             \/ \E f \in foreign' : f.time = Now
             \/ \A c \in Ctrls : \A v \in server'[c].volumes :
                    v \in server[c].volumes \/ (v.mine /\ \E t \in tasks : v.since = t.since)
      PROVE  ClearedInv'
    <2>1. Latest' = k
        BY <1>0, <1>7, LatestStays
    <2>2. ~ (Now < 2 * (k - 1) - 1)
        <3>1. Now = 2 * k \/ Now = 2 * k - 1
            BY <1>0, LatestFacts
        <3>2. k \in Nat
            BY <1>0
        <3> QED BY <3>1, <3>2
    <2> QED BY <1>0, <1>7, <2>1, <2>2, ClearedStays
<1>8. ASSUME NEW t \in tasks, Completes(t) PROVE ClearedInv'
    <2>1. /\ history' = history /\ tasks' \subseteq tasks /\ foreign' = foreign
          /\ prog'.at = "idle" <=> prog.at = "idle"
        BY <1>8 DEF Completes, TypeInv, ProgOK
    <2>2. PICK n : n = [drive |-> t.drive, since |-> t.since, mine |-> TRUE]
        OBVIOUS
    <2>3. n.mine /\ n.since = t.since
        BY <2>2
    <2>4. \A v \in server'[t.ctrl].volumes : v \in server[t.ctrl].volumes \/ v = n
        BY <1>8, <2>2, CompletingFacts DEF Completed
    <2>5. \A c \in Ctrls : \A v \in server'[c].volumes : v \in server[c].volumes \/ v = n
        BY <1>8, <2>4, CompletingFacts
    <2> QED BY <1>7, <2>1, <2>3, <2>5
<1>9. ASSUME NEW t \in tasks, Fails(t) PROVE ClearedInv'
    <2>1. /\ UNCHANGED <<server, history, foreign>> /\ tasks' \subseteq tasks
          /\ prog'.at = "idle" <=> prog.at = "idle"
        BY <1>9 DEF Fails, TypeInv, ProgOK
    <2> QED BY <1>7, <2>1
<1>10. ASSUME NEW c \in Ctrls, NEW d \in Drives, Settles(c, d) \/ Creates(c, d) \/ Deletes(c, d)
       PROVE  ClearedInv'
    <2>1. UNCHANGED <<prog, tasks, history>> /\ foreign \subseteq foreign'
        BY <1>10 DEF Settles, Creates, Deletes, Noted
    <2>2. CASE Settles(c, d)
        <3>1. \A b \in Ctrls : server'[b].volumes = server[b].volumes
            BY <2>2, SettlingFacts
        <3> QED BY <1>7, <2>1, <3>1
    <2>3. CASE ~ Settles(c, d)
        <3>1. PICK f : f.time = Now /\ foreign' = foreign \cup {f}
            BY <1>10, <2>3 DEF Creates, Deletes, Noted
        <3> QED BY <1>7, <2>1, <3>1
    <2> QED BY <2>2, <2>3
<1>11. ASSUME NEW c \in Ctrls, Sets(c) PROVE ClearedInv'
    <2>1. UNCHANGED <<tasks, history>> /\ foreign \subseteq foreign' /\ prog'.at = prog.at
        BY <1>11 DEF Sets, Noted, TypeInv, ProgOK
    <2>2. PICK f : f.time = Now /\ foreign' = foreign \cup {f}
        BY <1>11 DEF Sets, Noted
    <2> QED BY <1>7, <2>1, <2>2
<1>12. CASE TaskCompletes \/ TaskFails \/ Settle \/ OtherCreates \/ OtherDeletes \/ OtherSets
    BY <1>8, <1>9, <1>10, <1>11, <1>12, OutsideSteps
<1>13. CASE UNCHANGED vars
    <2>1. UNCHANGED <<prog, server, tasks, history, foreign>>
        BY <1>13 DEF vars
    <2> QED BY <1>7, <2>1
<1> QED BY <1>2, <1>5, <1>6, <1>12, <1>13 DEF Next, ServerStep

\* The volumes made on a controller, counted.
LEMMA CountMade ==
    ASSUME TypeInv, TaskInv, IsFiniteSet(foreign), NEW c \in Ctrls, NEW time,
           NEW S \in SUBSET Drives, AsAsked(c, S, time),
           NEW F, F = {f \in foreign : f.did \in {<<"delete", c, d>> : d \in Drives} /\ f.time >= time}
    PROVE  Cardinality(Made(c, time)) \in (Cardinality(S) - Cardinality(F))..Cardinality(S)
<1> DEFINE M == Made(c, time)
           D == {v.drive : v \in M}
           L == {d \in S : TakenFrom(c, d, time)}
           G == {f \in F : f.did[3] \in L}
<1>1. IsFiniteSet(S) /\ IsFiniteSet(L) /\ IsFiniteSet(F) /\ IsFiniteSet(G) /\ Cardinality(G) <= Cardinality(F)
    <2>1. L \subseteq S /\ F \subseteq foreign /\ G \subseteq F
        OBVIOUS
    <2> HIDE DEF L, G
    <2> QED BY <2>1, RaidApplyAssumption, FS_Subset
<1>2. IsFiniteSet(M) /\ Cardinality(M) <= Cardinality(S)
    <2>1. \A v, w \in M : v.drive \in S /\ (v.drive = w.drive => v = w)
        BY DEF AsAsked, TaskInv, Made
    <2>2. [v \in M |-> v.drive] \in Injection(M, S)
        BY <2>1 DEF Injection, IsInjective
    <2> HIDE DEF M
    <2> QED BY <1>1, <2>2, FS_Injection
<1>3. IsFiniteSet(D) /\ Cardinality(D) <= Cardinality(M)
    <2>1. [v \in M |-> v.drive] \in Surjection(M, D)
        BY DEF Surjection
    <2> HIDE DEF M, D
    <2> QED BY <1>2, <2>1, FS_Surjection
<1>4. Cardinality(L) <= Cardinality(G)
    <2>1. ASSUME NEW d \in L PROVE \E f \in G : f.did[3] = d
        <3>1. PICK f \in foreign : f.did = <<"delete", c, d>> /\ f.time >= time
            BY DEF TakenFrom
        <3>2. d \in Drives /\ f.did[3] = d
            BY <3>1
        <3>3. f \in F
            BY <3>1, <3>2
        <3> QED BY <3>2, <3>3
    <2>2. [f \in G |-> f.did[3]] \in Surjection(G, L)
        BY <2>1 DEF Surjection
    <2> HIDE DEF G, L
    <2> QED BY <1>1, <2>2, FS_Surjection
<1>5. Cardinality(S) <= Cardinality(D) + Cardinality(L)
    <2>1. S \subseteq D \cup L
        BY DEF AsAsked
    <2> HIDE DEF D, L
    <2>2. /\ IsFiniteSet(D \cup L)
          /\ Cardinality(D \cup L) = Cardinality(D) + Cardinality(L) - Cardinality(D \cap L)
        BY <1>1, <1>3, FS_Union
    <2>3. Cardinality(S) <= Cardinality(D \cup L)
        BY <2>1, <2>2, FS_Subset
    <2>4. IsFiniteSet(D \cap L)
        <3>1. D \cap L \subseteq D
            OBVIOUS
        <3> QED BY <1>3, <3>1, FS_Subset
    <2>5. /\ Cardinality(S) \in Nat /\ Cardinality(D) \in Nat /\ Cardinality(L) \in Nat
          /\ Cardinality(D \cap L) \in Nat
        BY <1>1, <1>3, <2>4, FS_CardinalityType
    <2> QED BY <2>2, <2>3, <2>5
<1>6. /\ Cardinality(S) \in Nat /\ Cardinality(M) \in Nat /\ Cardinality(D) \in Nat
      /\ Cardinality(L) \in Nat /\ Cardinality(G) \in Nat /\ Cardinality(F) \in Nat
    <2> HIDE DEF M, D, L, G
    <2> QED BY <1>1, <1>2, <1>3, FS_CardinalityType
<1> HIDE DEF M, D, L, G
<1>7. Cardinality(S) - Cardinality(F) <= Cardinality(M)
    BY <1>1, <1>3, <1>4, <1>5, <1>6
<1>8. Cardinality(M) \in (Cardinality(S) - Cardinality(F))..Cardinality(S)
    BY <1>2, <1>6, <1>7
<1> QED BY <1>8 DEF M

LEMMA AppliedAsPromised ==
    ASSUME TypeInv, TaskInv, QuietInv, ApplyInv, ClearedInv
    PROVE  AppliedMeansAll
<1> SUFFICES ASSUME JustEnded("apply", "ok") PROVE AppliedMeansAll
    BY DEF AppliedMeansAll
<1>1. PICK n \in Nat : n = Len(history)
    BY TimeOfNow
<1>2. PICK r : r = last.request
    OBVIOUS
<1>3. PICK time : time = 2 * n - 1
    OBVIOUS
<1>4. prog = Idle /\ history # <<>> /\ LastEnded.op = "apply" /\ LastEnded.result = "ok" /\ Latest = n
    <2>1. Latest = n + 0
        BY <1>1 DEF JustEnded, Latest
    <2> QED BY <1>1, <2>1 DEF JustEnded
<1>5. ASSUME NEW c \in Grouped(r), Jbods(r, c) # {} PROVE server[c].jbod
    BY <1>2, <1>5 DEF ApplyInv, Finished
<1>6. ASSUME NEW c \in Grouped(r), Jbods(r, c) = {},
             NEW F, F = {f \in foreign : f.did \in {<<"delete", c, d>> : d \in Drives} /\ f.time >= time}
      PROVE  Cardinality(Made(c, time))
                \in (Cardinality(Group(r, c)) - Cardinality(F))..Cardinality(Group(r, c))
    <2>1. PICK S \in SUBSET Drives : Cardinality(S) = Cardinality(Group(r, c)) /\ AsAsked(c, S, time)
        BY <1>1, <1>2, <1>3, <1>6 DEF ApplyInv, Finished
    <2>2. c \in Ctrls /\ IsFiniteSet(foreign)
        BY DEF Grouped, ApplyInv
    <2> QED BY <1>6, <2>1, <2>2, CountMade
<1>7. ASSUME n > 1, Cleared(n - 1), NEW c \in Ctrls PROVE server[c].volumes = Made(c, time)
    <2>1. \A v \in server[c].volumes : v.mine /\ v.since = time
        BY <1>3, <1>4, <1>7 DEF ClearedInv
    <2> QED BY <2>1 DEF Made
<1>8. LeftAlone(n) => Quiet
    BY <1>1, <1>4 DEF QuietInv
<1>9. Grouped(r) \subseteq Ctrls
    BY DEF Grouped
<1> QED BY <1>1, <1>2, <1>3, <1>5, <1>6, <1>7, <1>8, <1>9 DEF AppliedMeansAll, Made, Cleared

\* When the first operation begins nothing has been made.
LEMMA InitApply == Init => ApplyInv
<1> SUFFICES ASSUME Init PROVE ApplyInv
    OBVIOUS
<1>1. prog = Idle /\ prog.op = "none" /\ prog.at = "idle" /\ history = <<>> /\ foreign = {}
    BY DEF Init, Idle
<1>2. \A c \in Ctrls : server[c].volumes = {[drive |-> d, since |-> 0, mine |-> FALSE] : d \in Old[c]}
    BY DEF Init
<1>3. Fresh
    BY <1>2 DEF Fresh
<1> QED BY <1>1, <1>3, FS_EmptySet DEF ApplyInv, JustEnded, AtCreate

\* After an application that reports no error every controller has the volumes
\* it was asked to have, all made by this operation, less what others have
\* deleted since; after a deletion of everything it has no others.  Left alone,
\* the server has finished.
THEOREM ApplicationsAreWhole == Spec => []AppliedMeansAll
<1>1. Init => ClearedInv
    <2>1. Init => Latest = 0
        BY EmptySeq DEF Init, Latest
    <2> QED BY <2>1 DEF ClearedInv
<1>2. Init => DeleteInv
    BY DEF Init, Idle, DeleteInv, DeletedMeansGone, JustEnded
<1>3. TypeInv /\ TaskInv /\ QuietInv /\ DeleteInv /\ ClearedInv /\ [Next]_vars => ClearedInv'
    BY NextKeepsType, NextKeepsCleared
<1> QED BY <1>1, <1>2, <1>3, InitType, InitTasks, InitQuiet, InitApply, NextKeepsType, NextKeepsTasks,
           NextKeepsQuiet, NextKeepsDelete, NextKeepsApply, AppliedAsPromised, PTL DEF Spec

----------------------------------------------------------------------------
(* An application that misses disks has too few.                            *)

\* What is not free on a controller, when the volumes of this time are not
\* counted.
TooFew(r, c, time) ==
    Cardinality(Drives \ (server[c].spares \cup {v.drive : v \in server[c].volumes \ Made(c, time)}))
        < Cardinality(Group(r, c))

LEMMA TooFewMeansNone ==
    NoDisksMeansNone <=>
        (JustEnded("apply", "no disks") /\ LeftAlone(Len(history)) =>
            \E c \in Grouped(last.request) : TooFew(last.request, c, 2 * Len(history) - 1))
<1>1. \A c, time : {v \in server[c].volumes : ~ (v.mine /\ v.since = time)} = server[c].volumes \ Made(c, time)
    BY DEF Made
<1> QED BY <1>1 DEF NoDisksMeansNone, TooFew

LEMMA OddTime ==
    \A k \in Nat : 2 * (k + 1) - 1 = 2 * k + 1 /\ 2 * k + 1 \in Nat /\ k # k + 1 /\ ~ (k < k)
OBVIOUS

\* The step at which it ends: all that there is has settled, and nothing of the
\* controller is of this operation.
LEMMA PlanMissesNone ==
    ASSUME TypeInv, QuietInv, ApplyInv, Plan, End("no disks")
    PROVE  NoDisksMeansNone'
<1>1. /\ prog.at = "controller" /\ prog.op = "apply" /\ prog.queue # <<>>
      /\ UNCHANGED <<server, foreign>> /\ "no disks" \in Results
    BY DEF Plan, Results
<1>2. PICK k \in Nat : k = Len(history)
    BY TimeOfNow
<1>3. PICK n : n = Now
    OBVIOUS
<1>4. /\ prog' = Idle /\ Len(history') = k + 1 /\ last'.request = prog.request
      /\ history'[k + 1] = [op |-> prog.op, result |-> "no disks", alone |-> prog.alone]
    <2>1. /\ prog' = Idle /\ Len(history') = k + 1
          /\ history'[k + 1] = [op |-> prog.op, result |-> "no disks", alone |-> prog.alone]
        BY <1>1, <1>2, WhenItEnds DEF End
    <2>2. last'.request = prog.request
        BY DEF End, Ended
    <2> QED BY <2>1, <2>2
<1>5. 2 * (k + 1) - 1 = n /\ n \in Nat
    <2>1. n = 2 * k + 1
        BY <1>1, <1>2, <1>3, TimeOfNow
    <2>2. 2 * (k + 1) - 1 = 2 * k + 1 /\ 2 * k + 1 \in Nat
        BY <1>2, OddTime
    <2> QED BY <2>1, <2>2
<1>6. PICK r : r = prog.request
    OBVIOUS
<1>7. PICK q \in Ctrls : q = Current /\ q \in Range(prog.queue)
    BY <1>1, CurrentFacts
<1>8. q \in Grouped(r) /\ Made(q, n) = {}
    BY <1>1, <1>3, <1>6, <1>7 DEF ApplyInv, Making, AtCreate
<1>9. ASSUME LeftAlone(Len(history))' PROVE TooFew(r, q, n)'
    <2>1. history'[k + 1].alone /\ \A f \in foreign : f.time < n
        <3>1. Len(history') = k + 1 /\ foreign' = foreign
            BY <1>1, <1>4
        <3> QED BY <1>5, <1>9, <3>1 DEF LeftAlone
    <2>2. prog.alone
        <3>1. PICK e : e = [op |-> prog.op, result |-> "no disks", alone |-> prog.alone]
            OBVIOUS
        <3>2. history'[k + 1] = e /\ e.alone = prog.alone
            BY <1>4, <3>1
        <3> QED BY <2>1, <3>2, Zenon
    <2>3. ~ Disturbed
        <3>1. \A f \in foreign : f.time # n
            BY <1>5, <2>1, OddTime, Zenon
        <3> QED BY <1>3, <3>1 DEF Disturbed
    <2>4. server[q].settling = {}
        BY <1>1, <2>2, <2>3 DEF QuietInv, Alone, Looked, Known, AtDelete, AtCreate
    <2>5. SeenFree(q) = Drives \ (server[q].spares \cup {v.drive : v \in server[q].volumes \ Made(q, n)})
        BY <1>8, <2>4 DEF SeenFree, Used
    <2>6. Cardinality(SeenFree(q)) < Cardinality(Group(r, q))
        <3>1. CASE Cardinality(SeenFree(Current)) < Cardinality(Group(prog.request, Current))
            BY <1>6, <1>7, <3>1
        <3>2. CASE ~ (Cardinality(SeenFree(Current)) < Cardinality(Group(prog.request, Current)))
            <4>1. history' = history
                BY <3>2 DEF Plan
            <4>2. k = k + 1
                BY <1>2, <1>4, <4>1
            <4> QED BY <1>2, <4>2, OddTime, Zenon
        <3> QED BY <3>1, <3>2
    <2>7. TooFew(r, q, n)
        BY <2>5, <2>6 DEF TooFew
    <2>8. server' = server /\ Group(r, q)' = Group(r, q)
        BY <1>1 DEF Group, controller
    <2> QED BY <2>7, <2>8 DEF TooFew, Made
<1>10. Grouped(last.request)' = Grouped(r) /\ last'.request = r /\ 2 * Len(history') - 1 = n
    <2>1. last'.request = r /\ 2 * Len(history') - 1 = n
        BY <1>4, <1>5, <1>6
    <2>2. Grouped(r)' = Grouped(r)
        BY DEF Grouped, Group, controller
    <2> QED BY <2>1, <2>2
<1>11. (\E c \in Grouped(last.request) : TooFew(last.request, c, 2 * Len(history) - 1))'
            \/ ~ LeftAlone(Len(history))'
    BY <1>8, <1>9, <1>10
<1>12. (NoDisksMeansNone <=>
            (JustEnded("apply", "no disks") /\ LeftAlone(Len(history)) =>
                \E c \in Grouped(last.request) : TooFew(last.request, c, 2 * Len(history) - 1)))'
    BY TooFewMeansNone, PTL
<1> QED BY <1>11, <1>12

\* An operation that goes on, or ends otherwise.
LEMMA NoDisksWhenItGoesOn ==
    ASSUME prog' # Idle
    PROVE  NoDisksMeansNone'
BY DEF NoDisksMeansNone, JustEnded

LEMMA NoDisksWhenItEnds ==
    ASSUME TypeInv, prog.at # "idle", NEW r \in Results, NEW b, Ended(r, b), r # "no disks"
    PROVE  NoDisksMeansNone'
<1>1. PICK k \in Nat : k = Len(history)
    BY TimeOfNow
<1>2. PICK e : e = [op |-> prog.op, result |-> r, alone |-> prog.alone]
    OBVIOUS
<1>3. LastEnded' = e /\ e.result = r
    <2>1. Len(history') = k + 1 /\ history'[k + 1] = e
        BY <1>1, <1>2, WhenItEnds
    <2>2. e.result = r
        BY <1>2
    <2> QED BY <2>1, <2>2, Zenon DEF LastEnded
<1> QED BY <1>3 DEF NoDisksMeansNone, JustEnded

\* Nothing changes afterwards, unless others change it.
LEMMA NoDisksStays ==
    ASSUME NoDisksMeansNone, UNCHANGED <<prog, history, last>>, foreign \subseteq foreign',
           \/ \E f \in foreign' : ~ (f.time < 2 * Len(history) - 1)
           \/ ~ (JustEnded("apply", "no disks") /\ LeftAlone(Len(history)))
           \/ \A c \in Ctrls : /\ server'[c].volumes = server[c].volumes
                               /\ server'[c].spares = server[c].spares
    PROVE  NoDisksMeansNone'
<1>1. PICK r : r = last.request
    OBVIOUS
<1>2. PICK m : m = 2 * Len(history) - 1
    OBVIOUS
<1>3. ASSUME JustEnded("apply", "no disks")', LeftAlone(Len(history))'
      PROVE  \E c \in Grouped(r) : TooFew(r, c, m)'
    <2>1. JustEnded("apply", "no disks") /\ LeftAlone(Len(history)) /\ \A f \in foreign' : f.time < m
        BY <1>2, <1>3 DEF JustEnded, LastEnded, LeftAlone
    <2>2. PICK c \in Grouped(r) : TooFew(r, c, m)
        BY <1>1, <1>2, <2>1, TooFewMeansNone
    <2>3. server'[c].volumes = server[c].volumes /\ server'[c].spares = server[c].spares
        BY <1>2, <2>1 DEF Grouped
    <2>4. Group(r, c)' = Group(r, c)
        BY DEF Group, controller
    <2>5. TooFew(r, c, m)'
        BY <2>2, <2>3, <2>4 DEF TooFew, Made
    <2> QED BY <2>5
<1>4. Grouped(last.request)' = Grouped(r) /\ last'.request = r /\ 2 * Len(history') - 1 = m
    <2>1. last'.request = r /\ 2 * Len(history') - 1 = m
        BY <1>1, <1>2
    <2>2. Grouped(r)' = Grouped(r)
        BY DEF Grouped, Group, controller
    <2> QED BY <2>1, <2>2
<1>5. (NoDisksMeansNone <=>
            (JustEnded("apply", "no disks") /\ LeftAlone(Len(history)) =>
                \E c \in Grouped(last.request) : TooFew(last.request, c, 2 * Len(history) - 1)))'
    BY TooFewMeansNone, PTL
<1> QED BY <1>3, <1>4, <1>5

LEMMA OutsideKeepsNoDisks ==
    ASSUME TypeInv, QuietInv, NoDisksMeansNone,
           TaskCompletes \/ TaskFails \/ Settle \/ OtherCreates \/ OtherDeletes \/ OtherSets
    PROVE  NoDisksMeansNone'
<1>1. CASE prog.at # "idle"
    <2>1. prog'.at # "idle"
        BY <1>1, OutsideOfRequests
    <2> QED BY <2>1, NoDisksWhenItGoesOn DEF Idle
<1>2. CASE prog.at = "idle"
    <2>1. ~ (Now < 2 * Len(history) - 1)
        <3>1. PICK k \in Nat : k = Len(history)
            BY TimeOfNow
        <3>2. Now = 2 * k
            BY <1>2, <3>1, TimeOfNow
        <3>3. k \in Nat
            BY <3>1
        <3> QED BY <3>1, <3>2, <3>3
    <2>2. ASSUME NEW t \in tasks, Completes(t) \/ Fails(t) PROVE NoDisksMeansNone'
        <3>1. UNCHANGED <<prog, history, last, foreign>>
            BY <1>2, <2>2 DEF Completes, Fails
        <3>2. ~ (JustEnded("apply", "no disks") /\ LeftAlone(Len(history)))
            BY DEF QuietInv, Quiet, JustEnded
        <3> QED BY <3>1, <3>2, NoDisksStays
    <2>3. ASSUME NEW c \in Ctrls, NEW d \in Drives, Settles(c, d) PROVE NoDisksMeansNone'
        <3>1. UNCHANGED <<prog, history, last, foreign>>
            BY <2>3 DEF Settles
        <3>2. \A b \in Ctrls : server'[b].volumes = server[b].volumes /\ server'[b].spares = server[b].spares
            BY <2>3, SettlingFacts
        <3> QED BY <3>1, <3>2, NoDisksStays
    <2>4. ASSUME UNCHANGED <<history, last>>, prog' = prog, NEW what, Noted(what) PROVE NoDisksMeansNone'
        <3>1. PICK f : f.time = Now /\ foreign' = foreign \cup {f}
            BY <2>4 DEF Noted
        <3> QED BY <2>1, <2>4, <3>1, NoDisksStays
    <2>5. ASSUME NEW c \in Ctrls, NEW d \in Drives, Creates(c, d) \/ Deletes(c, d) PROVE NoDisksMeansNone'
        BY <2>4, <2>5 DEF Creates, Deletes
    <2>6. ASSUME NEW c \in Ctrls, Sets(c) PROVE NoDisksMeansNone'
        <3>1. TypeInv' /\ prog'.at = "idle"
            BY <1>2, <2>6, SettingFacts DEF Sets, TypeInv, ProgOK
        <3>2. prog' = prog
            BY <1>2, <3>1 DEF TypeInv, ProgOK
        <3> QED BY <2>4, <2>6, <3>2 DEF Sets
    <2> QED BY <2>2, <2>3, <2>5, <2>6, OutsideSteps
<1> QED BY <1>1, <1>2

LEMMA NextKeepsNoDisks ==
    ASSUME TypeInv, QuietInv, ApplyInv, NoDisksMeansNone, [Next]_vars
    PROVE  NoDisksMeansNone'
<1>1. CASE delete_all_raid_configuration \/ apply_raid_configuration
    <2>1. prog'.at = "ready"
        BY <1>1, StartKeepsType DEF delete_all_raid_configuration, apply_raid_configuration
    <2> QED BY <2>1, NoDisksWhenItGoesOn DEF Idle
<1>2. CASE Plan
    <2>1. CASE End("no disks")
        BY <1>2, <2>1, PlanMissesNone
    <2>2. CASE ~ End("no disks")
        <3>1. \E S : prog' = [prog EXCEPT !.at = "create", !.todo = S, !.done = {}]
            BY <1>2, <2>2 DEF Plan
        <3>2. prog'.at = "create"
            BY <3>1 DEF TypeInv, ProgOK
        <3> QED BY <3>2, NoDisksWhenItGoesOn DEF Idle
    <2> QED BY <2>1, <2>2
<1>3. CASE RequestFails
    <2>1. PICK b \in BOOLEAN : Ended("error", b)
        BY <1>3, WhenARequestFails
    <2> QED BY <1>3, <2>1, FailedRequestTasks, NoDisksWhenItEnds DEF Results
<1>4. CASE ProgramStep /\ ~ Plan
    <2>1. history' = history \/ \E r \in Results : r # "no disks" /\ End(r)
        <3>1. CASE ListControllers \/ AllDone \/ DeleteNotSupported \/ TaskFailed
            BY <3>1 DEF ListControllers, AllDone, DeleteNotSupported, TaskFailed, Results
        <3>2. CASE DeleteVolume \/ SetJbod \/ CreateVolume
            BY <3>2 DEF DeleteVolume, SetJbod, CreateVolume, Results
        <3>3. CASE waiting_storage_ready \/ LoadVolumes \/ VolumesDeleted \/ RestoreDrive \/ VolumesCreated
                   \/ TaskDone
            BY <3>3 DEF waiting_storage_ready, LoadVolumes, VolumesDeleted, RestoreDrive, VolumesCreated,
                        TaskDone
        <3> QED BY <1>4, <3>1, <3>2, <3>3 DEF ProgramStep
    <2>2. prog.at # "idle"
        BY <1>4, StepsOfProgram
    <2>3. CASE \E r \in Results : r # "no disks" /\ End(r)
        BY <2>2, <2>3, NoDisksWhenItEnds DEF End
    <2>4. CASE history' = history
        <3>1. ~ (\E r \in Results : End(r))
            <4>1. ASSUME NEW r \in Results, End(r) PROVE FALSE
                <5>1. PICK k \in Nat : k = Len(history)
                    BY TimeOfNow
                <5>2. Len(history') = k + 1
                    BY <2>2, <4>1, <5>1, WhenItEnds DEF End
                <5>3. k = k + 1 /\ k \in Nat
                    BY <2>4, <5>1, <5>2
                <5> QED BY <5>3
            <4> QED BY <4>1
        <3>2. (\E d \in Drives : Asks(d)) => prog'.at = "wait"
            BY DEF Asks, TypeInv, ProgOK
        <3>3. prog'.at # "idle"
            BY <1>4, <3>1, <3>2, StepsOfProgram
        <3> QED BY <3>3, NoDisksWhenItGoesOn DEF Idle
    <2> QED BY <2>1, <2>3, <2>4
<1>5. CASE TaskCompletes \/ TaskFails \/ Settle \/ OtherCreates \/ OtherDeletes \/ OtherSets
    BY <1>5, OutsideKeepsNoDisks
<1>6. CASE UNCHANGED vars
    BY <1>6, NoDisksStays DEF vars
<1> QED BY <1>1, <1>2, <1>3, <1>4, <1>5, <1>6 DEF Next, ServerStep, ProgramStep

\* Disks that a deletion just before has freed are never missed: an application
\* that ends for want of disks, left alone, leaves a controller that really has
\* too few, not counting what it has made itself.
THEOREM NoDiskIsMissed == Spec => []NoDisksMeansNone
<1>1. Init => NoDisksMeansNone
    BY DEF Init, NoDisksMeansNone, JustEnded
<1>2. TypeInv /\ QuietInv /\ ApplyInv /\ NoDisksMeansNone /\ [Next]_vars => NoDisksMeansNone'
    BY NextKeepsNoDisks
<1> QED BY <1>1, <1>2, InitType, InitTasks, InitQuiet, InitApply, NextKeepsType, NextKeepsTasks,
           NextKeepsQuiet, NextKeepsApply, PTL DEF Spec
=============================================================================
