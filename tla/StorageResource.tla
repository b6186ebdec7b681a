-------------------------- MODULE StorageResource --------------------------
(***************************************************************************)
(* The Storage object a program holds for a controller                      *)
(* (resources/system/storage.py) and the Drive objects it hands out         *)
(* (resources/chassis/drive.py): they keep the document and the ETag of the *)
(* last response, and the lists of drives and volumes once these have been  *)
(* loaded, one request per member, while other programs go on changing the  *)
(* controller.                                                              *)
(*                                                                          *)
(* The server keeps every document as the sequence of its versions; the     *)
(* ETag is the number of the last one, so an object is described by its     *)
(* ETag alone.  A request is one step here: its delivery, and the one retry *)
(* after a 412 with the same ETag, are in module Connector.  A volume is    *)
(* the drive it lies on with a number, and the task that deletes it runs    *)
(* within the request (module VolumeTask).                                  *)
(***************************************************************************)
EXTENDS Naturals, Sequences, SequencesExt

CONSTANTS
    Drives,      \* the drives that may be in the server
    OldVolumes,  \* drives with a volume at the start
    OldSpares,   \* drives that are hot spares at the start
    MaxCalls,    \* bound: operations the program calls
    MaxChanges,  \* bound: changes by others
    MaxFaults    \* bound: requests of the program that fail

ASSUME StorageAssumption ==
    /\ "ctrl" \notin Drives     \* the name of the controller
    /\ OldVolumes \subseteq Drives /\ OldSpares \subseteq Drives \ OldVolumes
    /\ MaxCalls \in Nat /\ MaxChanges \in Nat /\ MaxFaults \in Nat

VARIABLES
    ctrl,     \* versions of the controller: [how, links]
    drive,    \* [Drives -> versions: [how, spare]]
    past,     \* the volumes after each creation or deletion, the last now
    storage,  \* the Storage object: [etag, drives, volumes]
    call,     \* the operation under way
    ended,    \* history: the operation that has just ended
    spent     \* [calls, changes, faults] so far

vars == <<ctrl, drive, past, storage, call, ended, spent>>
server == <<ctrl, drive, past>>

----------------------------------------------------------------------------
\* How a version came about: by the program's own set() that was answered
\* ("set"), by something else it asked for, or by others.
Hows == {"set", "lost", "restore", "delete", "other"}

NoDrives == [d \in {} |-> 0]

\* at: "drives", "list", "volumes", "restore", "delete" (loops over todo) or
\* "set", "action" (one request); got: drives loaded so far, with their ETags;
\* members: the volume collection as it was read.
Idle == [op |-> "none", at |-> "idle", force |-> FALSE, since |-> 0, todo |-> {},
         got |-> NoDrives, members |-> {}]

NoneEnded == [op |-> "none", outcome |-> "none", force |-> FALSE, since |-> 0,
              until |-> 0, on |-> "none", seen |-> 0]

Links == ctrl[storage.etag].links       \* 'Drives' of the document held
Present == Last(ctrl).links             \* drives the server has now
Volumes == Last(past)
UsedDrives == {v[1] : v \in Volumes}
IsSpare(d) == Last(drive[d]).spare

Init ==
    /\ ctrl = <<[how |-> "other", links |-> Drives]>>
    /\ drive = [d \in Drives |-> <<[how |-> "other", spare |-> d \in OldSpares]>>]
    /\ past = << {<<d, 0>> : d \in OldVolumes} >>
    /\ storage = [etag |-> 1, drives |-> NoDrives, volumes |-> {}]
    /\ call = Idle
    /\ ended = NoneEnded
    /\ spent = [calls |-> 0, changes |-> 0, faults |-> 0]

----------------------------------------------------------------------------
(* Documents on the server.                                                 *)

NextCtrl(how) == ctrl' = Append(ctrl, [Last(ctrl) EXCEPT !.how = how])

\* The drives of S get a new version, spare or not as before.
Touched(S, how) ==
    drive' = [d \in Drives |->
                IF d \in S THEN Append(drive[d], [Last(drive[d]) EXCEPT !.how = how])
                           ELSE drive[d]]

NextDrive(d, how, spare) ==
    drive' = [drive EXCEPT ![d] = Append(@, [how |-> how, spare |-> spare])]

----------------------------------------------------------------------------
(* The program.                                                             *)

Fault == spent.faults < MaxFaults /\ spent' = [spent EXCEPT !.faults = @ + 1]

\* The operation ends; a refused update names the document and the ETag sent.
EndOn(outcome, on, seen) ==
    /\ call' = Idle
    /\ ended' = [op |-> call.op, outcome |-> outcome, force |-> call.force,
                 since |-> call.since, until |-> Len(past), on |-> on, seen |-> seen]
End(outcome) == EndOn(outcome, "none", 0)

Start(op, at, force, todo) ==
    /\ call = Idle /\ spent.calls < MaxCalls
    /\ spent' = [spent EXCEPT !.calls = @ + 1]
    /\ call' = [Idle EXCEPT !.op = op, !.at = at, !.force = force, !.since = Len(past),
                            !.todo = todo]
    /\ ended' = NoneEnded
    /\ UNCHANGED <<server, storage>>

\* IBMCStorageClient.get: a new object for the controller.
get ==
    /\ call = Idle /\ spent.calls < MaxCalls
    /\ spent' = [spent EXCEPT !.calls = @ + 1]
    /\ storage' = [etag |-> Len(ctrl), drives |-> NoDrives, volumes |-> {}]
    /\ ended' = NoneEnded
    /\ UNCHANGED <<server, call>>

\* Where drives() goes on: back to its caller, a program or the loop of
\* delete_all_raid_configuration that restores each drive.
AfterDrives(op) == IF op = "restore drives" THEN "restore" ELSE "return"

\* An empty list is no better than none.
drives(op, force) ==
    IF ~ force /\ storage.drives # NoDrives
    THEN Start(op, AfterDrives(op), force, DOMAIN storage.drives)
    ELSE Start(op, "drives", force, Links)

With(got, d) == [c \in DOMAIN got \cup {d} |-> IF c = d THEN Len(drive[d]) ELSE got[c]]

LoadDrive ==
    /\ call.at = "drives"
    /\ \E d \in call.todo \cap Present :
         call' = [call EXCEPT !.todo = @ \ {d}, !.got = With(@, d)]
    /\ UNCHANGED <<server, storage, ended, spent>>

DriveNotFound ==
    /\ call.at = "drives" /\ ~ (call.todo \subseteq Present)
    /\ End("404")
    /\ UNCHANGED <<server, storage, spent>>

\* The list is kept when all drives have been loaded.
DrivesLoaded ==
    /\ call.at = "drives" /\ call.todo = {}
    /\ storage' = [storage EXCEPT !.drives = call.got]
    /\ call' = [call EXCEPT !.at = AfterDrives(call.op), !.todo = DOMAIN call.got]
    /\ UNCHANGED <<server, ended, spent>>

\* Mutant: what is cached is returned, whatever force_reload says.
volumes_Cached(force) ==
    IF storage.volumes # {} THEN Start("volumes", "return", force, {})
                            ELSE Start("volumes", "list", force, {})

volumes(force) ==
    IF ~ force /\ storage.volumes # {} THEN Start("volumes", "return", force, {})
                                       ELSE Start("volumes", "list", force, {})

delete_volume_collection == Start("delete", "list", FALSE, {})

\* The document of the collection, for volumes() or delete_volume_collection().
ListVolumes ==
    /\ call.at = "list"
    /\ call' = [call EXCEPT !.at = IF call.op = "delete" THEN "delete" ELSE "volumes",
                            !.todo = Volumes, !.members = Volumes]
    /\ UNCHANGED <<server, storage, ended, spent>>

\* Mutant: the list that is kept grows with each member.
LoadVolume_InPlace ==
    /\ call.at = "volumes"
    /\ \E v \in call.todo \cap Volumes :
         /\ call' = [call EXCEPT !.todo = @ \ {v}]
         /\ storage' = [storage EXCEPT !.volumes = (call.members \ call.todo) \cup {v}]
    /\ UNCHANGED <<server, ended, spent>>

\* A volume is known by its id alone, and the ids of the server are not used
\* again; the documents of the volumes are left out.
LoadVolume ==
    /\ call.at = "volumes"
    /\ \E v \in call.todo \cap Volumes : call' = [call EXCEPT !.todo = @ \ {v}]
    /\ UNCHANGED <<server, storage, ended, spent>>

\* Mutant: what is gone is asked for again and again.
VolumeNotFound_Again ==
    /\ call.at \in {"volumes", "delete"} /\ ~ (call.todo \subseteq Volumes)
    /\ UNCHANGED vars

\* A member was deleted since the collection was read.
VolumeNotFound ==
    /\ call.at \in {"volumes", "delete"} /\ ~ (call.todo \subseteq Volumes)
    /\ End("404")
    /\ UNCHANGED <<server, storage, spent>>

VolumesLoaded ==
    /\ call.at = "volumes" /\ call.todo = {}
    /\ storage' = [storage EXCEPT !.volumes = call.members]
    /\ End("ok")
    /\ UNCHANGED <<server, spent>>

\* DELETE of a member and its task, or with no answer: neither is undone.
DeleteVolume ==
    /\ call.at = "delete"
    /\ \E v \in call.todo \cap Volumes :
         /\ past' = Append(past, Volumes \ {v})
         /\ Touched({v[1]}, "delete")
         /\ \/ call' = [call EXCEPT !.todo = @ \ {v}] /\ UNCHANGED <<ended, spent>>
            \/ Fault /\ End("error")
    /\ UNCHANGED <<ctrl, storage>>

\* Mutant: the loop returns from within.
VolumesDeleted_First ==
    /\ call.at = "delete" /\ (call.todo = {} \/ call.todo # call.members)
    /\ End("ok")
    /\ UNCHANGED <<server, storage, spent>>

VolumesDeleted ==
    /\ call.at = "delete" /\ call.todo = {}
    /\ End("ok")
    /\ UNCHANGED <<server, storage, spent>>

\* Nothing to apply is an error before any request.
set ==
    \/ Start("set", "set", FALSE, {})
    \/ Start("set", "nothing", FALSE, {})

NothingToApply ==
    /\ call.at = "nothing"
    /\ End("NothingToApplyError")
    /\ UNCHANGED <<server, storage, spent>>

\* Mutant: refresh keeps the drives.
refresh_KeepsDrives(etag) == storage' = [storage EXCEPT !.etag = etag]

\* Mutant: the ETag is counted on.
refresh_CountsOn(etag) == storage' = [storage EXCEPT !.etag = etag + 1, !.drives = NoDrives]

\* BaseResource.refresh with Storage.extra_init_action: the cached drives are
\* dropped, the cached volumes are not.
refresh(etag) == storage' = [storage EXCEPT !.etag = etag, !.drives = NoDrives]

\* JBOD mode changes the documents of some drives, too.
Patch ==
    /\ call.at = "set" /\ storage.etag = Len(ctrl)
    /\ \E S \in SUBSET Present :
         \/ /\ NextCtrl("set") /\ Touched(S, "set")
            /\ refresh(Len(ctrl) + 1)
            /\ End("ok") /\ UNCHANGED spent
         \/ /\ NextCtrl("lost") /\ Touched(S, "lost")
            /\ Fault /\ End("error") /\ UNCHANGED storage
    /\ UNCHANGED past

PatchRefused ==
    /\ call.at = "set" /\ storage.etag # Len(ctrl)
    /\ EndOn("412", "ctrl", storage.etag)
    /\ UNCHANGED <<server, storage, spent>>

\* Storage.restore: a POST without an ETag, after which nothing is loaded.
restore == Start("restore", "action", FALSE, {})

RestoreDefaults ==
    /\ call.at = "action"
    /\ NextCtrl("restore") /\ Touched(Present, "restore")
    /\ \/ End("ok") /\ UNCHANGED spent
       \/ Fault /\ End("error")
    /\ UNCHANGED <<past, storage>>

\* Drive.restore for the next drive of the list: no request for one that the
\* program does not see as a hot spare.
SeenSpare(d) == drive[d][storage.drives[d]].spare

NothingToRestore ==
    /\ call.at = "restore"
    /\ \E d \in call.todo : ~ SeenSpare(d) /\ call' = [call EXCEPT !.todo = @ \ {d}]
    /\ UNCHANGED <<server, storage, ended, spent>>

\* Drive.set with the ETag of the Drive object, which is refreshed: the list
\* kept by the Storage object holds that very object.
RestoreDrive ==
    /\ call.at = "restore"
    /\ \E d \in call.todo \cap Present :
         /\ SeenSpare(d) /\ storage.drives[d] = Len(drive[d])
         /\ \/ /\ NextDrive(d, "set", FALSE)
               /\ storage' = [storage EXCEPT !.drives[d] = Len(drive[d]) + 1]
               /\ call' = [call EXCEPT !.todo = @ \ {d}]
               /\ UNCHANGED <<ended, spent>>
            \/ /\ NextDrive(d, "lost", FALSE)
               /\ Fault /\ End("error") /\ UNCHANGED storage
    /\ UNCHANGED <<ctrl, past>>

\* Mutant: a refused drive is passed over.
RestoreRefused_GoesOn ==
    /\ call.at = "restore"
    /\ \E d \in call.todo :
         /\ SeenSpare(d) /\ (d \in Present => storage.drives[d] # Len(drive[d]))
         /\ call' = [call EXCEPT !.todo = @ \ {d}]
    /\ UNCHANGED <<server, storage, ended, spent>>

\* Someone else, or another object of the program, was faster.
RestoreRefused ==
    /\ call.at = "restore"
    /\ \E d \in call.todo :
         /\ SeenSpare(d)
         /\ \/ d \in Present /\ storage.drives[d] # Len(drive[d])
               /\ EndOn("412", d, storage.drives[d])
            \/ d \notin Present /\ End("404")
    /\ UNCHANGED <<server, storage, spent>>

Return ==
    /\ call.at = "return" \/ (call.at = "restore" /\ call.todo = {})
    /\ End("ok")
    /\ UNCHANGED <<server, storage, spent>>

\* Is there a request to make in this state?
Requesting ==
    \/ call.at \in {"list", "set", "action"}
    \/ call.at \in {"drives", "volumes", "delete"} /\ call.todo # {}
    \/ call.at = "restore" /\ \E d \in call.todo : SeenSpare(d)

\* The request fails and has no effect; nothing that is kept changes.
RequestFails ==
    /\ Requesting
    /\ Fault /\ End("error")
    /\ UNCHANGED <<server, storage>>

----------------------------------------------------------------------------
(* Others: programs, administrators, people who pull drives.                *)

Other == /\ spent.changes < MaxChanges
         /\ spent' = [spent EXCEPT !.changes = @ + 1]
         /\ UNCHANGED <<storage, call, ended>>

OtherSets == Other /\ NextCtrl("other") /\ UNCHANGED <<drive, past>>

OtherPlugs ==
    /\ Other
    /\ \E d \in Drives :
         LET links == IF d \in Present THEN Present \ {d} ELSE Present \cup {d}
         IN  ctrl' = Append(ctrl, [how |-> "other", links |-> links])
    /\ UNCHANGED <<drive, past>>

OtherSpares ==
    /\ Other
    /\ \E d \in Present \ UsedDrives : NextDrive(d, "other", ~ IsSpare(d))
    /\ UNCHANGED <<ctrl, past>>

OtherCreates ==
    /\ Other
    /\ \E d \in Present \ UsedDrives :
         /\ ~ IsSpare(d)
         /\ past' = Append(past, Volumes \cup {<<d, Len(past)>>})
         /\ Touched({d}, "other")
    /\ UNCHANGED ctrl

OtherDeletes ==
    /\ Other
    /\ \E v \in Volumes : past' = Append(past, Volumes \ {v}) /\ Touched({v[1]}, "other")
    /\ UNCHANGED ctrl

----------------------------------------------------------------------------
Begin == \/ get \/ set \/ restore \/ delete_volume_collection
         \/ \E force \in BOOLEAN : drives("drives", force) \/ volumes(force)
         \/ drives("restore drives", FALSE)

Step == \/ LoadDrive \/ DriveNotFound \/ DrivesLoaded
        \/ ListVolumes \/ LoadVolume \/ VolumeNotFound \/ VolumesLoaded
        \/ DeleteVolume \/ VolumesDeleted
        \/ Patch \/ PatchRefused \/ NothingToApply \/ RestoreDefaults
        \/ NothingToRestore \/ RestoreDrive \/ RestoreRefused \/ Return

Others == OtherSets \/ OtherPlugs \/ OtherSpares \/ OtherCreates \/ OtherDeletes

Next == Begin \/ Step \/ RequestFails \/ Others

Spec == Init /\ [][Next]_vars /\ WF_vars(Step)

----------------------------------------------------------------------------
(* Properties.                                                              *)

VolumeIds == Drives \X Nat

\* Every variable holds a value of its kind, and no object is newer than the
\* document it was read from.
TypeOK ==
    /\ \A i \in DOMAIN ctrl : ctrl[i] \in [how : Hows, links : SUBSET Drives]
    /\ \A d \in Drives : \A i \in DOMAIN drive[d] : drive[d][i] \in [how : Hows, spare : BOOLEAN]
    /\ \A i \in DOMAIN past : past[i] \in SUBSET VolumeIds
    /\ storage.etag \in DOMAIN ctrl
    /\ \A d \in DOMAIN storage.drives : storage.drives[d] \in DOMAIN drive[d]
    /\ \A d \in DOMAIN call.got : call.got[d] \in DOMAIN drive[d]
    /\ call.todo \in (SUBSET Drives) \cup (SUBSET VolumeIds)
    /\ call.since \in 0 .. Len(past) /\ call.members \subseteq VolumeIds

\* volumes(force_reload=True) returns the volumes that were all there at one
\* moment of the call, although it reads them one by one while others create
\* and delete volumes; it raises when it can not.
VolumesAsOfCall ==
    call = Idle /\ ended.op = "volumes" /\ ended.outcome = "ok" /\ ended.force =>
        \E i \in ended.since .. ended.until : storage.volumes = past[i]

\* The lists an object keeps are never partial, whatever call that filled them
\* failed half-way: the drives are those its document names, the volumes those
\* of one moment (which the program may have changed since: only drives() is
\* told by refresh to look again).
CachesAreWhole ==
    /\ DOMAIN storage.drives \in {{}, Links}
    /\ storage.volumes \in {{}} \cup Range(past)

\* When the loop that restores the drives of a controller returns, none of the
\* drives in the list is a hot spare, except one that others made one after the
\* object last read or wrote it: although a drive is judged by a document that
\* may be old, and its update may be refused.
SparesAreGone ==
    call = Idle /\ ended.op = "restore drives" /\ ended.outcome = "ok" =>
        \A d \in DOMAIN storage.drives : IsSpare(d) =>
            \E i \in DOMAIN drive[d] :
                i > storage.drives[d] /\ drive[d][i].how = "other" /\ drive[d][i].spare

\* A program's update is refused for a stale ETag only if something it has not
\* seen the outcome of changed the document: others, a request without an
\* answer, restore(), or the deletion of a volume; its own set() never makes its
\* next update fail, although it changes the drives as well.
RefusedMeansUnseen ==
    ended.outcome = "412" =>
        LET versions == IF ended.on = "ctrl" THEN ctrl ELSE drive[ended.on]
        IN  \E i \in DOMAIN versions : i > ended.seen /\ versions[i].how # "set"

\* delete_volume_collection() returns only when none of the volumes is left
\* that were there when it was called.
DeletedAreGone ==
    call = Idle /\ ended.op = "delete" /\ ended.outcome = "ok" =>
        ~ \E v \in Volumes : \A i \in ended.since .. ended.until : v \in past[i]

\* Whatever others change in between, an operation on the object ends.
OperationsEnd == call # Idle ~> call = Idle
=============================================================================
