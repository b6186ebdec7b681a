----------------------- MODULE StorageResourceProofs -----------------------
(***************************************************************************)
(* Proofs about StorageResource: what a Storage object keeps is whole, what *)
(* its operations return is so, and its updates overwrite nothing unseen.   *)
(***************************************************************************)
EXTENDS StorageResource, SequenceTheorems, TLAPS

CtrlVersion == [how : Hows, links : SUBSET Drives]
DriveVersion == [how : Hows, spare : BOOLEAN]
Cache == UNION {[S -> Nat] : S \in SUBSET Drives}

CallRecord ==
    [op : {"none", "drives", "restore drives", "volumes", "delete", "set", "restore"},
     at : {"idle", "drives", "list", "volumes", "restore", "delete", "set", "nothing",
           "action", "return"},
     force : BOOLEAN, since : Nat, todo : (SUBSET Drives) \cup (SUBSET VolumeIds),
     got : Cache, members : SUBSET VolumeIds]
EndedRecord ==
    [op : {"none", "drives", "restore drives", "volumes", "delete", "set", "restore"},
     outcome : {"none", "ok", "404", "412", "error", "NothingToApplyError"},
     force : BOOLEAN, since : Nat, until : Nat, on : Drives \cup {"none", "ctrl"}, seen : Nat]

\* A drive that is a hot spare has been made one by others after version e.
SpareSince(e, s) ==
    s[Len(s)].spare => \E i \in DOMAIN s : i > e /\ s[i].how = "other" /\ s[i].spare

\* A drive's versions: only others make it a hot spare.
DriveVersions(s) == Len(s) >= 1 /\ \A e \in DOMAIN s : s[e].spare \/ SpareSince(e, s)

ServerOK ==
    /\ ctrl \in Seq(CtrlVersion) /\ Len(ctrl) >= 1
    /\ drive \in [Drives -> Seq(DriveVersion)] /\ \A d \in Drives : DriveVersions(drive[d])
    /\ past \in Seq(SUBSET VolumeIds) /\ Len(past) >= 1

\* Something the program has not seen the outcome of came after version e.
Unseen(e, s) == \E i \in DOMAIN s : i > e /\ s[i].how # "set"

\* An ETag is the last one, or something unseen came after it.
Known(e, s) == e \in DOMAIN s /\ (e = Len(s) \/ Unseen(e, s))

\* What the Storage object keeps.
ObjectOK(s) ==
    /\ s \in [etag : Nat, drives : Cache, volumes : SUBSET VolumeIds]
    /\ Known(s.etag, ctrl)
    /\ DOMAIN s.drives \in {{}, ctrl[s.etag].links}
    /\ \A d \in DOMAIN s.drives : Known(s.drives[d], drive[d])
    /\ s.volumes \in {{}} \cup Range(past)

\* There throughout, from the moment of past[i] to that of past[j].
Throughout(v, i, j) == \A n \in i .. j : v \in past[n]

\* Version e of a drive is not a hot spare.
Restored(e, s) == e \in DOMAIN s /\ ~ s[e].spare

\* Operation k under way on an object s.
CallOK(k, s) ==
    /\ k \in CallRecord
    /\ \A d \in DOMAIN k.got : k.got[d] \in DOMAIN drive[d]
    /\ k.since <= Len(past)
    /\ k.at # "idle" => k.since \in DOMAIN past /\ k.op # "none"
    /\ k.at = "idle" => k = Idle
    /\ k.at = "drives" => /\ k.op \in {"drives", "restore drives"} /\ k.todo \subseteq Drives
                          /\ k.todo \cup DOMAIN k.got = ctrl[s.etag].links
                          /\ \A d \in DOMAIN k.got : Known(k.got[d], drive[d])
    /\ k.at = "list" => k.op \in {"volumes", "delete"}
    /\ k.at = "volumes" => /\ k.op = "volumes" /\ k.todo \subseteq VolumeIds
                           /\ \E i \in k.since .. Len(past) : k.members = past[i]
    /\ k.at = "delete" => /\ k.op = "delete" /\ k.todo \subseteq VolumeIds
                          /\ \A v \in past[k.since] :
                                Throughout(v, k.since, Len(past)) => v \in k.todo
    /\ k.at = "restore" => /\ k.op = "restore drives" /\ k.todo \subseteq DOMAIN s.drives
                           /\ \A d \in DOMAIN s.drives \ k.todo : d \in Drives /\ Restored(s.drives[d], drive[d])
    /\ k.at = "return" => k.op = "drives" \/ (k.op = "volumes" /\ ~ k.force)
    /\ k.at \in {"set", "nothing"} => k.op = "set"
    /\ k.at = "action" => k.op = "restore"

\* Operation e that has just ended on an object s.
EndedOK(e, s) ==
    /\ e \in EndedRecord
    /\ e.until <= Len(past)
    /\ e.op # "none" => e.since \in DOMAIN past /\ e.since <= e.until
    /\ e.op = "volumes" /\ e.outcome = "ok" /\ e.force =>
          \E i \in e.since .. e.until : s.volumes = past[i]
    /\ e.op = "delete" /\ e.outcome = "ok" =>
          \A v \in past[e.since] : ~ Throughout(v, e.since, e.until)
    /\ e.outcome = "412" =>
          /\ e.on \in Drives \cup {"ctrl"}
          /\ Unseen(e.seen, IF e.on = "ctrl" THEN ctrl ELSE drive[e.on])
    /\ e.op = "restore drives" /\ e.outcome = "ok" =>
          \A d \in DOMAIN s.drives : d \in Drives /\ Restored(s.drives[d], drive[d])
    /\ e.op = "none" => e.outcome = "none"

StorageInv ==
    /\ ServerOK
    /\ ObjectOK(storage)
    /\ CallOK(call, storage)
    /\ EndedOK(ended, storage)
    /\ call = Idle \/ ended = NoneEnded

----------------------------------------------------------------------------
(* Versions.                                                                *)

\* s is the beginning of t, and what t adds is not the program's own set().
Grows(s, t) == DOMAIN s \subseteq DOMAIN t /\ \A i \in DOMAIN s : t[i] = s[i]
Quiet(s, t) == \A i \in DOMAIN t \ DOMAIN s : t[i].how # "set"

ServerGrows == /\ Grows(ctrl, ctrl') /\ Grows(past, past')
               /\ \A d \in Drives : Grows(drive[d], drive'[d])
ServerQuiet == Quiet(ctrl, ctrl') /\ \A d \in Drives : Quiet(drive[d], drive'[d])

LEMMA Appended ==
    ASSUME NEW V, NEW s \in Seq(V), NEW e \in V
    PROVE  /\ Append(s, e) \in Seq(V) /\ Len(Append(s, e)) = Len(s) + 1
           /\ Append(s, e)[Len(s) + 1] = e
           /\ Grows(s, Append(s, e))
           /\ \A i \in DOMAIN Append(s, e) : i \in DOMAIN s \/ i = Len(s) + 1
BY DEF Grows

LEMMA VersionAdded ==
    ASSUME NEW V, NEW s \in Seq(V), NEW e \in V
    PROVE  /\ Append(s, e) \in Seq(V) /\ Len(Append(s, e)) >= 1 /\ Grows(s, Append(s, e))
           /\ e.how # "set" => Quiet(s, Append(s, e))
<1> DEFINE t == Append(s, e)
<1>1. /\ t \in Seq(V) /\ Len(t) = Len(s) + 1 /\ t[Len(s) + 1] = e /\ Grows(s, t)
      /\ \A i \in DOMAIN t : i \in DOMAIN s \/ i = Len(s) + 1
  BY Appended
<1>2. Len(s) \in Nat
  OBVIOUS
<1> HIDE DEF t
<1>3. e.how # "set" => Quiet(s, t)
  BY <1>1 DEF Quiet
<1> QED
  BY <1>1, <1>2, <1>3 DEF t

\* Only others make a drive a hot spare.
LEMMA DriveVersionAdded ==
    ASSUME NEW s \in Seq(DriveVersion), DriveVersions(s), NEW e \in DriveVersion,
           e.spare => e.how = "other" \/ s[Len(s)].spare
    PROVE  DriveVersions(Append(s, e))
<1> DEFINE t == Append(s, e)
<1>1. /\ t \in Seq(DriveVersion) /\ Len(t) = Len(s) + 1 /\ t[Len(s) + 1] = e /\ Grows(s, t)
      /\ \A i \in DOMAIN t : i \in DOMAIN s \/ i = Len(s) + 1
  BY Appended
<1>2. /\ Len(s) \in Nat /\ DOMAIN s = 1 .. Len(s) /\ Len(t) >= 1 /\ Len(s) + 1 \in DOMAIN t
      /\ \A i \in DOMAIN s : i < Len(s) + 1
  BY <1>1
<1> HIDE DEF t
<1>3. ASSUME NEW m \in DOMAIN s, ~ s[m].spare, e.spare
      PROVE  \E i \in DOMAIN t : i > m /\ t[i].how = "other" /\ t[i].spare
  <2>1. CASE e.how = "other"
    BY <1>1, <1>2, <1>3, <2>1
  <2>2. CASE s[Len(s)].spare
    <3>1. PICK i \in DOMAIN s : i > m /\ s[i].how = "other" /\ s[i].spare
      BY <1>3, <2>2 DEF DriveVersions, SpareSince
    <3> QED
      BY <1>1, <3>1 DEF Grows
  <2> QED
    BY <1>3, <2>1, <2>2
<1>4. ASSUME NEW m \in DOMAIN t PROVE t[m].spare \/ SpareSince(m, t)
  <2>1. CASE m = Len(s) + 1
    BY <1>1, <2>1 DEF SpareSince
  <2>2. CASE m \in DOMAIN s
    BY <1>1, <1>3, <2>2 DEF SpareSince, Grows
  <2> QED
    BY <1>1, <2>1, <2>2
<1>5. DriveVersions(t)
  BY <1>2, <1>4 DEF DriveVersions
<1> QED
  BY <1>5 DEF t

\* An ETag stays known when something unseen comes after it.
LEMMA KnownStays ==
    ASSUME NEW V, NEW s \in Seq(V), NEW t \in Seq(V), Grows(s, t), Quiet(s, t),
           NEW e, Known(e, s)
    PROVE  Known(e, t)
<1>1. /\ DOMAIN s = 1 .. Len(s) /\ DOMAIN t = 1 .. Len(t) /\ Len(s) \in Nat /\ Len(t) \in Nat
      /\ e \in DOMAIN s /\ e \in DOMAIN t /\ e \in Nat /\ Len(s) <= Len(t)
  <2>1. /\ DOMAIN s = 1 .. Len(s) /\ DOMAIN t = 1 .. Len(t) /\ Len(s) \in Nat /\ Len(t) \in Nat
        /\ e \in DOMAIN s /\ e \in DOMAIN t
    BY DEF Known, Grows
  <2>2. Len(s) \in DOMAIN s
    BY <2>1
  <2>3. Len(s) \in DOMAIN t
    BY <2>2 DEF Grows
  <2> QED
    BY <2>1, <2>3
<1>2. CASE e = Len(s) /\ Len(s) < Len(t)
  <2>1. Len(s) + 1 \in DOMAIN t \ DOMAIN s /\ Len(s) + 1 > e
    BY <1>1, <1>2
  <2>2. t[Len(s) + 1].how # "set"
    BY <2>1 DEF Quiet
  <2>3. Unseen(e, t)
    BY <2>1, <2>2 DEF Unseen
  <2> QED
    BY <1>1, <2>3 DEF Known
<1>3. CASE e = Len(s) /\ Len(s) = Len(t)
  BY <1>1, <1>3 DEF Known
<1>4. CASE Unseen(e, s)
  BY <1>1, <1>4 DEF Known, Unseen, Grows
<1>5. e = Len(s) \/ Unseen(e, s)
  BY DEF Known
<1>6. Len(s) < Len(t) \/ Len(s) = Len(t)
  <2>1. \A m, n \in Nat : m <= n => m < n \/ m = n
    OBVIOUS
  <2> QED
    BY <1>1, <2>1, Zenon
<1> QED
  BY <1>2, <1>3, <1>4, <1>5, <1>6

LEMMA UnseenStays ==
    ASSUME NEW s, NEW t, Grows(s, t), NEW e, Unseen(e, s)
    PROVE  Unseen(e, t)
BY DEF Unseen, Grows

LEMMA RestoredStays ==
    ASSUME NEW s, NEW t, Grows(s, t), NEW e, Restored(e, s)
    PROVE  Restored(e, t)
BY DEF Restored, Grows

----------------------------------------------------------------------------
(* What the requests do to the server.                                      *)

LEMMA LastVersions ==
    ASSUME ServerOK
    PROVE  /\ Last(ctrl) \in CtrlVersion
           /\ \A d \in Drives : Last(drive[d]) \in DriveVersion
           /\ Volumes \in SUBSET VolumeIds
           /\ Present \subseteq Drives
<1>1. Last(ctrl) \in CtrlVersion
  BY DEF ServerOK, Last
<1>2. ASSUME NEW d \in Drives PROVE Last(drive[d]) \in DriveVersion
  <2>1. drive[d] \in Seq(DriveVersion) /\ Len(drive[d]) >= 1
    BY DEF ServerOK, DriveVersions
  <2> QED
    BY <2>1 DEF Last
<1>3. Volumes \in SUBSET VolumeIds
  BY DEF ServerOK, Last, Volumes
<1> QED
  BY <1>1, <1>2, <1>3 DEF Present, CtrlVersion

LEMMA CtrlAdded ==
    ASSUME ServerOK, NEW e \in CtrlVersion, ctrl' = Append(ctrl, e)
    PROVE  /\ ctrl' \in Seq(CtrlVersion) /\ Len(ctrl') >= 1 /\ Grows(ctrl, ctrl')
           /\ Len(ctrl') = Len(ctrl) + 1
           /\ e.how # "set" => Quiet(ctrl, ctrl')
<1>1. ctrl \in Seq(CtrlVersion)
  BY DEF ServerOK
<1> QED
  BY <1>1, VersionAdded, Appended

LEMMA NextCtrlOK ==
    ASSUME ServerOK, NEW how \in Hows, NextCtrl(how)
    PROVE  /\ ctrl' \in Seq(CtrlVersion) /\ Len(ctrl') >= 1 /\ Grows(ctrl, ctrl')
           /\ Len(ctrl') = Len(ctrl) + 1
           /\ how # "set" => Quiet(ctrl, ctrl')
<1> DEFINE e == [Last(ctrl) EXCEPT !.how = how]
<1>1. e \in CtrlVersion /\ e.how = how
  BY LastVersions DEF CtrlVersion
<1>2. ctrl' = Append(ctrl, e)
  BY DEF NextCtrl
<1> HIDE DEF e
<1> QED
  BY <1>1, <1>2, CtrlAdded

LEMMA TouchedOK ==
    ASSUME ServerOK, NEW S, NEW how \in Hows, Touched(S, how)
    PROVE  /\ drive' \in [Drives -> Seq(DriveVersion)]
           /\ \A d \in Drives : DriveVersions(drive'[d]) /\ Grows(drive[d], drive'[d])
           /\ how # "set" => \A d \in Drives : Quiet(drive[d], drive'[d])
<1>1. ASSUME NEW d \in Drives
      PROVE  /\ drive'[d] \in Seq(DriveVersion) /\ DriveVersions(drive'[d])
             /\ Grows(drive[d], drive'[d])
             /\ how # "set" => Quiet(drive[d], drive'[d])
  <2> DEFINE e == [Last(drive[d]) EXCEPT !.how = how]
  <2>1. e \in DriveVersion /\ e.how = how /\ e.spare = drive[d][Len(drive[d])].spare
    BY LastVersions DEF DriveVersion, Last
  <2>2. drive[d] \in Seq(DriveVersion) /\ DriveVersions(drive[d])
    BY DEF ServerOK
  <2>3. drive'[d] = drive[d] \/ drive'[d] = Append(drive[d], e)
    BY DEF Touched
  <2> HIDE DEF e
  <2>4. CASE drive'[d] = drive[d]
    BY <2>2, <2>4 DEF Grows, Quiet
  <2>5. CASE drive'[d] = Append(drive[d], e)
    BY <2>1, <2>2, <2>5, VersionAdded, DriveVersionAdded
  <2> QED
    BY <2>3, <2>4, <2>5
<1>2. drive' = [d \in Drives |-> drive'[d]]
  BY DEF Touched
<1> QED
  BY <1>1, <1>2

LEMMA NextDriveOK ==
    ASSUME ServerOK, NEW d \in Drives, NEW how \in Hows, NEW spare \in BOOLEAN,
           spare => how = "other", NextDrive(d, how, spare)
    PROVE  /\ drive' \in [Drives -> Seq(DriveVersion)]
           /\ \A c \in Drives : DriveVersions(drive'[c]) /\ Grows(drive[c], drive'[c])
           /\ \A c \in Drives \ {d} : drive'[c] = drive[c]
           /\ Len(drive'[d]) = Len(drive[d]) + 1
           /\ drive'[d][Len(drive[d]) + 1].spare = spare
           /\ how # "set" => \A c \in Drives : Quiet(drive[c], drive'[c])
<1> DEFINE e == [how |-> how, spare |-> spare]
<1>1. drive[d] \in Seq(DriveVersion) /\ DriveVersions(drive[d])
  BY DEF ServerOK
<1>2. e \in DriveVersion /\ e.how = how /\ e.spare = spare
  BY DEF DriveVersion
<1>3. drive' = [drive EXCEPT ![d] = Append(drive[d], e)]
  BY DEF NextDrive
<1> HIDE DEF e
<1>4. /\ Append(drive[d], e) \in Seq(DriveVersion) /\ DriveVersions(Append(drive[d], e))
      /\ Grows(drive[d], Append(drive[d], e)) /\ Len(Append(drive[d], e)) = Len(drive[d]) + 1
      /\ Append(drive[d], e)[Len(drive[d]) + 1] = e
      /\ how # "set" => Quiet(drive[d], Append(drive[d], e))
  BY <1>1, <1>2, VersionAdded, DriveVersionAdded, Appended
<1>5. drive \in [Drives -> Seq(DriveVersion)] /\ \A c \in Drives : DriveVersions(drive[c])
  BY DEF ServerOK
<1>6. \A c \in Drives : Grows(drive[c], drive[c]) /\ Quiet(drive[c], drive[c])
  BY DEF Grows, Quiet
<1> QED
  BY <1>2, <1>3, <1>4, <1>5, <1>6

LEMMA PastOK ==
    ASSUME ServerOK, NEW V \in SUBSET VolumeIds, past' = Append(past, V)
    PROVE  /\ past' \in Seq(SUBSET VolumeIds) /\ Len(past') = Len(past) + 1
           /\ Grows(past, past') /\ past'[Len(past) + 1] = V
<1>1. past \in Seq(SUBSET VolumeIds)
  BY DEF ServerOK
<1> QED
  BY <1>1, Appended

----------------------------------------------------------------------------
(* What is kept stays true while the server goes on.                        *)

LEMMA CacheDomain == ASSUME NEW f \in Cache PROVE DOMAIN f \subseteq Drives
BY DEF Cache

LEMMA PastGrows ==
    ASSUME ServerOK, ServerOK', Grows(past, past')
    PROVE  /\ Len(past) \in Nat /\ Len(past') \in Nat /\ Len(past) <= Len(past')
           /\ DOMAIN past = 1 .. Len(past) /\ DOMAIN past' = 1 .. Len(past')
           /\ \A i \in DOMAIN past : i \in DOMAIN past' /\ past'[i] = past[i]
           /\ \A n \in Nat : n <= Len(past) => n <= Len(past')
<1>1. /\ Len(past) \in Nat /\ Len(past') \in Nat
      /\ DOMAIN past = 1 .. Len(past) /\ DOMAIN past' = 1 .. Len(past')
      /\ Len(past) \in DOMAIN past
  BY DEF ServerOK
<1>2. \A i \in DOMAIN past : i \in DOMAIN past' /\ past'[i] = past[i]
  BY DEF Grows
<1>3. Len(past) \in 1 .. Len(past')
  BY <1>1, <1>2
<1>4. \A l, m, n \in Nat : n <= l /\ l \in 1 .. m => n <= m
  OBVIOUS
<1>5. \A n \in Nat : n <= Len(past) => n <= Len(past')
  BY <1>1, <1>3, <1>4, Zenon
<1> QED
  BY <1>1, <1>2, <1>3, <1>5

LEMMA ObjectStays ==
    ASSUME ServerOK, ServerOK', ServerGrows, ServerQuiet, NEW s, ObjectOK(s)
    PROVE  ObjectOK(s)'
<1>1. s.drives \in Cache /\ DOMAIN s.drives \subseteq Drives
  BY CacheDomain DEF ObjectOK
<1>2. Known(s.etag, ctrl') /\ ctrl'[s.etag] = ctrl[s.etag]
  BY KnownStays DEF ObjectOK, ServerOK, ServerGrows, ServerQuiet, Grows, Known
<1>3. ASSUME NEW d \in DOMAIN s.drives PROVE Known(s.drives[d], drive'[d])
  <2>1. d \in Drives
    BY <1>1
  <2>2. /\ drive[d] \in Seq(DriveVersion) /\ drive'[d] \in Seq(DriveVersion)
        /\ Grows(drive[d], drive'[d]) /\ Quiet(drive[d], drive'[d])
    BY <2>1 DEF ServerOK, ServerGrows, ServerQuiet
  <2>3. Known(s.drives[d], drive[d])
    BY DEF ObjectOK
  <2> QED
    BY <2>2, <2>3, KnownStays
<1>4. Range(past) \subseteq Range(past')
  BY DEF Range, ServerGrows, Grows
<1> QED
  BY <1>1, <1>2, <1>3, <1>4 DEF ObjectOK

\* The program's own updates come when it is not loading drives.
LEMMA CallStays ==
    ASSUME ServerOK, ServerOK', ServerGrows, NEW s, ObjectOK(s), NEW k, CallOK(k, s),
           k.at = "drives" => ServerQuiet
    PROVE  CallOK(k, s)'
<1>1. /\ Len(past) \in Nat /\ Len(past') \in Nat /\ Len(past) <= Len(past')
      /\ DOMAIN past = 1 .. Len(past) /\ DOMAIN past' = 1 .. Len(past')
      /\ \A i \in DOMAIN past : i \in DOMAIN past' /\ past'[i] = past[i]
  BY PastGrows DEF ServerGrows
<1>2. k \in CallRecord /\ k.since \in Nat /\ DOMAIN k.got \subseteq Drives
  BY CacheDomain DEF CallOK, CallRecord
<1>3. \A d \in DOMAIN k.got : k.got[d] \in DOMAIN drive'[d]
  BY <1>2 DEF CallOK, ServerGrows, Grows
<1>4. k.since <= Len(past') /\ (k.at # "idle" => k.since \in DOMAIN past' /\ k.op # "none")
  <2>1. k.since <= Len(past) /\ (k.at # "idle" => k.since \in DOMAIN past /\ k.op # "none")
    BY DEF CallOK
  <2>2. k.since <= Len(past')
    BY <1>2, <2>1, PastGrows, Zenon DEF ServerGrows
  <2> QED
    BY <1>1, <2>1, <2>2
<1>5. ASSUME k.at = "drives"
      PROVE  /\ k.todo \cup DOMAIN k.got = ctrl'[s.etag].links
             /\ \A d \in DOMAIN k.got : Known(k.got[d], drive'[d])
  <2>1. ctrl'[s.etag] = ctrl[s.etag]
    BY DEF ObjectOK, Known, ServerGrows, Grows
  <2>2. ASSUME NEW d \in DOMAIN k.got PROVE Known(k.got[d], drive'[d])
    <3>1. d \in Drives
      BY <1>2
    <3>2. /\ drive[d] \in Seq(DriveVersion) /\ drive'[d] \in Seq(DriveVersion)
          /\ Grows(drive[d], drive'[d]) /\ Quiet(drive[d], drive'[d])
      BY <1>5, <3>1 DEF ServerOK, ServerGrows, ServerQuiet
    <3>3. Known(k.got[d], drive[d])
      BY <1>5 DEF CallOK
    <3> QED
      BY <3>2, <3>3, KnownStays
  <2> QED
    BY <1>5, <2>1, <2>2 DEF CallOK
<1>6. ASSUME k.at = "volumes" PROVE \E i \in k.since .. Len(past') : k.members = past'[i]
  <2>1. PICK i \in k.since .. Len(past) : k.members = past[i]
    BY <1>6 DEF CallOK
  <2>2. i \in DOMAIN past /\ i \in k.since .. Len(past')
    BY <1>1, <1>2, <1>6 DEF CallOK
  <2> QED
    BY <1>1, <2>1, <2>2
<1>7. ASSUME k.at = "delete", NEW v \in past'[k.since], Throughout(v, k.since, Len(past))'
      PROVE  v \in k.todo
  <2>1. k.since \in DOMAIN past
    BY <1>7 DEF CallOK
  <2>2. \A n \in k.since .. Len(past) : n \in k.since .. Len(past') /\ n \in DOMAIN past
    BY <1>1, <1>2, <2>1
  <2>3. Throughout(v, k.since, Len(past)) /\ v \in past[k.since]
    BY <1>1, <1>7, <2>1, <2>2 DEF Throughout
  <2> QED
    BY <1>7, <2>3 DEF CallOK
<1>8. ASSUME k.at = "restore", NEW d \in DOMAIN s.drives \ k.todo
      PROVE  d \in Drives /\ Restored(s.drives[d], drive'[d])
  BY <1>8, RestoredStays DEF CallOK, ServerGrows
<1> QED
  BY <1>2, <1>3, <1>4, <1>5, <1>6, <1>7, <1>8 DEF CallOK

LEMMA EndedStays ==
    ASSUME ServerOK, ServerOK', ServerGrows, NEW s, NEW e, EndedOK(e, s)
    PROVE  EndedOK(e, s)'
<1>1. /\ Len(past) \in Nat /\ Len(past') \in Nat /\ Len(past) <= Len(past')
      /\ DOMAIN past = 1 .. Len(past) /\ DOMAIN past' = 1 .. Len(past')
      /\ \A i \in DOMAIN past : i \in DOMAIN past' /\ past'[i] = past[i]
  BY PastGrows DEF ServerGrows
<1>2. e \in EndedRecord /\ e.since \in Nat /\ e.until \in Nat /\ e.until <= Len(past')
  <2>1. e \in EndedRecord /\ e.since \in Nat /\ e.until \in Nat /\ e.until <= Len(past)
    BY DEF EndedOK, EndedRecord
  <2>2. e.until <= Len(past')
    BY <2>1, PastGrows, Zenon DEF ServerGrows
  <2> QED
    BY <2>1, <2>2
<1>3. e.op # "none" => /\ e.since \in DOMAIN past
                       /\ \A i \in e.since .. e.until : i \in DOMAIN past
  <2>1. e.until <= Len(past) /\ (e.op # "none" => e.since \in DOMAIN past)
    BY DEF EndedOK
  <2> QED
    BY <1>1, <1>2, <2>1
<1>4. ASSUME e.op = "volumes", e.outcome = "ok", e.force
      PROVE  \E i \in e.since .. e.until : s.volumes = past'[i]
  BY <1>1, <1>3, <1>4 DEF EndedOK
<1>5. ASSUME e.op = "delete", e.outcome = "ok", NEW v \in past'[e.since]
      PROVE  ~ Throughout(v, e.since, e.until)'
  BY <1>1, <1>3, <1>5 DEF EndedOK, Throughout
<1>6. ASSUME e.outcome = "412"
      PROVE  e.on \in Drives \cup {"ctrl"} /\ Unseen(e.seen, IF e.on = "ctrl" THEN ctrl' ELSE drive'[e.on])
  BY <1>2, <1>6, UnseenStays DEF EndedOK, EndedRecord, ServerGrows
<1>7. ASSUME e.op = "restore drives", e.outcome = "ok", NEW d \in DOMAIN s.drives
      PROVE  d \in Drives /\ Restored(s.drives[d], drive'[d])
  BY <1>7, RestoredStays DEF EndedOK, ServerGrows
<1> QED
  BY <1>1, <1>2, <1>3, <1>4, <1>5, <1>6, <1>7 DEF EndedOK

----------------------------------------------------------------------------
(* How an operation begins, goes on and ends.                               *)

LEMMA ServerSame ==
    ASSUME ServerOK, UNCHANGED server
    PROVE  ServerOK' /\ ServerGrows /\ ServerQuiet
<1>1. ctrl' = ctrl /\ drive' = drive /\ past' = past
  BY DEF server
<1> QED
  BY <1>1 DEF ServerOK, ServerGrows, ServerQuiet, Grows, Quiet

LEMMA IdleOK ==
    ASSUME ServerOK'
    PROVE  /\ Idle \in CallRecord /\ NoDrives \in Cache /\ DOMAIN NoDrives = {}
           /\ \A s : CallOK(Idle, s)' /\ EndedOK(NoneEnded, s)'
<1>1. Len(past') \in Nat /\ 0 <= Len(past')
  BY DEF ServerOK
<1>2. NoDrives \in [{} -> Nat] /\ DOMAIN NoDrives = {}
  BY DEF NoDrives
<1>3. NoDrives \in Cache
  BY <1>2 DEF Cache
<1>4. Idle \in CallRecord
  BY <1>3 DEF Idle, CallRecord
<1>5. \A s : CallOK(Idle, s)'
  BY <1>1, <1>2, <1>4 DEF CallOK, Idle
<1>6. NoneEnded \in EndedRecord
  BY DEF NoneEnded, EndedRecord
<1>7. \A s : EndedOK(NoneEnded, s)'
  BY <1>1, <1>6 DEF EndedOK, NoneEnded
<1> QED
  BY <1>2, <1>3, <1>4, <1>5, <1>7

LEMMA Now ==
    ASSUME ServerOK
    PROVE  /\ Len(past) \in Nat /\ Len(past) \in DOMAIN past /\ Len(past) <= Len(past)
           /\ Volumes = past[Len(past)]
<1>1. past \in Seq(SUBSET VolumeIds) /\ Len(past) >= 1
  BY DEF ServerOK
<1>2. Len(past) \in Nat /\ Len(past) \in DOMAIN past
  BY <1>1
<1>3. \A m \in Nat : m <= m
  OBVIOUS
<1> QED
  BY <1>2, <1>3, Zenon DEF Volumes, Last

LEMMA LinksAreDrives == ASSUME ServerOK, ObjectOK(storage) PROVE Links \subseteq Drives
<1>1. ctrl \in Seq(CtrlVersion) /\ storage.etag \in DOMAIN ctrl
  BY DEF ServerOK, ObjectOK, Known
<1>2. ctrl[storage.etag] \in CtrlVersion
  BY <1>1
<1> QED
  BY <1>2 DEF Links, CtrlVersion

\* An operation that goes on.
LEMMA GoesOn ==
    ASSUME StorageInv, ServerOK', call.at # "idle", UNCHANGED ended,
           ObjectOK(storage)', CallOK(call, storage)'
    PROVE  StorageInv'
<1>1. ended' = NoneEnded
  BY DEF StorageInv, Idle
<1>2. EndedOK(ended, storage)'
  BY <1>1, IdleOK
<1> QED
  BY <1>1, <1>2 DEF StorageInv

\* An operation that ends: what it returns has to be so at that moment.
LEMMA Ends ==
    ASSUME StorageInv, ServerOK', ServerGrows, ObjectOK(storage)', call.at # "idle",
           NEW x \in {"ok", "404", "412", "error", "NothingToApplyError"},
           NEW on \in Drives \cup {"none", "ctrl"}, NEW n \in Nat, EndOn(x, on, n),
           x = "ok" /\ call.op = "volumes" /\ call.force =>
               \E i \in call.since .. Len(past) : storage'.volumes = past[i],
           x = "ok" /\ call.op = "delete" =>
               \A v \in past[call.since] : ~ Throughout(v, call.since, Len(past)),
           x = "ok" /\ call.op = "restore drives" =>
               \A d \in DOMAIN storage'.drives :
                   d \in Drives /\ Restored(storage'.drives[d], drive[d]),
           x = "412" => on \in Drives \cup {"ctrl"} /\ Unseen(n, IF on = "ctrl" THEN ctrl ELSE drive[on])
    PROVE  StorageInv'
<1>1. PICK k : k = call
  OBVIOUS
<1>2. PICK s : s = storage'
  OBVIOUS
<1>3. PICK e : e = [op |-> call.op, outcome |-> x, force |-> call.force, since |-> call.since,
                    until |-> Len(past), on |-> on, seen |-> n]
  OBVIOUS
<1>4. /\ k \in CallRecord /\ k.since \in DOMAIN past /\ k.since <= Len(past) /\ k.op # "none"
      /\ Len(past) \in Nat /\ Len(past) <= Len(past)
  <2>1. CallOK(call, storage)
    BY DEF StorageInv
  <2> QED
    BY <1>1, <2>1, Now DEF CallOK, StorageInv
<1>5. e \in EndedRecord
  BY <1>1, <1>3, <1>4 DEF CallRecord, EndedRecord
<1>6. EndedOK(e, s)
  BY <1>1, <1>2, <1>3, <1>4, <1>5 DEF EndedOK
<1>7. EndedOK(e, s)'
  BY <1>6, EndedStays DEF StorageInv
<1>8. call' = Idle /\ ended' = e
  BY <1>3 DEF EndOn
<1>9. CallOK(call, storage)'
  BY <1>8, IdleOK
<1>10. EndedOK(ended, storage)'
  BY <1>2, <1>7, <1>8
<1> QED
  BY <1>8, <1>9, <1>10 DEF StorageInv

\* An operation that fails, or returns nothing that depends on the server.
LEMMA EndsPlainly ==
    ASSUME StorageInv, ServerOK', ServerGrows, ObjectOK(storage)', call.at # "idle",
           NEW x, End(x),
           \/ x \in {"404", "error", "NothingToApplyError"}
           \/ x = "ok" /\ call.op \notin {"volumes", "delete", "restore drives"}
           \/ x = "ok" /\ call.op = "volumes" /\ ~ call.force
    PROVE  StorageInv'
BY Ends DEF End

LEMMA Starts ==
    ASSUME StorageInv, NEW op, NEW at, NEW force \in BOOLEAN, NEW todo,
           Start(op, at, force, todo),
           \/ at = "drives" /\ op \in {"drives", "restore drives"} /\ todo = Links
           \/ at = "restore" /\ op = "restore drives" /\ todo = DOMAIN storage.drives
           \/ at = "return" /\ op = "drives" /\ todo = DOMAIN storage.drives
           \/ at = "return" /\ op = "volumes" /\ ~ force /\ todo = {}
           \/ at = "list" /\ op \in {"volumes", "delete"} /\ todo = {}
           \/ at \in {"set", "nothing"} /\ op = "set" /\ todo = {}
           \/ at = "action" /\ op = "restore" /\ todo = {}
    PROVE  StorageInv'
<1>1. UNCHANGED server /\ UNCHANGED storage /\ ended' = NoneEnded
  BY DEF Start
<1>2. ServerOK' /\ ServerGrows /\ ServerQuiet
  BY <1>1, ServerSame DEF StorageInv
<1>3. ObjectOK(storage)'
  BY <1>1 DEF StorageInv, ObjectOK, server, Known, Unseen
<1>4. todo \subseteq Drives
  <2>1. Links \subseteq Drives
    BY LinksAreDrives DEF StorageInv
  <2>2. DOMAIN storage.drives \subseteq Drives
    BY CacheDomain DEF StorageInv, ObjectOK
  <2> QED
    BY <2>1, <2>2
<1>5. NoDrives \in Cache /\ DOMAIN NoDrives = {}
  BY <1>2, IdleOK
<1>6. Len(past) \in Nat /\ Len(past) \in DOMAIN past /\ Len(past) <= Len(past)
  BY Now DEF StorageInv
<1>7. /\ call'.op = op /\ call'.at = at /\ call'.force = force /\ call'.since = Len(past)
      /\ call'.todo = todo /\ call'.got = NoDrives /\ call'.members = {}
      /\ call' = [op |-> op, at |-> at, force |-> force, since |-> Len(past), todo |-> todo,
                  got |-> NoDrives, members |-> {}]
  BY DEF Start, Idle
<1>8. call' \in CallRecord
  <2>1. /\ op \in {"none", "drives", "restore drives", "volumes", "delete", "set", "restore"}
        /\ at \in {"idle", "drives", "list", "volumes", "restore", "delete", "set", "nothing",
           "action", "return"}
    OBVIOUS
  <2> QED
    BY <1>4, <1>5, <1>6, <1>7, <2>1 DEF CallRecord
<1>9. CallOK(call, storage)'
  <2>1. /\ past' = past /\ storage' = storage /\ ctrl' = ctrl /\ at # "idle" /\ op # "none"
        /\ at \notin {"volumes", "delete"}
    BY <1>1 DEF server
  <2>2. at = "drives" => todo \cup DOMAIN NoDrives = ctrl[storage.etag].links
    BY <1>5 DEF Links
  <2> QED
    BY <1>4, <1>5, <1>6, <1>7, <1>8, <2>1, <2>2 DEF CallOK
<1>10. EndedOK(ended, storage)'
  BY <1>1, <1>2, IdleOK
<1> QED
  BY <1>1, <1>2, <1>3, <1>9, <1>10 DEF StorageInv

----------------------------------------------------------------------------
(* The operations, step by step.                                            *)

LEMMA CacheAdd ==
    ASSUME NEW f \in Cache, NEW d \in Drives, Len(drive[d]) \in Nat
    PROVE  /\ With(f, d) \in Cache
           /\ DOMAIN With(f, d) = DOMAIN f \cup {d}
           /\ With(f, d)[d] = Len(drive[d])
           /\ \A c \in DOMAIN f : c # d => With(f, d)[c] = f[c]
<1>1. PICK S \in SUBSET Drives : f \in [S -> Nat]
  BY DEF Cache
<1>2. With(f, d) \in [S \cup {d} -> Nat]
  BY <1>1 DEF With
<1>3. With(f, d) \in Cache
  BY <1>2 DEF Cache
<1> QED
  BY <1>3 DEF With

LEMMA CacheChange ==
    ASSUME NEW f \in Cache, NEW d \in DOMAIN f, NEW n \in Nat
    PROVE  [f EXCEPT ![d] = n] \in Cache
<1>1. PICK S \in SUBSET Drives : f \in [S -> Nat]
  BY DEF Cache
<1>2. [f EXCEPT ![d] = n] \in [S -> Nat]
  BY <1>1
<1> QED
  BY <1>2 DEF Cache

LEMMA BeginOK == ASSUME StorageInv, Begin PROVE StorageInv'
<1>1. CASE get
  <2>1. UNCHANGED server /\ call = Idle /\ call' = Idle /\ ended' = NoneEnded
    BY <1>1 DEF get
  <2>2. ServerOK' /\ ServerGrows
    BY <2>1, ServerSame DEF StorageInv
  <2>3. storage' = [etag |-> Len(ctrl), drives |-> NoDrives, volumes |-> {}]
    BY <1>1 DEF get
  <2>4. Len(ctrl) \in DOMAIN ctrl /\ Len(ctrl) \in Nat /\ ctrl' = ctrl
    BY <2>1 DEF StorageInv, ServerOK, server
  <2>5. storage' \in [etag : Nat, drives : Cache, volumes : SUBSET VolumeIds]
    BY <2>2, <2>3, <2>4, IdleOK
  <2>6. ObjectOK(storage)'
    BY <2>2, <2>3, <2>4, <2>5, IdleOK DEF ObjectOK, Known
  <2> QED
    BY <2>1, <2>2, <2>6, IdleOK DEF StorageInv
<1>2. CASE set \/ restore \/ delete_volume_collection
  BY <1>2, Starts DEF set, restore, delete_volume_collection
<1>3. ASSUME NEW op \in {"drives", "restore drives"}, NEW force \in BOOLEAN, drives(op, force)
      PROVE  StorageInv'
  BY <1>3, Starts DEF drives, AfterDrives
<1>4. ASSUME NEW force \in BOOLEAN, volumes(force) PROVE StorageInv'
  BY <1>4, Starts DEF volumes
<1> QED
  BY <1>1, <1>2, <1>3, <1>4 DEF Begin

\* Steps of a list that is being loaded: the server does not change.
LEMMA LoadOK ==
    ASSUME StorageInv, LoadDrive \/ DrivesLoaded \/ ListVolumes \/ LoadVolume \/ NothingToRestore
    PROVE  StorageInv'
<1> DEFINE k == call
<1>1. /\ UNCHANGED server /\ UNCHANGED ended /\ call.at # "idle"
      /\ ctrl' = ctrl /\ drive' = drive /\ past' = past
  BY DEF LoadDrive, DrivesLoaded, ListVolumes, LoadVolume, NothingToRestore, server
<1>2. ServerOK' /\ ServerGrows /\ ServerOK /\ ObjectOK(storage) /\ CallOK(call, storage)
  BY <1>1, ServerSame DEF StorageInv
<1>3. call \in CallRecord /\ call.got \in Cache /\ DOMAIN call.got \subseteq Drives
  BY <1>2, CacheDomain DEF CallOK, CallRecord
<1>4. CASE LoadDrive
  <2>1. PICK d \in call.todo \cap Present :
          call' = [call EXCEPT !.todo = @ \ {d}, !.got = With(@, d)]
    BY <1>4 DEF LoadDrive
  <2>2. d \in Drives /\ Len(drive[d]) \in Nat /\ Known(Len(drive[d]), drive[d])
    <3>1. d \in Drives
      BY <1>2, <2>1, LastVersions
    <3>2. drive[d] \in Seq(DriveVersion) /\ Len(drive[d]) >= 1
      BY <1>2, <3>1 DEF ServerOK, DriveVersions
    <3> QED
      BY <3>1, <3>2 DEF Known
  <2> DEFINE g == With(call.got, d)
  <2>3. /\ g \in Cache /\ DOMAIN g = DOMAIN call.got \cup {d} /\ g[d] = Len(drive[d])
        /\ \A c \in DOMAIN call.got : c # d => g[c] = call.got[c]
    BY <1>3, <2>2, CacheAdd
  <2>4. /\ call'.op = call.op /\ call'.at = "drives" /\ call'.since = call.since
        /\ call'.todo = call.todo \ {d} /\ call'.got = g /\ call' \in CallRecord
    <3> HIDE DEF g
    <3>1. call' = [call EXCEPT !.todo = @ \ {d}, !.got = g]
      BY <2>1 DEF g
    <3> QED
      BY <1>3, <1>4, <2>3, <3>1 DEF LoadDrive, CallRecord
  <2> HIDE DEF g
  <2>5. storage' = storage
    BY <1>4 DEF LoadDrive
  <2>6. \A c \in DOMAIN g : Known(g[c], drive[c]) /\ g[c] \in DOMAIN drive[c]
    BY <1>2, <1>4, <2>2, <2>3 DEF CallOK, LoadDrive, Known
  <2>7. CallOK(call, storage)'
    BY <1>1, <1>2, <1>4, <2>1, <2>3, <2>4, <2>5, <2>6 DEF CallOK, LoadDrive
  <2>8. ObjectOK(storage)'
    BY <1>1, <1>2, <2>5 DEF ObjectOK
  <2> QED
    BY <1>1, <1>2, <2>7, <2>8, GoesOn
<1>5. CASE DrivesLoaded
  <2>1. /\ call.at = "drives" /\ call.todo = {} /\ storage' = [storage EXCEPT !.drives = call.got]
        /\ call' = [call EXCEPT !.at = AfterDrives(call.op), !.todo = DOMAIN call.got]
    BY <1>5 DEF DrivesLoaded
  <2>2. /\ call.op \in {"drives", "restore drives"} /\ DOMAIN call.got = ctrl[storage.etag].links
        /\ \A d \in DOMAIN call.got : Known(call.got[d], drive[d])
    BY <1>2, <2>1 DEF CallOK
  <2>3. /\ storage' \in [etag : Nat, drives : Cache, volumes : SUBSET VolumeIds]
        /\ storage'.etag = storage.etag /\ storage'.drives = call.got
        /\ storage'.volumes = storage.volumes
    BY <1>2, <1>3, <2>1 DEF ObjectOK
  <2>4. ObjectOK(storage)'
    BY <1>1, <1>2, <2>2, <2>3 DEF ObjectOK
  <2>5. /\ call'.op = call.op /\ call'.at = AfterDrives(call.op) /\ call'.since = call.since
        /\ call'.todo = DOMAIN call.got /\ call'.got = call.got /\ call' \in CallRecord
    BY <1>3, <2>1 DEF CallRecord, AfterDrives
  <2>6. CallOK(call, storage)'
    <3>1. \/ call'.at = "restore" /\ call.op = "restore drives"
          \/ call'.at = "return" /\ call.op = "drives"
      BY <2>2, <2>5 DEF AfterDrives
    <3> QED
      BY <1>1, <1>2, <2>1, <2>3, <2>5, <3>1 DEF CallOK
  <2> QED
    BY <1>1, <1>2, <2>4, <2>6, GoesOn
<1>6. CASE ListVolumes
  <2>1. /\ call.at = "list" /\ storage' = storage
        /\ call' = [call EXCEPT !.at = IF call.op = "delete" THEN "delete" ELSE "volumes",
                                !.todo = Volumes, !.members = Volumes]
    BY <1>6 DEF ListVolumes
  <2>2. /\ Volumes \in SUBSET VolumeIds /\ Volumes = past[Len(past)]
        /\ Len(past) \in Nat /\ Len(past) \in DOMAIN past /\ Len(past) <= Len(past)
    BY <1>2, LastVersions, Now
  <2>3. /\ call'.op = call.op /\ call'.since = call.since /\ call' \in CallRecord
        /\ call'.at = IF call.op = "delete" THEN "delete" ELSE "volumes"
        /\ call'.todo = Volumes /\ call'.members = Volumes /\ call'.got = call.got
    BY <1>3, <2>1, <2>2 DEF CallRecord
  <2>4. call.since \in DOMAIN past /\ call.op \in {"volumes", "delete"}
        /\ call.since \in Nat /\ call.since <= Len(past)
    BY <1>2, <1>3, <2>1 DEF CallOK, CallRecord
  <2>5. Len(past) \in call.since .. Len(past)
    BY <2>2, <2>4
  <2>6. CallOK(call, storage)'
    BY <1>1, <1>2, <2>1, <2>2, <2>3, <2>4, <2>5 DEF CallOK, Throughout
  <2>7. ObjectOK(storage)'
    BY <1>1, <1>2, <2>1 DEF ObjectOK
  <2> QED
    BY <1>1, <1>2, <2>6, <2>7, GoesOn
<1>7. CASE LoadVolume \/ NothingToRestore
  <2>1. PICK v : /\ call' = [call EXCEPT !.todo = @ \ {v}] /\ v \in call.todo
                 /\ call.at = "restore" => ~ drive[v][storage.drives[v]].spare
    BY <1>7 DEF LoadVolume, NothingToRestore, SeenSpare
  <2>2. storage' = storage /\ call.at \in {"volumes", "restore"}
    BY <1>7 DEF LoadVolume, NothingToRestore
  <2>3. /\ call'.op = call.op /\ call'.since = call.since /\ call' \in CallRecord
        /\ call'.at = call.at /\ call'.todo = call.todo \ {v}
        /\ call'.members = call.members /\ call'.got = call.got
    BY <1>3, <2>1 DEF CallRecord
  <2>4. ASSUME call.at = "restore", NEW d \in DOMAIN storage.drives \ call'.todo
        PROVE  d \in Drives /\ Restored(storage.drives[d], drive[d])
    <3>1. CASE d \notin call.todo
      BY <1>2, <2>4, <3>1 DEF CallOK
    <3>2. CASE d = v
      <4>1. d \in Drives /\ storage.drives[d] \in DOMAIN drive[d]
        BY <1>2, CacheDomain DEF ObjectOK, Known
      <4> QED
        BY <2>1, <2>4, <3>2, <4>1 DEF Restored
    <3> QED
      BY <2>3, <3>1, <3>2
  <2>5. CallOK(call, storage)'
    BY <1>1, <1>2, <2>2, <2>3, <2>4 DEF CallOK
  <2>6. ObjectOK(storage)'
    BY <1>1, <1>2, <2>2 DEF ObjectOK
  <2> QED
    BY <1>1, <1>2, <2>5, <2>6, GoesOn
<1> QED
  BY <1>4, <1>5, <1>6, <1>7

\* Operations that end without changing the server.
LEMMA EndOK ==
    ASSUME StorageInv,
           \/ DriveNotFound \/ VolumeNotFound \/ VolumesLoaded \/ VolumesDeleted \/ PatchRefused
           \/ NothingToApply \/ RestoreRefused \/ Return \/ RequestFails
    PROVE  StorageInv'
<1>1. UNCHANGED server /\ ctrl' = ctrl /\ drive' = drive /\ past' = past
  BY DEF DriveNotFound, VolumeNotFound, VolumesLoaded, VolumesDeleted, PatchRefused,
         NothingToApply, RestoreRefused, Return, RequestFails, server
<1>2. ServerOK' /\ ServerGrows /\ ServerOK /\ ObjectOK(storage) /\ CallOK(call, storage)
  BY <1>1, ServerSame DEF StorageInv
<1>3. ASSUME storage' = storage PROVE ObjectOK(storage)'
  BY <1>1, <1>2, <1>3 DEF ObjectOK
<1>4. CASE \/ DriveNotFound \/ VolumeNotFound \/ NothingToApply \/ RequestFails
  <2>1. storage' = storage /\ call.at # "idle" /\ \E x \in {"404", "error", "NothingToApplyError"} : End(x)
    BY <1>4 DEF DriveNotFound, VolumeNotFound, NothingToApply, RequestFails, Requesting
  <2> QED
    BY <1>2, <1>3, <2>1, EndsPlainly
<1>5. CASE VolumesLoaded
  <2>1. /\ call.at = "volumes" /\ storage' = [storage EXCEPT !.volumes = call.members]
        /\ EndOn("ok", "none", 0)
    BY <1>5 DEF VolumesLoaded, End
  <2>2. /\ call.op = "volumes" /\ call.since \in DOMAIN past
        /\ \E i \in call.since .. Len(past) : call.members = past[i]
    BY <1>2, <2>1 DEF CallOK
  <2>3. call.members \in Range(past) /\ call.members \in SUBSET VolumeIds
    BY <1>2, <2>2 DEF ServerOK, Range
  <2>4. /\ storage' \in [etag : Nat, drives : Cache, volumes : SUBSET VolumeIds]
        /\ storage'.etag = storage.etag /\ storage'.drives = storage.drives
        /\ storage'.volumes = call.members
    BY <1>2, <2>1, <2>3 DEF ObjectOK
  <2>5. ObjectOK(storage)'
    BY <1>1, <1>2, <2>3, <2>4 DEF ObjectOK
  <2> QED
    BY <1>2, <2>1, <2>2, <2>4, <2>5, Ends
<1>6. CASE VolumesDeleted
  <2>1. call.at = "delete" /\ call.todo = {} /\ EndOn("ok", "none", 0) /\ storage' = storage
    BY <1>6 DEF VolumesDeleted, End
  <2>2. /\ call.op = "delete"
        /\ \A v \in past[call.since] : ~ Throughout(v, call.since, Len(past))
    BY <1>2, <2>1 DEF CallOK
  <2> QED
    BY <1>2, <1>3, <2>1, <2>2, Ends
<1>7. CASE PatchRefused
  <2>1. /\ call.at = "set" /\ storage.etag # Len(ctrl) /\ storage' = storage
        /\ EndOn("412", "ctrl", storage.etag)
    BY <1>7 DEF PatchRefused
  <2>2. Unseen(storage.etag, ctrl) /\ storage.etag \in Nat
    BY <1>2, <2>1 DEF ObjectOK, Known
  <2> QED
    BY <1>2, <1>3, <2>1, <2>2, Ends
<1>8. CASE RestoreRefused
  <2>1. call.at = "restore" /\ storage' = storage
    BY <1>8 DEF RestoreRefused
  <2>2. PICK d \in call.todo : \/ d \in Present /\ storage.drives[d] # Len(drive[d])
                                  /\ EndOn("412", d, storage.drives[d])
                               \/ End("404")
    BY <1>8 DEF RestoreRefused
  <2>3. CASE End("404")
    BY <1>2, <1>3, <2>1, <2>3, EndsPlainly
  <2>4. CASE storage.drives[d] # Len(drive[d]) /\ EndOn("412", d, storage.drives[d])
    <3>1. d \in DOMAIN storage.drives /\ DOMAIN storage.drives \subseteq Drives
      BY <1>2, <2>1, CacheDomain DEF CallOK, ObjectOK
    <3>2. Unseen(storage.drives[d], drive[d]) /\ storage.drives[d] \in DOMAIN drive[d] /\ d \in Drives
      BY <1>2, <2>4, <3>1 DEF ObjectOK, Known
    <3>3. drive[d] \in Seq(DriveVersion)
      BY <1>2, <3>2 DEF ServerOK
    <3>4. storage.drives[d] \in Nat
      BY <3>2, <3>3
    <3>5. d # "ctrl"
      BY <3>2, StorageAssumption
    <3> QED
      BY <1>2, <1>3, <2>1, <2>4, <3>2, <3>4, <3>5, Ends
  <2> QED
    BY <2>2, <2>3, <2>4
<1>9. CASE Return
  <2>1. /\ call.at = "return" \/ (call.at = "restore" /\ call.todo = {})
        /\ End("ok") /\ storage' = storage
    BY <1>9 DEF Return
  <2>2. CASE call.at = "return"
    <3>1. \/ call.op \notin {"volumes", "delete", "restore drives"}
          \/ call.op = "volumes" /\ ~ call.force
      BY <1>2, <2>2 DEF CallOK
    <3> QED
      BY <1>2, <1>3, <2>1, <2>2, <3>1, EndsPlainly
  <2>3. CASE call.at = "restore" /\ call.todo = {}
    <3>1. /\ call.op = "restore drives" /\ EndOn("ok", "none", 0)
          /\ \A d \in DOMAIN storage'.drives :
                d \in Drives /\ Restored(storage'.drives[d], drive[d])
      BY <1>2, <2>1, <2>3 DEF CallOK, End
    <3> QED
      BY <1>2, <1>3, <2>1, <2>3, <3>1, Ends
  <2> QED
    BY <2>1, <2>2, <2>3
<1> QED
  BY <1>4, <1>5, <1>6, <1>7, <1>8, <1>9

\* Others change the server, and nothing of the program.
LEMMA OthersOK == ASSUME StorageInv, Others PROVE StorageInv'
<1>1. storage' = storage /\ call' = call /\ ended' = ended
  BY DEF Others, OtherSets, OtherPlugs, OtherSpares, OtherCreates, OtherDeletes, Other
<1>2. ServerOK /\ ObjectOK(storage) /\ CallOK(call, storage) /\ EndedOK(ended, storage)
  BY DEF StorageInv
<1>3. ServerOK' /\ ServerGrows /\ ServerQuiet
  <2>1. CASE OtherSets
    <3>1. NextCtrl("other") /\ UNCHANGED <<drive, past>>
      BY <2>1 DEF OtherSets
    <3>2. /\ ctrl' \in Seq(CtrlVersion) /\ Len(ctrl') >= 1 /\ Grows(ctrl, ctrl')
          /\ Quiet(ctrl, ctrl')
      BY <1>2, <3>1, NextCtrlOK DEF Hows
    <3> QED
      BY <1>2, <3>1, <3>2 DEF ServerOK, ServerGrows, ServerQuiet, Grows, Quiet
  <2>2. CASE OtherPlugs
    <3>1. PICK d \in Drives :
            LET links == IF d \in Present THEN Present \ {d} ELSE Present \cup {d}
            IN  ctrl' = Append(ctrl, [how |-> "other", links |-> links])
      BY <2>2 DEF OtherPlugs
    <3> DEFINE links == IF d \in Present THEN Present \ {d} ELSE Present \cup {d}
               e == [how |-> "other", links |-> links]
    <3>2. links \in SUBSET Drives
      BY <1>2, LastVersions
    <3>3. e \in CtrlVersion /\ e.how = "other"
      BY <3>2 DEF CtrlVersion, Hows
    <3>4. ctrl' = Append(ctrl, e) /\ UNCHANGED <<drive, past>>
      BY <2>2, <3>1 DEF OtherPlugs
    <3> HIDE DEF e, links
    <3>5. /\ ctrl' \in Seq(CtrlVersion) /\ Len(ctrl') >= 1 /\ Grows(ctrl, ctrl')
          /\ Quiet(ctrl, ctrl')
      BY <1>2, <3>3, <3>4, CtrlAdded
    <3> QED
      BY <1>2, <3>4, <3>5 DEF ServerOK, ServerGrows, ServerQuiet, Grows, Quiet
  <2>3. CASE OtherSpares
    <3>1. PICK d \in Drives : NextDrive(d, "other", ~ IsSpare(d))
      BY <1>2, <2>3, LastVersions DEF OtherSpares
    <3>2. /\ drive' \in [Drives -> Seq(DriveVersion)]
          /\ \A c \in Drives : DriveVersions(drive'[c]) /\ Grows(drive[c], drive'[c])
                               /\ Quiet(drive[c], drive'[c])
      BY <1>2, <3>1, NextDriveOK DEF Hows
    <3>3. UNCHANGED <<ctrl, past>>
      BY <2>3 DEF OtherSpares
    <3> QED
      BY <1>2, <3>2, <3>3 DEF ServerOK, ServerGrows, ServerQuiet, Grows, Quiet
  <2>4. CASE OtherCreates \/ OtherDeletes
    <3>1. PICK V \in SUBSET VolumeIds : past' = Append(past, V)
      <4>1. CASE OtherCreates
        <5>1. PICK d \in Present \ UsedDrives : past' = Append(past, Volumes \cup {<<d, Len(past)>>})
          BY <4>1 DEF OtherCreates
        <5>2. <<d, Len(past)>> \in VolumeIds
          BY <1>2, <5>1, LastVersions, Now DEF VolumeIds
        <5>3. Volumes \cup {<<d, Len(past)>>} \in SUBSET VolumeIds
          BY <1>2, <5>2, LastVersions
        <5> QED
          BY <5>1, <5>3
      <4>2. CASE OtherDeletes
        <5>1. PICK v \in Volumes : past' = Append(past, Volumes \ {v})
          BY <4>2 DEF OtherDeletes
        <5>2. Volumes \ {v} \in SUBSET VolumeIds
          BY <1>2, LastVersions
        <5> QED
          BY <5>1, <5>2
      <4> QED
        BY <2>4, <4>1, <4>2
    <3>2. PICK S : Touched(S, "other")
      BY <2>4 DEF OtherCreates, OtherDeletes
    <3>3. UNCHANGED ctrl
      BY <2>4 DEF OtherCreates, OtherDeletes
    <3>4. /\ past' \in Seq(SUBSET VolumeIds) /\ Len(past') = Len(past) + 1 /\ Grows(past, past')
      BY <1>2, <3>1, PastOK
    <3>5. /\ drive' \in [Drives -> Seq(DriveVersion)]
          /\ \A c \in Drives : DriveVersions(drive'[c]) /\ Grows(drive[c], drive'[c])
                               /\ Quiet(drive[c], drive'[c])
      BY <1>2, <3>2, TouchedOK DEF Hows
    <3> QED
      BY <1>2, <3>3, <3>4, <3>5 DEF ServerOK, ServerGrows, ServerQuiet, Grows, Quiet
  <2> QED
    BY <2>1, <2>2, <2>3, <2>4 DEF Others
<1>4. PICK s, k, e : s = storage /\ k = call /\ e = ended
  OBVIOUS
<1>5. ObjectOK(s)' /\ CallOK(k, s)' /\ EndedOK(e, s)'
  BY <1>2, <1>3, <1>4, ObjectStays, CallStays, EndedStays
<1>6. storage' = s /\ call' = k /\ ended' = e
  BY <1>1, <1>4
<1>7. ObjectOK(storage)' /\ CallOK(call, storage)' /\ EndedOK(ended, storage)'
  BY <1>5, <1>6
<1> QED
  BY <1>1, <1>3, <1>7 DEF StorageInv

\* A member is deleted, or a request of the program that fails deletes it.
LEMMA DeleteOK == ASSUME StorageInv, DeleteVolume PROVE StorageInv'
<1>1. ServerOK /\ ObjectOK(storage) /\ CallOK(call, storage)
  BY DEF StorageInv
<1>2. PICK v \in call.todo \cap Volumes :
         /\ past' = Append(past, Volumes \ {v})
         /\ Touched({v[1]}, "delete")
         /\ \/ call' = [call EXCEPT !.todo = @ \ {v}] /\ UNCHANGED <<ended, spent>>
            \/ End("error")
  BY DEF DeleteVolume
<1>3. call.at = "delete" /\ ctrl' = ctrl /\ storage' = storage
  BY DEF DeleteVolume
<1>4. Volumes \ {v} \in SUBSET VolumeIds
  BY <1>1, LastVersions
<1>5. /\ past' \in Seq(SUBSET VolumeIds) /\ Len(past') = Len(past) + 1 /\ Grows(past, past')
      /\ past'[Len(past) + 1] = Volumes \ {v}
  BY <1>1, <1>2, <1>4, PastOK
<1>6. /\ drive' \in [Drives -> Seq(DriveVersion)]
      /\ \A c \in Drives : DriveVersions(drive'[c]) /\ Grows(drive[c], drive'[c])
                           /\ Quiet(drive[c], drive'[c])
  BY <1>1, <1>2, TouchedOK DEF Hows
<1>7. ServerOK' /\ ServerGrows /\ ServerQuiet
  BY <1>1, <1>3, <1>5, <1>6 DEF ServerOK, ServerGrows, ServerQuiet, Grows, Quiet
<1>8. PICK s, k : s = storage /\ k = call
  OBVIOUS
<1>9. ObjectOK(s)' /\ CallOK(k, s)'
  BY <1>1, <1>7, <1>8, ObjectStays, CallStays
<1>10. ObjectOK(storage)'
  BY <1>3, <1>8, <1>9
<1>11. CASE call' = [call EXCEPT !.todo = @ \ {v}] /\ UNCHANGED ended
  <2>1. /\ call'.op = k.op /\ call'.since = k.since /\ call' \in CallRecord
        /\ call'.at = "delete" /\ call'.todo = k.todo \ {v} /\ call'.got = k.got
    BY <1>3, <1>8, <1>9, <1>11 DEF CallOK, CallRecord
  <2>2. k.since \in Nat /\ k.since \in DOMAIN past /\ Len(past) \in Nat
    BY <1>1, <1>3, <1>8, Now DEF CallOK, CallRecord
  <2>3. Len(past') \in k.since .. Len(past') /\ v \notin past'[Len(past')]
    BY <1>1, <1>5, <2>2 DEF ServerOK
  <2>4. ~ Throughout(v, k.since, Len(past))'
    BY <2>3 DEF Throughout
  <2>5. CallOK(call, storage)'
    BY <1>3, <1>8, <1>9, <2>1, <2>4 DEF CallOK
  <2> QED
    BY <1>3, <1>7, <1>10, <1>11, <2>5, GoesOn
<1>12. CASE End("error")
  BY <1>3, <1>7, <1>10, <1>12, EndsPlainly
<1> QED
  BY <1>2, <1>11, <1>12

\* The object after an update of the controller that was answered.
LEMMA PatchOK == ASSUME StorageInv, Patch PROVE StorageInv'
<1>1. ServerOK /\ ObjectOK(storage) /\ CallOK(call, storage) /\ Len(ctrl) \in Nat
  BY DEF StorageInv, ServerOK
<1>2. call.at = "set" /\ call.op = "set" /\ storage.etag = Len(ctrl) /\ past' = past
  BY <1>1 DEF Patch, CallOK
<1>3. PICK S : \/ /\ NextCtrl("set") /\ Touched(S, "set")
                  /\ refresh(Len(ctrl) + 1) /\ End("ok")
               \/ /\ NextCtrl("lost") /\ Touched(S, "lost")
                  /\ End("error") /\ UNCHANGED storage
  BY DEF Patch
<1>4. ASSUME NEW how \in Hows, NextCtrl(how), Touched(S, how)
      PROVE  /\ ServerOK' /\ ServerGrows /\ Len(ctrl') = Len(ctrl) + 1
             /\ how # "set" => ServerQuiet
  <2>1. /\ ctrl' \in Seq(CtrlVersion) /\ Len(ctrl') >= 1 /\ Grows(ctrl, ctrl')
        /\ Len(ctrl') = Len(ctrl) + 1 /\ (how # "set" => Quiet(ctrl, ctrl'))
    BY <1>1, <1>2, <1>4, NextCtrlOK
  <2>2. /\ drive' \in [Drives -> Seq(DriveVersion)]
        /\ \A c \in Drives : DriveVersions(drive'[c]) /\ Grows(drive[c], drive'[c])
        /\ how # "set" => \A c \in Drives : Quiet(drive[c], drive'[c])
    BY <1>1, <1>4, TouchedOK
  <2> QED
    BY <1>1, <1>2, <2>1, <2>2 DEF ServerOK, ServerGrows, ServerQuiet, Grows
<1>5. CASE /\ NextCtrl("set") /\ Touched(S, "set")
           /\ refresh(Len(ctrl) + 1) /\ End("ok")
  <2>1. ServerOK' /\ ServerGrows /\ Len(ctrl') = Len(ctrl) + 1
    BY <1>4, <1>5 DEF Hows
  <2>2. storage' = [storage EXCEPT !.etag = Len(ctrl) + 1, !.drives = NoDrives]
    BY <1>5 DEF refresh
  <2>3. NoDrives \in Cache /\ DOMAIN NoDrives = {}
    BY <2>1, IdleOK
  <2>4. /\ storage' \in [etag : Nat, drives : Cache, volumes : SUBSET VolumeIds]
        /\ storage'.etag = Len(ctrl') /\ storage'.drives = NoDrives
        /\ storage'.volumes = storage.volumes
    <3>1. PICK n \in Nat : n = Len(ctrl) + 1 /\ n = Len(ctrl')
      BY <1>1, <2>1
    <3>2. storage' = [storage EXCEPT !.etag = n, !.drives = NoDrives]
      BY <2>2, <3>1
    <3> QED
      BY <1>1, <2>3, <3>1, <3>2 DEF ObjectOK
  <2>5. Len(ctrl') \in DOMAIN ctrl'
    BY <2>1 DEF ServerOK
  <2>6. ObjectOK(storage)'
    BY <1>1, <1>2, <2>3, <2>4, <2>5 DEF ObjectOK, Known
  <2> QED
    BY <1>2, <1>5, <2>1, <2>6, EndsPlainly
<1>6. CASE /\ NextCtrl("lost") /\ Touched(S, "lost")
           /\ End("error") /\ UNCHANGED storage
  <2>1. ServerOK' /\ ServerGrows /\ ServerQuiet
    BY <1>4, <1>6 DEF Hows
  <2>2. PICK s : s = storage
    OBVIOUS
  <2>3. ObjectOK(s)'
    BY <1>1, <2>1, <2>2, ObjectStays
  <2>4. ObjectOK(storage)'
    BY <1>6, <2>2, <2>3
  <2> QED
    BY <1>2, <1>6, <2>1, <2>4, EndsPlainly
<1> QED
  BY <1>3, <1>5, <1>6

LEMMA RestoreDefaultsOK == ASSUME StorageInv, RestoreDefaults PROVE StorageInv'
<1>1. ServerOK /\ ObjectOK(storage) /\ CallOK(call, storage)
  BY DEF StorageInv
<1>2. /\ call.at = "action" /\ call.op = "restore" /\ past' = past /\ storage' = storage
      /\ NextCtrl("restore") /\ Touched(Present, "restore")
      /\ End("ok") \/ End("error")
  BY <1>1 DEF RestoreDefaults, CallOK
<1>3. /\ ctrl' \in Seq(CtrlVersion) /\ Len(ctrl') >= 1 /\ Grows(ctrl, ctrl')
      /\ Quiet(ctrl, ctrl')
  BY <1>1, <1>2, NextCtrlOK DEF Hows
<1>4. /\ drive' \in [Drives -> Seq(DriveVersion)]
      /\ \A c \in Drives : DriveVersions(drive'[c]) /\ Grows(drive[c], drive'[c])
                           /\ Quiet(drive[c], drive'[c])
  BY <1>1, <1>2, TouchedOK DEF Hows
<1>5. ServerOK' /\ ServerGrows /\ ServerQuiet
  BY <1>1, <1>2, <1>3, <1>4 DEF ServerOK, ServerGrows, ServerQuiet, Grows, Quiet
<1>6. PICK s : s = storage
  OBVIOUS
<1>7. ObjectOK(s)'
  BY <1>1, <1>5, <1>6, ObjectStays
<1>8. ObjectOK(storage)'
  BY <1>2, <1>6, <1>7
<1> QED
  BY <1>2, <1>5, <1>8, EndsPlainly

\* The update of a drive: the list keeps the very object that is refreshed.
LEMMA RestoreDriveOK == ASSUME StorageInv, RestoreDrive PROVE StorageInv'
<1>1. ServerOK /\ ObjectOK(storage) /\ CallOK(call, storage)
  BY DEF StorageInv
<1>2. call.at = "restore" /\ ctrl' = ctrl /\ past' = past
  BY DEF RestoreDrive
<1>3. PICK d \in call.todo \cap Present :
         /\ storage.drives[d] = Len(drive[d])
         /\ \/ /\ NextDrive(d, "set", FALSE)
               /\ storage' = [storage EXCEPT !.drives[d] = Len(drive[d]) + 1]
               /\ call' = [call EXCEPT !.todo = @ \ {d}]
               /\ UNCHANGED ended
            \/ /\ NextDrive(d, "lost", FALSE)
               /\ End("error") /\ UNCHANGED storage
  BY DEF RestoreDrive
<1>4. d \in Drives /\ d \in DOMAIN storage.drives /\ DOMAIN storage.drives \subseteq Drives
  BY <1>1, <1>2, <1>3, LastVersions, CacheDomain DEF CallOK, ObjectOK
<1>5. drive[d] \in Seq(DriveVersion) /\ Len(drive[d]) \in Nat
  BY <1>1, <1>4 DEF ServerOK
<1>6. ASSUME NEW how \in Hows, NextDrive(d, how, FALSE)
      PROVE  /\ ServerOK' /\ ServerGrows
             /\ \A c \in Drives \ {d} : drive'[c] = drive[c]
             /\ Len(drive'[d]) = Len(drive[d]) + 1
             /\ drive'[d][Len(drive[d]) + 1].spare = FALSE
             /\ how # "set" => ServerQuiet
  <2>1. /\ drive' \in [Drives -> Seq(DriveVersion)]
        /\ \A c \in Drives : DriveVersions(drive'[c]) /\ Grows(drive[c], drive'[c])
        /\ \A c \in Drives \ {d} : drive'[c] = drive[c]
        /\ Len(drive'[d]) = Len(drive[d]) + 1
        /\ drive'[d][Len(drive[d]) + 1].spare = FALSE
        /\ how # "set" => \A c \in Drives : Quiet(drive[c], drive'[c])
    BY <1>1, <1>3, <1>4, <1>6, NextDriveOK
  <2> QED
    BY <1>1, <1>2, <2>1 DEF ServerOK, ServerGrows, ServerQuiet, Grows, Quiet
<1>7. PICK s, k : s = storage /\ k = call
  OBVIOUS
<1>8. CASE /\ NextDrive(d, "set", FALSE)
           /\ storage' = [storage EXCEPT !.drives[d] = Len(drive[d]) + 1]
           /\ call' = [call EXCEPT !.todo = @ \ {d}]
           /\ UNCHANGED ended
  <2>1. /\ ServerOK' /\ ServerGrows /\ Len(drive'[d]) = Len(drive[d]) + 1
        /\ \A c \in Drives \ {d} : drive'[c] = drive[c]
        /\ drive'[d][Len(drive[d]) + 1].spare = FALSE
    BY <1>6, <1>8 DEF Hows
  <2>2. CallOK(k, s)'
    BY <1>1, <1>2, <1>7, <2>1, CallStays
  <2> DEFINE f == [storage.drives EXCEPT ![d] = Len(drive[d]) + 1]
  <2>3. f \in Cache /\ DOMAIN f = DOMAIN storage.drives /\ f[d] = Len(drive[d]) + 1
        /\ \A c \in DOMAIN f : c # d => f[c] = storage.drives[c]
    BY <1>1, <1>4, <1>5, CacheChange DEF ObjectOK
  <2>4. storage' = [storage EXCEPT !.drives = f]
    BY <1>8
  <2> HIDE DEF f
  <2>5. /\ storage' \in [etag : Nat, drives : Cache, volumes : SUBSET VolumeIds]
        /\ storage'.etag = storage.etag /\ storage'.drives = f
        /\ storage'.volumes = storage.volumes
    BY <1>1, <2>3, <2>4 DEF ObjectOK
  <2>6. Known(f[d], drive'[d])
    <3>1. Len(drive'[d]) \in DOMAIN drive'[d]
      BY <1>4, <2>1 DEF ServerOK, DriveVersions
    <3> QED
      BY <2>1, <2>3, <3>1 DEF Known
  <2>7. \A c \in DOMAIN f : Known(f[c], drive'[c])
    BY <1>1, <1>4, <2>1, <2>3, <2>6 DEF ObjectOK
  <2>8. ObjectOK(storage)'
    BY <1>1, <1>2, <2>3, <2>5, <2>7 DEF ObjectOK
  <2>9. /\ call'.op = k.op /\ call'.since = k.since /\ call' \in CallRecord
        /\ call'.at = "restore" /\ k.at = "restore"
        /\ call'.todo = k.todo \ {d} /\ call'.got = k.got
    BY <1>2, <1>7, <1>8, <2>2 DEF CallOK, CallRecord
  <2>10. ASSUME NEW c \in DOMAIN f \ call'.todo
         PROVE  c \in Drives /\ Restored(f[c], drive'[c])
    <3>1. CASE c = d
      <4>1. Len(drive'[d]) \in DOMAIN drive'[d]
        BY <1>4, <2>1 DEF ServerOK, DriveVersions
      <4> QED
        BY <1>4, <2>1, <2>3, <3>1, <4>1 DEF Restored
    <3>2. CASE c # d
      <4>1. c \in DOMAIN s.drives \ k.todo /\ f[c] = s.drives[c]
        BY <1>7, <2>3, <2>9, <3>2
      <4> QED
        BY <2>2, <2>9, <4>1 DEF CallOK
    <3> QED
      BY <3>1, <3>2
  <2>11. CallOK(call, storage)'
    BY <1>7, <2>2, <2>3, <2>5, <2>9, <2>10 DEF CallOK
  <2> QED
    BY <1>2, <1>8, <2>1, <2>8, <2>11, GoesOn
<1>9. CASE NextDrive(d, "lost", FALSE) /\ End("error") /\ UNCHANGED storage
  <2>1. ServerOK' /\ ServerGrows /\ ServerQuiet
    BY <1>6, <1>9 DEF Hows
  <2>2. ObjectOK(s)'
    BY <1>1, <1>7, <2>1, ObjectStays
  <2>3. ObjectOK(storage)'
    BY <1>7, <1>9, <2>2
  <2> QED
    BY <1>2, <1>9, <2>1, <2>3, EndsPlainly
<1> QED
  BY <1>3, <1>8, <1>9

LEMMA StorageInit == Init => StorageInv
<1> SUFFICES ASSUME Init PROVE StorageInv
  OBVIOUS
<1> USE DEF Init
<1>1. ctrl \in Seq(CtrlVersion) /\ Len(ctrl) >= 1 /\ 1 \in DOMAIN ctrl
      /\ Len(ctrl) = 1
  BY DEF CtrlVersion, Hows
<1>2. drive \in [Drives -> Seq(DriveVersion)] /\ \A d \in Drives : DriveVersions(drive[d])
  BY DEF DriveVersion, Hows, DriveVersions, SpareSince
<1>3. past \in Seq(SUBSET VolumeIds) /\ Len(past) = 1
  <2>1. {<<d, 0>> : d \in OldVolumes} \in SUBSET VolumeIds
    BY StorageAssumption DEF VolumeIds
  <2> QED
    BY <2>1
<1>4. ServerOK
  BY <1>1, <1>2, <1>3 DEF ServerOK
<1>5. NoDrives \in Cache /\ DOMAIN NoDrives = {}
  <2>1. NoDrives \in [{} -> Nat] /\ DOMAIN NoDrives = {}
    BY DEF NoDrives
  <2> QED
    BY <2>1 DEF Cache
<1>6. ObjectOK(storage)
  BY <1>1, <1>5 DEF ObjectOK, Known
<1>7. CallOK(call, storage)
  BY <1>3, <1>5 DEF CallOK, CallRecord, Idle
<1>8. EndedOK(ended, storage)
  BY <1>3 DEF EndedOK, EndedRecord, NoneEnded
<1> QED
  BY <1>4, <1>6, <1>7, <1>8 DEF StorageInv

LEMMA StorageNext == StorageInv /\ [Next]_vars => StorageInv'
<1> SUFFICES ASSUME StorageInv, [Next]_vars PROVE StorageInv'
  OBVIOUS
<1>1. CASE UNCHANGED vars
  <2>1. UNCHANGED <<server, storage, call, ended>> /\ past' = past /\ ctrl' = ctrl /\ drive' = drive
    BY <1>1 DEF vars, server
  <2>2. ServerOK'
    BY <2>1, ServerSame DEF StorageInv
  <2>3. ObjectOK(storage)'
    BY <2>1 DEF StorageInv, ObjectOK
  <2>4. CallOK(call, storage)'
    BY <2>1 DEF StorageInv, CallOK, Throughout
  <2>5. EndedOK(ended, storage)'
    BY <2>1 DEF StorageInv, EndedOK, Throughout
  <2> QED
    BY <2>1, <2>2, <2>3, <2>4, <2>5 DEF StorageInv
<1> QED
  BY <1>1, BeginOK, LoadOK, EndOK, OthersOK, DeleteOK, PatchOK, RestoreDefaultsOK, RestoreDriveOK
     DEF Next, Step

\* The inductive invariant holds throughout.
LEMMA StorageInvariant == Spec => []StorageInv
BY StorageInit, StorageNext, PTL DEF Spec

----------------------------------------------------------------------------
(* Theorems.                                                                *)

\* Every variable holds a value of its kind, and no object is newer than the
\* document it was read from, for any drives, volumes and bounds.
THEOREM TypeCorrect == Spec => []TypeOK
<1>1. StorageInv => TypeOK
  <2> SUFFICES ASSUME StorageInv PROVE TypeOK
    OBVIOUS
  <2>1. ServerOK /\ ObjectOK(storage) /\ CallOK(call, storage)
    BY DEF StorageInv
  <2>2. \A i \in DOMAIN ctrl : ctrl[i] \in [how : Hows, links : SUBSET Drives]
    <3>1. ctrl \in Seq(CtrlVersion)
      BY <2>1 DEF ServerOK
    <3>2. \A i \in DOMAIN ctrl : ctrl[i] \in CtrlVersion
      BY <3>1
    <3> QED
      BY <3>2 DEF CtrlVersion
  <2>3. ASSUME NEW d \in Drives, NEW i \in DOMAIN drive[d]
        PROVE  drive[d][i] \in [how : Hows, spare : BOOLEAN]
    <3>1. drive[d] \in Seq(DriveVersion)
      BY <2>1 DEF ServerOK
    <3>2. drive[d][i] \in DriveVersion
      BY <2>3, <3>1
    <3> QED
      BY <3>2 DEF DriveVersion
  <2>4. /\ \A i \in DOMAIN past : past[i] \in SUBSET VolumeIds
        /\ Len(past) \in Nat
    BY <2>1 DEF ServerOK
  <2>5. /\ storage.etag \in DOMAIN ctrl
        /\ \A d \in DOMAIN storage.drives : storage.drives[d] \in DOMAIN drive[d]
    BY <2>1 DEF ObjectOK, Known
  <2>6. /\ \A d \in DOMAIN call.got : call.got[d] \in DOMAIN drive[d]
        /\ call.todo \in (SUBSET Drives) \cup (SUBSET VolumeIds)
        /\ call.since \in Nat /\ call.since <= Len(past) /\ call.members \subseteq VolumeIds
    BY <2>1 DEF CallOK, CallRecord
  <2> QED
    BY <2>2, <2>3, <2>4, <2>5, <2>6 DEF TypeOK
<1> QED
  BY <1>1, StorageInvariant, PTL

\* volumes(force_reload=True) returns the volumes of one moment of the call, and
\* never a mixture of several.
THEOREM VolumesAreOfOneMoment == Spec => []VolumesAsOfCall
<1>1. StorageInv => VolumesAsOfCall
  BY DEF StorageInv, EndedOK, VolumesAsOfCall
<1> QED
  BY <1>1, StorageInvariant, PTL

\* The lists of drives and volumes that a Storage object keeps are never partial,
\* whatever request of the call that loaded them failed.
THEOREM ListsAreWhole == Spec => []CachesAreWhole
<1>1. StorageInv => CachesAreWhole
  BY DEF StorageInv, ObjectOK, CachesAreWhole, Links
<1> QED
  BY <1>1, StorageInvariant, PTL

\* When the loop that restores the drives of a controller returns, a drive of the
\* list is a hot spare only if others made it one after the version the object
\* holds: no refusal, and no drive that was never one, is passed over wrongly.
THEOREM RestoringLeavesNoSpares == Spec => []SparesAreGone
<1>1. StorageInv => SparesAreGone
  <2> SUFFICES ASSUME StorageInv, ended.op = "restore drives", ended.outcome = "ok",
                      NEW d \in DOMAIN storage.drives, IsSpare(d)
               PROVE  \E i \in DOMAIN drive[d] :
                         i > storage.drives[d] /\ drive[d][i].how = "other" /\ drive[d][i].spare
    BY DEF SparesAreGone
  <2>1. d \in Drives /\ Restored(storage.drives[d], drive[d])
    BY DEF StorageInv, EndedOK
  <2>2. SpareSince(storage.drives[d], drive[d])
    BY <2>1 DEF StorageInv, ServerOK, DriveVersions, Restored
  <2> QED
    BY <2>2 DEF SpareSince, IsSpare, Last
<1> QED
  BY <1>1, StorageInvariant, PTL

\* refresh() after each answered set() keeps the ETags of an object up to date:
\* an update is refused only after a change whose outcome the program has not
\* seen, never because of its own set().
THEOREM RefusalsAreForChanges == Spec => []RefusedMeansUnseen
<1>1. StorageInv => RefusedMeansUnseen
  BY DEF StorageInv, EndedOK, Unseen, RefusedMeansUnseen
<1> QED
  BY <1>1, StorageInvariant, PTL

\* delete_volume_collection() returns only when each volume that was there when
\* it was called is gone or has been.
THEOREM CollectionIsDeleted == Spec => []DeletedAreGone
<1>1. StorageInv => DeletedAreGone
  <2> SUFFICES ASSUME StorageInv, ended.op = "delete", ended.outcome = "ok", NEW v \in Volumes,
                      \A i \in ended.since .. ended.until : v \in past[i]
               PROVE  FALSE
    BY DEF DeletedAreGone
  <2>1. /\ EndedOK(ended, storage) /\ ended.since \in Nat /\ ended.until \in Nat
        /\ Throughout(v, ended.since, ended.until)
    BY DEF StorageInv, EndedOK, EndedRecord, Throughout
  <2>2. v \notin past[ended.since]
    BY <2>1 DEF EndedOK
  <2>3. ended.since <= ended.until
    BY <2>1 DEF StorageInv, EndedOK
  <2>4. ended.since \in ended.since .. ended.until
    BY <2>1, <2>3
  <2> QED
    BY <2>2, <2>4
<1> QED
  BY <1>1, StorageInvariant, PTL
=============================================================================
