# Verification of python-ibmcclient

`ibmc_client` is a Python client for the Redfish interface of iBMC servers. This
directory holds TLA+ models of the parts of it that keep state, retry, wait or choose,
the TLC runs that check them on small instances, and theorems about them proved
with TLAPS. Paths are relative to `src/ibmc_client/`.

## Inventory

| component | state | operations | interacts with | hard behaviour | what makes it correct |
|---|---|---|---|---|---|
| connector (`connector.py`) | cached session, token in the header of the HTTP connection, root document | `connect`, `disconnect`, `request`, nested GET of the ETag, `_fetch_session` | every client calls `request`; the Redfish server | expiry in the middle of a call, retry after 401 and 412, nested logins, a timeout whose request arrives late | one call has at most one effect; success means the effect; a refusal means none; no update is lost; traffic is bounded; no stray session |
| client facade (`__init__.py`, `api/__init__.py`) | the connector | `with`, `load_odata`, `load_odata_collection`, `delete_odata` | connector | leaving the `with` while requests fail | disconnect does not hide errors |
| resources (`resources/`: `Storage`, `Drive`, `Volume`) | last document and ETag, cached drives and volumes | `refresh`, `set`, `restore`, `drives`, `volumes`, `delete_volume_collection` | connector, task client | stale ETag, stale caches, lists read member by member while others change them | an update is refused only for what the object has not seen, and a refusal is not passed over; a list is whole and of one moment; it ends |
| task client (`api/task/task.py`) | snapshot of a task | `get`, `wait_task` | volume client | snapshot behind the task, states nobody expects | it returns when the task has ended, with its outcome |
| volume client (`api/system/volume.py`) | none | `create`, `set_bootable`, `delete`, `init` | connector, task client | two requests for one volume, tasks of several programs | the id returned is of the volume that the own task made; a failed task changed nothing |
| RAID search (`raid_utils.py`) | none | `get_best_matched_disks`, `get_best_matched_disk_group` | disk planning | early exits, rounding, limits per span | no better solution exists; failure only if there is none |
| disk planning (`api/system/storage.py`, `LogicalDisk`) | exclusive disks, disk groups, planned drives | `init_disks`, the seven steps | RAID search, volume client | each choice limits the later ones; room counted on paper | no disk is used twice; the server accepts the plan; every volume is planned once |
| storage client (`api/system/storage.py`) | none | `apply_raid_configuration`, `delete_all_raid_configuration`, `waiting_storage_ready` | planning, volumes, drives, system | failures between controllers, tasks that go on, delayed effects, polling | success leaves what was asked for; a wrong request changes nothing; it ends |
| system, BIOS, boot source, chassis | last document | single GET, POST or PATCH | connector | none beyond the connector's | as for any call of the connector |

`PROJECT.json` lists the components with their status, and under `hazards` each thing
that can go wrong in this code and is hard to test, with its line and the properties
that would catch it.

## Modules

- `CallPromise` - what a call promises to its caller: it is performed at most once,
  before or after it returns with a connection error, and before it returns with success.
- `Connector` - `connector.py` against a session service. A call is a tree of HTTP
  exchanges; since an error unwinds all of it, the Python stack is described by the flags
  of one `call` record: which request is being made (`at`), the `retry` flags of the outer
  request and of the nested GET, the depth of nested logins. `Send` is `_conn.send`, the
  `React` actions are the branches of `Connector.request`, `ServeX` the server. A request
  stays in `net` after its sender gave up, so late effects are possible. The module
  implements `CallPromise` (`KeepsPromise`, by `INSTANCE ... WITH`). A client begins when its constructor
  has returned: the GET of the service root there is left out, since one that fails leaves no connector.
- `ConnectorProofs` - the theorems about `Connector`.
- `VolumeTask` - `create` and `delete` of volumes as tasks: `Posted` is the POST or DELETE,
  `Reload` the loop of `wait_task`, `Created`, `CreateFailed`, `Deleted` what follows
  `wait_task`, `Advance` and `Finish` the server. Each exchange is one step: its inner
  retries are `Connector`. The server chooses the id of a new volume among those not in use, also that of one
  deleted before, and names it in the task's messages; the program knows the task by the snapshot it
  loaded last, and the id by the messages in it. A task that ends without message arguments makes `create` raise
  after the volume was made (`CreatedNameless`); `WaitById` is `wait_task_by_id`, which
  reads a task of anybody's. A task that completes is the effect of the call, so the module
  implements `CallPromise` as well. `VolumeTaskProofs` has its theorems.
- `StorageResource` - one `Storage` object and the `Drive` objects it hands out. The server keeps
  every document as the sequence of its versions and the ETag is the number of the last,
  so what an object holds is one number (`storage.etag`, `storage.drives[d]`), and an
  object is stale when a later version exists. `ListVolumes`, `LoadVolume`, `LoadDrive` are the
  single GETs of a collection; `Patch`, `RestoreDrive`, `DeleteVolume` the requests that change
  something, each also with a lost answer; `refresh` drops the cached drives and keeps the
  cached volumes, as the code does. Others plug and pull drives, make hot spares,
  create and delete volumes and change settings between any two requests. A volume is known by its id,
  as to the code; the ids are not used again here, and the documents of volumes are left out.
  `StorageResourceProofs` has its theorems.
- `RaidUtils` - RAID levels and their limits, arrays of disks, and the promise of
  `get_best_matched_disks` (`BestSolutions`): among all sets of free disks of one media
  type that are legal for the level and large enough, one that no other beats. `RaidUtilsProofs` has
  lemmas about levels, capacities and sums of sizes.
- `RaidSolver` - `get_best_matched_disks` as the code does it, one turn of a loop a step: media
  types (`NextMediaType`), numbers of spans (`SkipSpan`, `TooFewDisks`, `TrySpan`), numbers of
  disks (`NotEnoughMatch`, `TryCount`), windows of the sorted disks (`TryWindow`), the early exit
  (`more_would_waste`, in `WindowsEnd`), and a comparison that keeps the first best; `pc` says which
  loop is next. The media types come in any order, as those of a `dict` do. `SortedByCapacity` is `sorted()`: the
  i-th disk is the one that i - 1 others precede. `MCRaidSolver` gives it requests; `RaidSolverProofs` has its theorems.
- `DiskPlan` - the planning for one controller and the creation of what was planned. The
  three ways a volume gets disks are `TakeDisks`, `JoinGroup` and `FoundGroup`
  (`use_shareable_solution`); `PlanFails` is every error of `init_disks`;
  `ordered_pending_volumes` is the set of turns <<selection, position>> that the two loops
  go through in order. It takes any of
  `BestSolutions` where the code takes the first, so ties and the order of a dict
  do not matter. `Create` is the payload of `to_create_volume_payload` sent in order, against a
  controller that makes arrays and refuses what does not fit. `DiskPlanProofs` has the theorems on
  what is planned and what it comes to, `DiskPlanFitProofs` those on types and on room.
- `RaidApply` - the two operations on all controllers, one after another, with requests
  and tasks that fail, answers that are lost after the effect, tasks that go on after the
  program gave up, effects that are delayed, and other programs that make or delete volumes or
  change settings meanwhile. `controller` and `Usable` are `init_ctrl`, `Group` and `Jbods` the
  groups of pending volumes and their validation. `reports` says whether the server has
  `StorageConfigReady`; without it `waiting_storage_ready` goes straight on. Volumes
  carry the time they were asked for (operation n runs at time 2n-1), so that a
  property can tell the operation's own from older and from foreign ones. A volume takes one
  drive here; how drives are chosen is `DiskPlan`. What others change is in `foreign`, by time,
  controller and drive, so that a volume that is missing can be told from one that was taken.
  `RaidApplyProofs` has its theorems.

`Connector` is below all others: the lower layer is replaced by what it promises.
`VolumeTask` and `RaidApply` take "a request acts at most once, also when it reports an
error" from `Connector`; `RaidApply` takes "the task is waited for, and its failure
changed nothing" from `VolumeTask`; so does `StorageResource`, of which `RaidApply` uses the part
that works on objects loaded for the purpose; `DiskPlan` takes from `RaidUtils` the `BestSolutions` that `RaidSolver` is proved to answer one of.

## Runs

| run | instance | what it shows |
|---|---|---|
| `connector_safety` | 1 program, 2 calls, 3 sessions, expiry, refused logins, lost exchanges | types, at most one effect, success and refusal mean what they say, no lost update, at most a fixed number of requests per call, refinement of `CallPromise`; no stray session between calls, however often sessions are renewed, unless a login was refused or an exchange lost; every call returns |
| `connector_login` | refused logins | violation: a refused login is repeated until the stack is exhausted |
| `connector_disconnect` | 2 calls, no loss, no refused logins | violation: `disconnect` raises when the server answers the DELETE of the session with an error |
| `volume_task` | 2 programs, 2 tasks | what an operation reports is what its own task did, and a volume it returns the one that task made; it happens once, before a success is reported (refinement of `CallPromise`); waits end |
| `volume_service` | a task that passes through state `Service` | violation: `wait_task` spins for ever |
| `raid_solver` | 7700 requests: 4 disks of two media types or 6 of one, 3 sizes, all 7 levels | the search finds a best solution, and its failures are of the right kind |
| `raid_python2` | the same, integer division | violation: disks that are too small are chosen |
| `disk_plan` | 3 controllers with 5 drives, up to 3 volumes of 15 kinds | no disk is used twice; the server refuses a planned volume only for the sharing MAX case; all or nothing; success means every volume once, on disks as asked for (type and number) whenever it starts an array or its disks were named |
| `disk_plan_max` | the same | violation: a group started by a sharing MAX volume is overfilled |
| `disk_plan_criteria` | the same | violation: a sharing volume without named disks that joins an array is put on disks of another type than it asked for |
| `storage_resource` | 2 drives, one with a volume, one a hot spare; 3 calls, 2 changes by others, 1 failed request | a forced list is of one moment; caches are whole; after the drives have been restored only others can have left a hot spare among them; the own `set` never makes the next one fail; deletion leaves nothing of what it found; operations end |
| `raid_apply` | 2 controllers with 2 drives and a name in common, 8 requests, most of them wrong for one logical disk or one of the servers, 3 operations, 1 failure or foreign change; a server that reports its state and one that does not | after success exactly what was asked for exists, whatever others did; a wrong request changes nothing; unless it began while a server that does not report was at work, only a foreign change can make the server refuse something, and disks just freed are found; operations end |

Why the bounds are enough. One client program per connector is the program's own use; a
foreign writer and expiry are steps of their own, so one program meets all the
interference a second could cause; in `StorageResource` and `RaidApply` too, other programs are steps of their own. Two calls let a late request of the first meet the
second; three sessions let a session expire twice within a call. `StackLimit` stands for the
interpreter's recursion limit: that it is reached is what matters, not when. Two tasks
interleave in every way. Six disks are the least with which the levels 5+0 and 6+0 have a
choice to make and 1+0 can have two or three spans. Three volumes are the least in which a
volume starts a group, another joins it and a third competes. The kinds are at least one of
each of the seven steps. Three operations with one trouble are "fail, delete all, apply again". In
`StorageResource` three calls are "fill a cache, change something, use it", and two changes
let a drive or volume go away and come back as another one.

Fairness. `Connector`: the client's own code runs (weak fairness of sending and reacting),
and an awaited exchange is answered or its 60 s timeout fires; nothing is assumed of
requests nobody waits for, nor of expiry, foreign writes or the next call. `VolumeTask`: programs run, and every task of the server
ends. `RaidApply`: the program runs and the server finishes what it is doing; nothing is
assumed of failures, of other programs or of the program's next call. `StorageResource`: the program runs
(every step but the calls themselves, which it need not make); a request answers, with an error at least.

## What is proved

Every safety property the passing runs check is
a theorem of the specification, for every value of the constants; so are the two refinements of
`CallPromise`. Each theorem has the same shape: an invariant that is stronger than the
property, that the initial states satisfy and every step keeps, with one lemma or step per action.
Bounds (`MaxCalls`, `MaxTasks`, `MaxTroubles`, ...) are any numbers.

### Connector

`ConnectorProofs` is about any set of clients, any bounds and both settings of
`Lossy` and `RefuseLogins`; it assumes only `ConstantsAssumption` (the bounds are numbers).

- `TypeCorrect`: `Spec => []TypeOK`. `TypeOK` alone is not inductive: that a retry finds a
  request to resume needs `StackOK`, which says which flags of a call can go together.
  `TypeInv` is their conjunction.
- `CallsAreSafe`: `Spec => [](AtMostOnce /\ OkMeansPerformed /\ RefusedMeansNothing)`, and
  `OkCallsActed` and `RefusedCallsDidNothing` by themselves. That a
  call acts once follows from where its requests can be: `NetOK` (a request on the network
  is what its waiting sender sent, or belongs to a call that lost its connection),
  `NetUnique` (one at a time), `NetFresh` (what may still act belongs to a call that has not
  acted), `LogOK` (the current call has acted only if the answer that says so, or an error,
  is on its way) and `OkReply`. `CallInv` is inductive relative to `TypeInv`.
- `UpdatesAreNotLost`: `Spec => []NoLostUpdate`, from `UpdateInv`: every PATCH with an explicit
  ETag on the network carries the version its caller named.
- `ConnectorKeepsPromise`: `Spec => KeepsPromise`. A start, a return and an effect on the server are
  the three actions of `CallPromise`; every retry, login, ETag read and loss is a stutter. The effect
  needs `CallInv` (the call has not acted before) and `LateOK`: a request that outlives its call belongs to
  a call that reported a connection error.
- `SessionsAreTidy`: `Spec => []NoStraySession`, in all settings: of a client of which no login has been refused and no
  exchange lost. It follows from `SmoothLogins` (of such a client no login is nested) and `SessionsOK`: the header carries the cached session, a client about to log in has no
  live session, and a session the client does not know yet is in the response on its way.
- `TrafficIsBounded`: `Spec => []TrafficBounded`. `BudgetOK` adds to what a call has sent what it may
  still send from where it is (`Left`), which no step lets exceed `TrafficLimit`.

### Tasks

`VolumeTaskProofs`, for any programs and number of tasks, assumes only the module's assumptions on constants.
`TypeCorrect`, `CreatedVolumesAreThere`, `CreatedVolumesBoot`, `FailedTasksDidNothing` and
`OperationsKeepPromise` (the refinement) follow from `TypeInv /\ TaskInv`: a snapshot
that shows the end of a task is no longer out of date and the task is the program's own (`CallOK`); what was
reported is what the task came to, and the id returned is that of the volume the own task made (`DoneOK`); volumes that
are still there have different ids; every task belongs to an operation that waits for it,
has reported it, or ended with an error (`Owned`); it has had its effect exactly if it
completed (`EffectOK`).

### Disk planning

`DiskPlanProofs` and `DiskPlanFitProofs` are about any disks, hardware and requests, under
`RequestsAssumption` (what a logical disk consists of) and `HardwareAssumption`, which is how a controller
reports its hardware: the disks are finitely many and have a capacity, a drive with a volume is not
`UnconfiguredGood`, two volumes that share a drive are on the same drives with the same level and spans, and the
drives of one array are of one medium. That a drive has a capacity matters: of drives without any the program would
plan a MAX volume, and the server refuse it.

- `DisksAreUsedOnce`: `Spec => []DisksUsedOnce`, and `CreatesAllOrNothing`:
  `Spec => []AllOrNothing`. Both follow from `PlanInv`, which adds what the properties do not
  say: the disks of every plan are in `exclusive`, every group is an array of the server or the
  disks of a plan (`OwnersOK`), and a volume has no plan exactly as long as its turn is to come
  (`TurnsOK`). That the seven selections leave no volume out and take none twice is the lemma
  `EveryVolumeHasOneTurn`; that a solution has only free disks is `SolutionsAreFree`.
- `DoneIsAllThatWasAsked`: `Spec => []DoneMeansAll`. The program names one drive of the array a
  volume is to join, and the server goes by its own tables. `ArraysOK` says that the arrays of the
  server, of the plan and of the program's groups are the same where they meet; `PlansOK`, that what is planned for a
  volume matches it, in type and number of disks where it starts an array or names its disks; `MadeOK`, that each pending volume is made once. A group
  that is found by kind of disk matches by one of its disks, which is why the medium of an array matters.
- `PlanTypesAreRight`: `Spec => []TypeOK`. That a group's used capacity stays a size needs what the search
  promises: a solution has room, and a group is joined only if it has.
- `PlansFitTheServer`: `Spec => []PlansFit`. The program keeps one number for a group, the server one volume after
  the other. `FitInv` relates them by the order of the turns (`OrderOK`): the used capacity is what the volumes there
  and those planned so far take (`LedgerOK`); each planned volume fits what those before it in the order leave, and the
  array it joins is there by then (`FitsOK`); while the server creates, its arrays are as full as the plan says of
  the turns that are over (`ServerFits`). A turn that the server refused would contradict this (`NowIsAcceptable`),
  unless a sharing MAX volume started the group, of which the ledger knows nothing (`MaxFounded`). TLC checked
  `FitInv` on an instance like that of `disk_plan` before it was proved.

A sum of sizes is a fold over a set. That it does not matter in which order the fold takes the elements
(`SumTakesOut`) is an induction over a finite set. The induction theorems of the library have an operator as parameter,
which no prover at hand instantiates; `SubsetInduction` has a set instead, the set of the subsets for which the claim holds.

### The search for disks

`RaidSolverProofs` is about any tables of drives and any requests, under `RaidSolverAssumption`: a table is a sequence
of drives with a capacity, the levels are those of `RAID_SETTINGS`, sizes and numbers are numbers or what stands for MAX and
"not given". `SearchInv` is `LoopInv` (where the loops are: the number of spans suits, the number of disks is a multiple
of it), `FlagInv` (the flag is set exactly if some number of spans tried so far suits) and `BestInv` (the best
solution is a list of disks, once each, in order of capacity; what is answered is what was found). TLC checked them, and `FindInv`,
on the instance of `raid_solver` before they were proved.

- `SearchTypesAreRight`: `Spec => []TypeOK`, from `SearchInv`. That `SortedByCapacity` is in order and has every disk
  once rests on `Precedes` being a strict total order (`SortedIsInOrder`).
- `InvalidIsInvalid`: `Spec => []InvalidNumberIsInvalid`, from `FlagInv`. That some legal array exists
  of any number of uniform disks that some number of spans divides needs `LegalLeavesRoom`: every level leaves data
  room.
- `SearchFindsTheBest`: `Spec => []FindsTheBest`. The reference ranges over all sets of disks, the code compares
  windows only. `FindInv` says that the best solution is an array, and that no array the loops have passed beats it: one of a
  group, number of spans or number of disks before the present ones, or one whose smallest disk is at a place before
  the present start. So a window stands for all arrays that start at its place. It beats or equals each of them, since disk
  by disk it is no larger (`WindowIsLeast`: a sum over two sets splits into what they share and what only one has). The
  early exit passes all larger numbers of disks and is justified as the comment in the code says: when every
  disk is large enough, an array of more disks starts where a window of the present number starts, which was
  compared and wastes no more (`MoreWouldWaste`). The theorem assumes `Python = 3`:
  an array of large enough disks has the size asked for only if the quotient is rounded up (`RequiredIsEnough`).
  Under Python 2 the claim is false, as the run `raid_python2` shows.

### Storage objects

`StorageResourceProofs`, for any drives, assumes that no drive is called `"ctrl"`, as the model calls the
controller. `TypeCorrect`, `VolumesAreOfOneMoment`, `ListsAreWhole`,
`RestoringLeavesNoSpares`, `RefusalsAreForChanges` and `CollectionIsDeleted` follow from `StorageInv`:
an ETag the object holds is the last one or something unseen came after it (`Known`); a list being
read is part of the links of one moment since the call began, and what was read of it was there then
(`CallOK`); what a deletion has still to do includes all that was there throughout; a drive that the restoring loop has
done is no hot spare in the version the object holds (`Restored`), and from such a version only others lead to a
hot spare (`DriveVersions`).

### Operations on all controllers

`RaidApplyProofs` is about any number of controllers, drives, operations, failures and foreign changes,
and any requests. `RaidApplyAssumption` says what the constants are: the controllers are a sequence
without repetition, the drives finitely many, a request a sequence of logical disks.

- `TypeCorrect`, from `TypeInv` (what can be where) and `TaskInv`: a drive has one volume, a task that creates has
  its drive to itself, and an operation that waits has exactly one task of its own time.
- `InvalidIsHarmless`: `Spec => []InvalidChangesNothing`, from `AskInv`.
- `RefusalsAreOthersDoing`: `Spec => []RefusedMeansDisturbed`. `QuietInv` says what an operation
  knows that has seen the server ready: every task is its own; and, unless another
  program disturbs it, only what it has just done itself is still settling, what it has to
  delete is there, and what it has to create is not (`Known`).
- `DeletionsDelete`: `Spec => []DeletedMeansGone`. `DeletedSoFar` follows the deletion through the
  controllers: behind it nothing old is left, and what is left of the current one is still to be
  deleted or has its task. `Older`: undisturbed, everything on the server is older than the deletion, so that nothing remains.
- `ApplicationsAreWhole`: `Spec => []AppliedMeansAll`. `ApplyInv` says of every controller done that
  it has what it was asked for (`Finished`: as many drives as volumes, each with its volume unless
  another program took it, `AsAsked`) and no task at work on it, and of the current
  one the same for the volumes asked for so far (`AtWork`). Others need a task-free controller for
  nothing here: an old task that completes is on a controller whose turn is to come. The count of
  the property follows from the set of drives by injections and surjections (`CountMade`).
  `ClearedInv`: after a deletion nobody disturbed, all volumes and tasks are of the operation after it.
- `NoDiskIsMissed`: `Spec => []NoDisksMeansNone`, from `QuietInv` (nothing is settling, so the program sees every drive
  as it is) and `ApplyInv` (it has made nothing on the controller yet).

An attempt to prove `AppliedMeansAll` showed that it was stated too weakly: it counted the foreign deletions
by time and controller, so that two of them at one time excused any number of missing volumes less one, and one elsewhere
excused one here. It now counts those on the controller, by drive.

### Only model-checked

Liveness (`CallsReturn`, `WaitEnds`, both `OperationsEnd`), which is beyond the prover: it needs `ENABLED`.

## Disagreements found

Each is a run that TLC must find violated; `findings` in `PROJECT.json` quotes the lines.

1. `disconnect` means to ignore a failed DELETE but catches the wrong exception (`connector.py:110`). The run
   shows it with a session that is alive and a server that answers the DELETE with an error.
2. A 401 to the login itself logs in again without limit (`connector.py:162`).
3. `wait_task` never returns for a task seen in state `Service` (`api/task/task.py:59`).
4. The capacity required of each disk is rounded down under Python 2 (`raid_utils.py:572`).
5. A sharing MAX volume on new disks counts as -1 byte in its group (`api/system/storage.py:287`).
6. A sharing volume without named disks joins an array by level and room alone, also when it asks for a type of
   disk (`api/system/storage.py:249`), which the schema calls a selection criterion. The number of disks it asks
   for is not looked at either.

Two more lines of `raid_config_schema.json` differ from the code, without a run of their own: by default "the driver
uses the minimum number of disks" (line 74), whereas the code chooses any number that wastes least, as the docstring
of `get_best_matched_disks` says, which is what `FindsTheBest` follows; and without a hint "the driver will choose a suitable
RAID controller" (line 78), whereas `init_ctrl` raises `ControllerHintRequired` if there are several, which
is one of the cases of `Invalid`.

Not a disagreement with any text, but worth knowing, and visible in the models: `volumes()` without
`force_reload` may return volumes the object itself has deleted, since `refresh` and
`delete_volume_collection` keep the list; `drives(force_reload=True)` loads the drives again but
not the links to them; a `number_of_physical_disks` of 0, which the schema excludes, passes `LogicalDisk`: the search runs as
if no number were given and then raises `InvalidPhysicalDiskNumber` whatever it has found; `restore()` leaves the object with an old ETag; an automatic volume, planned in
an earlier selection, may take a disk that a sharing volume names; a connect that fails after
the login leaves a client whose next `connect()` does nothing.

## Not modelled

BIOS, boot source, chassis and the remaining system calls are one or two requests without state; the
configuration schema is read by no code; logging, messages, summaries and
`human_readable_byte` are output. The host name and URL arithmetic of `get_url` is
abstracted to the identity of what is asked for. `sort_and_group_pending_logical_disk_list` and
`guess_span_number` are called by nothing but tests. A redirecting server (3xx) is not modelled.
In `DiskPlan` the same disk named by two hints, and a size of 0, are left out: the code sends both to the
server, and what a server makes of them is not in the code. `RaidApply` assumes that
`StorageConfigReady` is off while a task runs, and that `RAID_TASK_EFFECT_SECONDS` are enough. On a
server without that attribute nothing protects an operation from a task that an earlier one
gave up waiting for; there its properties speak only of operations that began on an idle server (`alone`).
In `StorageResource` the task that deletes a volume is part of the request, and a drive is
restored by a program that holds one `Storage` object; several objects are several others. That the members of
a list are read at different moments matters there only for which of them exist: the documents of volumes are left out.
`DiskPlan` has one attribute of a drive for media type and interface, which the code compares alike.

## Plan

Order of work, most important behaviour first:

1. (done) `Connector` with `CallPromise`, its runs and its theorems.
2. (done) `VolumeTask`; `RaidUtils`, `RaidSolver`; `DiskPlan` and its theorems; `RaidApply`.
3. (done) `StorageResource`; other programs, servers without `StorageConfigReady` and controller hints in
   `RaidApply`; `VolumeTask` as an implementation of `CallPromise`.
4. (done) Proofs: both refinements of `CallPromise`, and every safety property of every module.
5. Next: what of liveness is safety: for the search, and for the calls and operations that end, a measure that every
   step of the program's own decreases, as theorems about steps, since `ENABLED` cannot be proved about.
