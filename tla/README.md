# meteor-operator in TLA+

A model of the controllers of thoth-station/meteor-operator, checked with TLC on
small instances and, for its central safety properties, proved with TLAPS for
every instance. `PROJECT.json` lists components, runs, mutants, findings,
hazards and theorems, and maps every definition to the source lines it models.

## The system

The operator is one process with three controllers on one manager
(`main.go`). A controller takes a key from its workqueue, reads objects from the
manager's **cache**, which lags the API server, and **writes** to the API
server, which refuses an update whose `resourceVersion` is old. Watches fill the
cache and enqueue keys. One worker serves each controller, so a controller does
not race with itself; it races with users, Tekton, the garbage collector, its
own cache, failing calls and the end of its process.

| Component | State | Operations | What makes it correct |
|---|---|---|---|
| Meteor controller (`controllers/meteor`) | Meteor (finalizer, TTL, status with phase, conditions, pipelines, stages, comas); `r.Meteor` and `r.Shower`, which survive between reconciles | Reconcile: refresh, findOwnerShower, TTL, EnsureFinalizers, ReconcileComas, ReconcilePipelineRun per pipeline, UpdateStatusNow | gone means its Comas are gone; no Coma forgotten; expired means deleted, and deleted means gone; status tells the truth about the builds; every pipeline gets its run |
| Comas (`coma_types.go`, `coma_reconciler.go`) | one per external namespace, owner in its status | created, adopted, deleted by the finalizer | no Coma outlives its Meteor |
| CustomRuntimeEnvironment controller (`controllers/cre`) | resource with generations, accumulated conditions, phase; one PipelineRun per generation | Reconcile, reconcilePipelineRun, status update; never requeues itself | a success was built; every generation gets its run and its outcome is not lost |
| Webhook (`customruntimeenvironment_webhook.go`) | none | Validate on create and update | an admitted package list gives its PipelineRun packages and something to build on |
| Shower controller (`controllers/shower`) | Shower status (phase, Deployment condition, URL); nine kinds of objects in its namespace, a Role and a RoleBinding in each external one | ordered list of sub-reconcilers, status update; never repeats a reconcile that went through | objects follow the spec, phase and URL follow the objects, a Shower that is gone leaves nothing |
| Metrics (`controllers/common/metrics.go`) | gauge of phases, counters, in memory | before and after a Meteor reconcile | one phase is shown |
| Start-up (`main.go`, MeteorConfig) | scheme, configuration, controllers, informers | init, main, end and restart of the process | the controllers that are enabled come to reconcile |

Interaction: the Meteor controller reads Showers (whose `externalServices` say
where Comas go) and owns PipelineRuns; Tekton runs those; the garbage collector
follows owner references; the Shower owns its Meteors.

Hard behaviours: stale reads before unconditional deletes; creation in one
reconcile and its record in another; a finalizer that is retried after part of
it was done; a panic that restarts the process in a loop; conditions that
outlive the generation they are about; progress that depends on events alone.

## Modules

| Module | Models | |
|---|---|---|
| `Conditions` | condition lists and the `meta` helpers of apimachinery (external) | used by `Meteor` |
| `Meteor` | the Meteor controller, Comas, the Showers, the cluster around them | properties and the inductive invariant are at the end |
| `Lifecycle` | abstract: what the controller promises of a Meteor's life | `Meteor` implements it |
| `MeteorProofs` | theorems about `Meteor` | TLAPS |
| `MeteorRefinement` | the proof that `Meteor` implements `Lifecycle` | TLAPS |
| `MeteorOutcomes` | the proof that the status tells what became of the builds, on top of `MeteorRefinement` | TLAPS |
| `MetricsProofs` | the proof that the gauge shows one phase | TLAPS |
| `CREProofs` | a theorem about `CRE` behind its webhook | TLAPS |
| `CREStatusProofs` | types of `CRE`, and what its phase Succeeded is worth | TLAPS |
| `ShowerProofs` | types, status and owners of `Shower` | TLAPS |
| `MeteorMetrics` | the gauge of phases, added to `Meteor` | changes no step of it |
| `CRE` | the webhook, the CustomRuntimeEnvironment controller and its cluster | |
| `Shower` | the Shower controller, its objects and its cluster | |
| `Startup` | init, main and the manager's start | constants are in its .cfg |
| `MCMeteor`, `MCMetrics`, `MCCRE`, `MCShower` | constants for TLC | |

### Meteor

`met`, `coma`, `pr`, `shower` (a Shower per name) are the objects on the API
server, `cmet`, `ccoma`, `cpr`, `cshower` the operator's caches, `w` is `r.Meteor`, `rshower` is
`r.Shower`, `pc` and `idx` say where Reconcile is, `queue` whether the key waits.
A worker action is the code from one API write to the next, so every write can
be interleaved with everything else; each has its success, its refusal
(conflict, NotFound, AlreadyExists) and a failure without effect (`Fault`).

| Action | Code |
|---|---|
| `ReconcileNothing`, `Reconcile`, `NoShowerStatus` | Get, refresh of the status, findOwnerShower, status write when that fails |
| `DeleteExpired` | TTL test on the copy, Delete by name |
| `AddFinalizer`, `BeginFinalize`, `NothingToFinalize`, `DeleteComa`, `RemoveFinalizer` | EnsureFinalizers and DeleteComas, one step per Delete |
| `Panic` | the range over a nil `r.Shower` |
| `NextService`, `CreateComa`, `GetComaFails`, `AdoptComa` | ReconcileComas, one step per service |
| `CreatePipelineRun`, `GetPipelineRunFails`, `ReportPipelineRun`, `PipelinesDone` | ReconcilePipelineRun, one step per pipeline |
| `UpdateStatusNow` | the status write, after which the Meteor is requeued whatever happened |
| `SyncMeteor`, `SyncPipelineRun`, `SyncComa`, `SyncShower` | watches; the first two enqueue (For, Owns) |
| `Crash`, `Restart` | end and start of the process |
| `UserCreate`, `UserDelete`, `UserEdit`, `LoseComa`, `ChangeShower`, `CollectMeteor`, `CollectPipelineRun`, `ReleaseMeteor`, `TektonStep`, `PrunePipelineRun`, `Tick` | the cluster |

A created Coma comes back without apiVersion (the client clears the type of an
object it decodes), so the check after it ends ReconcileComas: a Coma is always
recorded by a later reconcile than the one that creates it.

`findOwnerShower` lists the Showers of the whole cluster. One Shower is taken
whatever the label says; of several, a label that names one makes `r.Shower` the
address of the loop's variable, that is, whichever the list ends with (a cached
list has no order); without such a label `r.Shower` stays what the last
reconcile, possibly another Meteor's (`OtherMeteor`), left. `Controlled` is
SetControllerReference with its ignored errors: a reference is compared by name,
and one across namespaces is refused silently. Only the update that adds the
finalizer stores it. `Duration` wraps around like `time.Duration`.

A Meteor is deleted in the background or in the foreground. The latter puts the
garbage collector's finalizer (`held`) beside the operator's: the Meteor's
PipelineRuns are collected while it is still there, and `ReleaseMeteor` takes that
finalizer away. Reconcile may then find a Meteor that is being deleted without
the operator's finalizer, before or after it was ever added
(`NothingToFinalize`).

`Lifecycle` sees of all this a stage (absent, live, terminating), the
incarnation, the Comas listed and the Comas alive. It lets a Meteor go in two
ways: after a deletion mark when nothing it listed is alive, or without a mark
when it never listed anything. `ImplementsLifecycle` is that specification under
the refinement mapping `Life` of `Meteor`: the stage from the Meteor's existence
and deletion mark, the list from its status, the Comas alive by their uids.

`MeteorMetrics` conjoins each step with what it does to the gauge: off the phase
the cached status held, on the phase the conditions give. It depends on the order
of the two calls around the refresh, and on findOwnerShower's status write lying
between them.

### CRE

`cre`, `pr` are the objects, `ccre`, `cpr` the caches, `news` the runs whose
events have not arrived. A run is named by generation and pipeline only. A spec
is the set of its fields that are given, and each mandatory annotation is missing,
empty or given: the webhook asks only for its key. `UserCreate`
and `UserEdit` take specs that pass the webhook (`Admitted`); an edit starts a
generation when it changes the spec and none when it changes metadata.
`UserDelete` has one disjunct for background and one for foreground deletion. A
run keeps the parameters that carry a value (`params`); a
package-list run without `baseImage`, which its pipeline declares without a
default, does not start (`Startable`).
Conditions are a function of their type (`Set`, `IsTrue`, `IsThere`): unlike the
Meteor's, whose phase depends on the order of the list, these are only ever
looked up by type.
The message of `ErrorPipelineRunCreate` (the error itself) is kept because it
decides whether the status write that follows is a change, and so whether an
event brings the controller back.

### Shower

`shower`, `child` are the objects, `cshower`, `cchild` the caches. Instead of
version numbers, `lag` holds whose version moved on since it was read: cached
objects, the cached Shower, the worker's copy. A child is what its
sub-reconciler compares and overwrites (`main`: rules, subjects, ports, pod
template, host), a Route's labels and port, and a Deployment's availability. A
RoleBinding's RoleRef is not part of it: it follows from the names alone and the
API server lets nobody change it. A Route for which no host is asked has one
all the same: OpenShift generates it (`GeneratedHost`), or lets the Route keep the
host it had (`Stated`), and it is that host that the status publishes.

| Action | Code |
|---|---|
| `ReconcileNothing`, `Reconcile` | Get, deletion mark, refresh of the status, the list of sub-reconcilers (`actions`) |
| `CreateChild` | NotFound: the object is created, with a controller reference when it is in the Shower's namespace |
| `GetChildFails` | any other error of Get |
| `UpdateChild`, `KeepChild` | the comparison (`Differs`) and the write (`Written`), what the status learns (`Learnt`) |
| `Panic` | a label written into the nil map of a Route without labels |
| `ChildrenDone`, `UpdateStatusNow` | end of the list, status write |
| `SyncShower`, `SyncChild`, `MeteorEvent` | For, Owns |
| `Crash`, `Restart` and the rest | process and cluster: edits, deletion, lost and changed objects, pods, garbage collection |

`actions(spec)` is the list Reconcile builds, as a function of the place in it;
`Places` are those that are filled (a service without a namespace gets neither
Role nor RoleBinding, and an instance leaves some kinds out), `Following` is the
loop's step to the next one.
The nine sub-reconcilers share one shape (Get, create, compare, update); they
differ in what `Desired`, `Differs`, `Written` and `Learnt` say of them. The
constant `Modelled` picks the ones of an instance.

### Startup

`pc` goes through init, main, setup and start; `scheme`, `EnableShower`,
`controllers`, `synced` are what each stage leaves. An informer of a kind that is
not in the scheme never syncs, and `CacheSyncTimeout` ends the process, which
the cluster starts again.

### Abstractions

- A cache jumps to the present object; events in between are coalesced. In
  `CRE`, whose progress rests on events, a run that comes and goes unseen still
  causes one.
- Messages (but the one above), timestamps in conditions, the Meteor's
  observedGeneration and the values of most parameters are left out; of the
  Meteor's run the Comas in its ownerReferences parameter are kept, of a
  CustomRuntimeEnvironment's run which parameters are given.
- A failed call has no effect. A call that took effect and whose answer was lost
  leaves what a crash right after it leaves.
- RequeueAfter, rate limits and back-off are an immediate requeue; the ten-hour
  resync of the cache is left out, so progress never rests on it.
- `spec.pipelines` and the selector label do not change. There is one Meteor
  (or resource, or Shower) name; what other Meteors do to `r.Shower` is
  `OtherMeteor`, and the Meteors a Shower owns are `MeteorEvent`.
- A Route's labels and annotations are one attribute, host and path another.
- Users do not remove the finalizer by hand.
- `clock` counts abstract instants; the TTL is a number of them.

## Runs

Disturbances are bounded by the constant `Limits` (`Meteor`, per kind, and by its
entry "any" all kinds together), by
`Budget` (`CRE`, where each kind has a cost, and `Shower`), or by `MaxFaults`
(`Startup`); incarnations by `MaxIncarnations` or `MaxUid`, time by `MaxClock`,
generations by `MaxGen`. `CHECK_DEADLOCK FALSE` everywhere: a cluster whose last
resource is gone, and a controller that waits for events, may stop.

| Run | Result | Bounds and what they let happen |
|---|---|---|
| `meteor_finalizer` | `TypeOK`, `GoneMeansComasGone`, `RecordedComasStay`, `ImplementsLifecycle` hold | 2 namespaces, 2 incarnations, 1 fault, 1 lost Coma, 2 deletions in the background or foreground, 3 of these in all: the finalizer fails between two Comas, a name is re-created over old Comas (3.2 million states) |
| `meteor_build` | `OutcomesTrue`, `OnePhase` hold | 1 pipeline and two of a fault, a crash, an edit, a deletion: a run ends while a status write conflicts (5.4 million states) |
| `meteor_progress` | `PipelinesStart`, `OutcomeReported` hold | 1 pipeline, a Shower that names a namespace or does not, and one of a fault, a crash, an edit, a pruned run, a change of the Shower: the run is created only after several reconciles, and again after it was pruned |
| `meteor_expiry` | `ExpiredIsDeleted`, `DeletionCompletes` hold | no Shower at first, two Showers of which one is in another namespace, a label or none, a TTL of 1, the largest that fits the duration type, or none; two of a fault, a crash, an edit, a deletion, a lost Coma, another Meteor's reconcile, and up to 2 changes of the Showers: the panic loop, a Shower remembered after it is gone, a finalizer that is retried after a fault or behind a lost Coma |
| `cre_build` | `TypeOK`, `SuccessWasBuilt`, `RunsValidated`, `SuccessIsFinal`, `RunCreated`, `OutcomeReached` hold | 4 specs the webhook admits and 2 it refuses, 2 generations, edits that may change the build type, a budget of 2 that buys a fault, a crash, a deletion or a pruned run, or else two edits: an edit crosses a status write, which is then lost |
| `shower_edits` | `ChildrenFollow`, `PhaseFollows`, `UrlFollows` hold | Deployment and Route, a spec with labels, image and external namespace and one without, a host asked for and one generated, 2 disturbances of 7 kinds: an edit behind a conflict, the labels panic |
| `shower_again` | `TypeOK`, `ObservedIsTrue`, `ChildrenFollow`, `ChildrenCollected` hold | a Role, the Deployment and an external Role, 2 specs, 2 incarnations, 1 disturbance of 6 kinds: a late reconcile creates objects of a dead owner, a new Shower finds its predecessor's and has its generation |

`ChildrenFollow` says more in the second Shower run: there objects die with
their owner under the new Shower's feet, and must come back.

The runs expected to fail each check one sentence of the repository that the
code does not keep; `findings` quotes it and names the line.

| Run | Sentence refuted |
|---|---|
| `meteor_ttl_stuck` | the TTL bounds the life of a Meteor: one failed call in the finalizer, and NotFound on the retry keeps it for ever |
| `meteor_orphan` | a Coma is owned: deletion between creation and record of a Coma |
| `meteor_owner` | a Shower is associated with the Meteors produced from it: a Meteor labelled for one Shower is owned by the other |
| `cre_stale` | "should be in Phase 'Running'": AlreadyExists from a stale cache |
| `shower_enabled` | the flag that enables the Shower controller: the Route kind is never registered, and the process exits again and again, with all controllers |

Some things the code does not keep, although one might expect them of it. No
property claims them; the models show how they fail:

- A Meteor may be deleted that has not expired. Delete by name goes by the TTL of
  the cached copy and has no precondition (`meteor_controller.go:97`): with a TTL
  and two incarnations the TTL of a deleted Meteor deletes the one re-created
  under its name, and one whose TTL was extended a moment ago is deleted as well.
- With a TTL one above the largest that fits the duration type, or a negative one,
  the expiration lies in the past and the Meteor is deleted at once
  (`meteor_types.go:145`; in the code from 9223372037 seconds on).
- A Meteor whose Shower names no namespace never gets a PipelineRun, and no
  condition says so (`pipelinerun_reconciler.go:54`). `PipelinesStart` is stated for
  the others (`ComaWanted`).
- A deletion stays behind a missing Coma for ever; `DeletionCompletes` says that
  this is the only thing it stays behind, and `meteor_ttl_stuck` shows it.
- A run that ends with the reason Completed, a success for Tekton and for
  AggregatePhase, is listed under `status.stage.failed` and its pipeline is never
  Ready (`pipelinerun_reconciler.go:179`), which contradicts "Component terminated
  with a failure" (`meteor_types.go:65`) and "True if build completed
  successfully" (line 53). `OutcomesTrue` says what the code does: the Failed
  stage holds what ended with any other reason than Succeeded.
- Phase Succeeded may be about an earlier generation of a
  CustomRuntimeEnvironment: an edit and a lost status write leave it there with
  the new observedGeneration while the run has not ended, a failed Get behind an
  edit does, and an edit of the build type makes a failed run Succeeded on account
  of the condition of the old type (`customruntimeenvironment_types.go:151`).
  `SuccessWasBuilt` says what is left: some build of this or an earlier generation
  succeeded. `OutcomeReached` says that the present pipeline's own condition comes
  to tell how the present run ended.
- The same Create error twice in a row leaves the status as it is, so no event
  follows and no run is ever created (`cre/controller.go:247`): `RunCreated` under
  costs `Evenly` and Budget 2. It is checked with one failing call.
- From the second generation on a success may be taken back, for the reasons
  above; `SuccessIsFinal` is about the first.
- A mandatory annotation of a CustomRuntimeEnvironment may be empty, and then is
  the parameter made of it (`customruntimeenvironment_webhook.go:112` asks for the
  key only).

Other behaviour that the models show, or that reading for them showed:

- A Meteor without `ttl` never expires (`meteor_types.go:134`), while
  `README.md:25` says "defaults to 24h".
- With two pipelines the phase is Succeeded as soon as the conditions there are
  are done, the second pipeline having none yet (`meteor_types.go:172`; compare
  "Claim ready only if pipelineruns have completed", line 159).
- A Meteor re-created under its name reports the PipelineRun of its predecessor
  until that is collected (`pipelinerun_reconciler.go:51`); so does a
  CustomRuntimeEnvironment, whose generations start at 1 again.
- A crash between the creation of a CustomRuntimeEnvironment's run and the
  status write: PipelineRunCreated is never set and the phase is Pending while
  the run is active (`cre/controller.go:260`).
- Ready and Url of a CustomRuntimeEnvironment are set only below a return that
  every run with conditions takes (`cre/controller.go:355`).
- A GitRepository build that succeeds ends in phase Failed
  (`cre/controller.go:316`).
- A package list on a runtime environment is admitted, but its run lacks the
  `baseImage` its pipeline requires (`cre/controller.go:188`).
- Labels added to a Shower whose Route has none make every reconcile panic at
  the Route (`route_reconciler.go:74`); the objects ahead of it still follow,
  which `ChildrenFollow` checks.
- A Route's port that somebody changed stays changed, and an unchanged Route is
  updated by every reconcile (`route_reconciler.go:67`).
- ServiceMonitors are not watched, Roles and RoleBindings in other namespaces
  neither watched nor owned (the ignored error of SetControllerReference): a
  loss is not repaired by an event, and the latter outlive the Shower. The
  ten-hour resync, which the models leave out, repairs losses.
- A Shower's phase lags its condition by one reconcile, and a Deployment that
  becomes unavailable again leaves it Succeeded.
- `meteor_total` grows with every reconcile of a Meteor without TTL,
  `meteor_deleted_total` with every reconcile of a terminating one, and the
  gauge of a Meteor that is gone stays at 1 (`metrics.go:52`). The gauge's labels
  lack the namespace, so Meteors of one name in two namespaces share it; the
  model has one name.
- The flag's key in the configuration file is `enableComa`, below `spec`; the
  shipped file says `enableShower` at the top level, which is ignored
  (`config/manager/controller_manager_config.yaml:12`).

### Fairness

`FairSpec` assumes weak fairness of the worker (a controller-runtime worker
takes the next key as long as there is one), of the watches, of the restart of a
dead process (the Deployment's restartPolicy), of the garbage collector and,
where runs are reported, of Tekton; in `Meteor` also of time, in `Startup` of
the process as a whole. Nothing is assumed of users, pods, faults or crashes;
they are bounded, so liveness is progress once disturbances end. `Shower` states
its properties as "in the end, always", since edits and losses come back.

## Proofs

`MeteorProofs` and `MeteorRefinement` prove, for all pipelines, namespaces, TTLs,
duration bounds, Showers, selectors, incarnations, clocks and disturbance limits,
from the named assumptions on the constants in `Meteor`:

- `TypeCorrect`: `Spec => []TypeOK`;
- `FinalizerPromise`: `Spec => []GoneMeansComasGone`;
- `ComasStay`: `Spec => RecordedComasStay`;
- `MeteorImplementsLifecycle`: `Spec => ImplementsLifecycle`.

They rest on the inductive invariant `IInv`. `GoneMeansComasGone` is not
inductive: it needs to know that the worker's copy, when its update is accepted,
lists what the Meteor lists. Hence

- `CacheCoherent`: a cached Meteor is never newer than the Meteor, and equal to
  it when the versions are;
- `CopyCoherent`: a copy with the Meteor's version has its finalizer and at
  least its Comas, and exactly those until ReconcileComas;
- `ComasNeedFinalizer`: Comas are listed only under the operator's finalizer, or
  after it under the garbage collector's, so that a Meteor removed without
  finalization had none;
- `UidsFresh`: every listed uid was handed out, so a deleted Coma never exists
  again under the uid listed;
- `DeletedSoFar`: while the finalizer runs, the Comas before the loop position
  are gone.

`InvWorker`, `InvManager` and `InvCluster` show that each group of actions keeps
`IInv`, with one case per action; lemmas (`QuietWorker`, `WorkerStops`,
`MeteorMoves`, `ComaGoes`, ...) treat the patterns many actions share.

The refinement needs one fact more, `CopyMarked`: a copy with the Meteor's
version has its deletion mark, so a reconcile that builds Comas and lists them
never does so for a Meteor already marked. `MarkedNext` proves it beside `IInv`,
and `HeldNext` that the garbage collector's finalizer comes with the mark
(`HeldMarked`); `LifeNext` then maps each action to a step of `Lifecycle` (a status write to
Record, Delete to Mark or Drop, the finalizer's update to Remove, a Coma's
creation and end to Born and Die) or to none. `IInv`, `CopyMarked` and the
refinement were checked with TLC before they were proved.

### Outcomes and the gauge

`MeteorOutcomes` proves `OutcomesFollowRuns`:
`Spec => [](Unpruned /\ FirstOwner => OutcomesTrue)`, of a Meteor that stays: one
that is deleted in the foreground loses its runs before it goes. A status is
written from a copy of a cached Meteor and from cached runs, so `OutcomesInv` says of every
holder of a status (the Meteor, the cached one, the worker's copy) that it is in
no advance of the cached runs (`Agrees`), and that a run that the cache has as
ended is there as such and is this Meteor's (`RunsStay`); `UidsOrdered` orders the
incarnations of the readings. Both hypotheses are needed: a run that was pruned
is built again and may end otherwise, and a Meteor created again finds its
predecessor's runs (`pipelinerun_reconciler.go:51`): `OutcomesTrue` is false in the
model, as it is of the code, without either of them.

`MetricsProofs` proves `GaugeShowsOne`:
`MetricsSpec => [](FirstOwner => OnePhase)`. What a reconcile takes off the gauge is
the phase of the cached status; it has to be the one that the last reconcile put
on, although that one's status write may have been refused. `GaugeInv` therefore
relates what the gauge shows or will show before the reconcile is over (`Due`) to
what the Meteor and its cached copy store or their conditions give (`Explains`),
the two to each other (`Follows`), and the copy that can still be written to both
(`Refreshed`). It was checked with TLC over two incarnations to depth 54. A
Meteor that is gone leaves its phase behind, so a second one adds another: the
hypothesis is what the code keeps.

### CustomRuntimeEnvironment

`CREProofs` proves `RunsAreValidated`: with webhooks, `Spec => []RunsValidated`,
for every set of specs that users submit and every bound of `CRE`. A run is
created from the worker's copy, which comes from the cache, which may be
generations old; so the inductive invariant `RunsInv` adds to `RunsValidated` that
the resource, the cached one and the copy each hold an admitted spec (`CopiesFit`),
and `AdmittedComplete` shows that an admitted spec gives complete parameters. It
says nothing of the status, on which none of this depends. Without webhooks
(`ENABLE_WEBHOOKS=false`) the theorem has no premise: nothing else in the
operator checks a spec.

`CREStatusProofs` proves of the status

- `CRETypeCorrect`: `Spec => []TypeOK`; with it that a reading is no newer than
  the resource and of its generation and spec when the versions agree
  (`Readings`), since a step names its run by the copy it starts from;
- `SuccessIsBacked`: `Spec => []SuccessWasBuilt`; behind a phase Succeeded there is
  a build of this or an earlier generation that succeeded, in the pipeline of the
  spec unless edits may change the build type. This is what the code guarantees without conditions
  (`StatusInv`: `History` of the runs and `Backed` of all three readings);
- `FirstSuccessIsBuilt`: in the first generation, phase Succeeded means that the
  run of this generation succeeded;
- `FirstSuccessIsFinal`: `Spec => SuccessIsFinal`. Its invariant `FinalInv` adds
  that what a copy of the first generation calls ready the cache has as succeeded
  (`Seen`), and that a copy whose write would be accepted gives the phase again
  (`Keeps`).

From the second generation on neither of the last two is true of the code (see
above). A run is named by generation and pipeline, so a build of the resource's
predecessor counts in all of these: the code does not tell them apart either
(`cre/controller.go:113`).

### Shower

`ShowerProofs` proves, for every set of specs, every choice of sub-reconcilers
and every bound of `Shower`,

- `ShowerTypeCorrect`: `Spec => []TypeOK`; whichever copy a reconcile works from,
  each place of its list is an object that Shower can have (`PlacesType`,
  `ChildFacts`). It needs that a Shower that is there, in whichever reading, has a
  spec that users gave it (`Known`);
- `ObservedGenerationTrue`: `Spec => []ObservedIsTrue`. `StatusInv` adds
  `ReadingsCurrent` (a reading whose version has not moved on is right), what the
  copy's status speaks of, and that no status is of a generation to come, which
  is what makes an edit leave the status visibly behind;
- `ObjectsAreOwned`: `Spec => []Owned`, with `OwnerInv`: every object in the
  Shower's namespace is owned by an incarnation that has existed, so that once
  that one is gone `CollectChild` may take it. This is the safety half of
  `ChildrenCollected`; that the collector does take it is fairness.

### Only model-checked

All liveness, since fairness and ENABLED are outside the prover's reach:
`PipelinesStart`, `OutcomeReported`, `ExpiredIsDeleted`, `DeletionCompletes`,
`RunCreated`, `OutcomeReached`, `ChildrenFollow`, `PhaseFollows`, `UrlFollows`,
`ChildrenCollected`. `Startup`, whose one property is expected to fail.

## Plan

Done: `Conditions`, `Meteor` with several Showers and the duration's width,
`Lifecycle` and its refinement, `MeteorMetrics`, `CRE` with the webhook and the
parameters, `Shower`, `Startup`; theorems about each of them but `Startup`. Left,
in this order:

1. An abstract build (none, running, done) that `CRE` implements per generation,
   with the proof of its refinement.
2. That a success is of the present generation under a hypothesis on edits (no
   status write lost between an edit and the next reconcile, no change of the
   build type) instead of in the first generation only.
3. The composition of `Shower` and `Meteor`: a Shower's deletion, which collects
   the Meteors it owns, under their finalizers.

## Not modelled

Generated deep copies, YAML pipelines and tasks, manifests and the OLM bundle
(no behaviour of the operator's own); the metrics' counters and histogram, which
only grow and which nothing reads; logging; `MeteorSpec.pipelines` edited in the
life of a Meteor; the ten-hour resync; leader election (one process is assumed
to lead).
