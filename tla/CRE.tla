-------------------------------- MODULE CRE --------------------------------
(***************************************************************************)
(* The CustomRuntimeEnvironment controller (controllers/cre) and the       *)
(* admission webhook in front of it: one resource name, the PipelineRuns   *)
(* made for its generations, and the operator that reconciles it from      *)
(* cached reads and versioned status writes.  Unlike the Meteor controller *)
(* it never requeues by itself: after a status write that went through     *)
(* only an event brings it back.                                           *)
(***************************************************************************)
EXTENDS Integers, FiniteSets

CONSTANTS
    Specs,        \* what users submit (see SpecType)
    Webhooks,     \* FALSE: the operator runs with ENABLE_WEBHOOKS=false
    Switches,     \* bound: whether an edit may change the build type
    MaxGen,       \* bound on metadata.generation
    MaxUid,       \* bound on how often the name is created
    Budget, Cost  \* bound on the disturbances: each kind takes its cost

Kinds == {"fault", "crash", "edit", "delete", "prune"}

\* The strings of a spec count as given or not: fields holds the ones that are
\* not empty.  Of a mandatory annotation the key may be there without a value.
Fields == {"fromImage", "baseImage", "repository", "gitRef", "packageVersions",
           "pythonVersion", "osName", "osVersion"}
Annotations == {"name", "description", "creator"}
SpecType == [bt : {"ImageImport", "PackageList", "GitRepository"},
             fields : SUBSET Fields,
             annotations : [Annotations -> {"missing", "empty", "given"}]]

ASSUME SpecsAssumption == Specs \subseteq SpecType
ASSUME ModesAssumption == Webhooks \in BOOLEAN /\ Switches \in BOOLEAN
ASSUME BoundsAssumption ==
    /\ MaxGen \in Nat \ {0} /\ MaxUid \in Nat \ {0}
    /\ Budget \in Nat /\ Cost \in [Kinds -> Nat \ {0}]

VARIABLES
    cre,   \* the resource on the API server; kept, with live FALSE, when removed
    pr,    \* PipelineRuns, by the two parts of their name that vary
    news,  \* the names whose events have not reached the operator
    ccre, cpr,  \* the operator's caches
    queue, pc, w, \* workqueue, position in Reconcile, the worker's copy
    left   \* what is left of the budget

opVars == <<queue, pc, w>>
runs   == <<pr, news>>
vars   == <<cre, runs, ccre, cpr, opVars, left>>

-----------------------------------------------------------------------------
(* Objects *)

build_types ==
    [ImageImport |-> "import", PackageList |-> "package-list", GitRepository |-> "gitrepo"]

\* A run is named cre-<name>-<generation>-<pipeline>: neither the uid of the
\* resource nor the attempt is part of it.
RunNames == (1..MaxGen) \X {build_types[s.bt] : s \in Specs}
RunName(c) == <<c.gen, build_types[c.spec.bt]>>
NoName == <<0, "">>

Types == {"PipelineRunCreated", "ErrorPipelineRunCreate", "GenericPipelineError",
          "PipelineRunCompleted", "ImageImportReady", "PackageListBuildCompleted",
          "ErrorBuildingImage"}
\* The condition list as a function of the type: at most one condition of a type
\* is in it, and nothing depends on their order.
Reasons    == {"", "PipelineRunCreated", "AlreadyExists", "InternalError",
               "PipelineRunGenericError", "PipelineRunCompleted", "ImageImportReady",
               "ImageImportNotReady", "PackageListBuildCompleted", "ErrorBuildingImage"}
CondType   == [status : {"", "True", "False"}, reason : Reasons]
NoCond     == [status |-> "", reason |-> ""]
NoConds    == [t \in Types |-> NoCond]
\* Of a run, again and won are history: whether there was one of this name
\* before, and whether one of them succeeded.
ParamNames == {"baseImage", "packages", "url", "ref", "osVersion", "osName",
               "pythonVersion"} \cup Annotations
RunType    == [st : {"absent", "new", "running", "succeeded", "failed"}, owner : Nat,
               params : SUBSET ParamNames, again : BOOLEAN, won : BOOLEAN]
StatusType == [phase : {"", "Pending", "Running", "Succeeded", "Failed"},
               conds : [Types -> CondType], obs : Nat, run : RunNames \cup {NoName},
               ready : {"", "False"}]
NoSpec     == [bt |-> "", fields |-> {},
               annotations |-> [a \in Annotations |-> "missing"]]
CREType    == [live : BOOLEAN, uid : Nat, rv : Nat, gen : Nat, del : BOOLEAN,
               spec : Specs \cup {NoSpec}, st : StatusType]

EmptyStatus == [phase |-> "", conds |-> NoConds, obs |-> 0, run |-> NoName, ready |-> ""]
NoCRE == [live |-> FALSE, uid |-> 0, rv |-> 0, gen |-> 0, del |-> FALSE,
          spec |-> NoSpec, st |-> EmptyStatus]
NoRun == [st |-> "absent", owner |-> 0, params |-> {}, again |-> FALSE, won |-> FALSE]

Put(n, run) == pr' = [pr EXCEPT ![n] = run] /\ news' = news \cup {n}
Remove(n)   == Put(n, [pr[n] EXCEPT !.st = "absent", !.params = {}, !.again = TRUE])

Spend(kind) ==
    /\ left >= Cost[kind]
    /\ left' = left - Cost[kind]
Fault   == Spend("fault")
NoFault == UNCHANGED left
FailsIf(reason) == (reason /\ NoFault) \/ Fault

-----------------------------------------------------------------------------
(* The admission webhook: create and update, not the status subresource *)

\* Mutant: one of the three fields makes a runtime environment.
isValidLoosely(s) == "pythonVersion" \in s.fields

isValid(s) == {"pythonVersion", "osName", "osVersion"} \subseteq s.fields

ValidatePackageList(s) ==
    /\ "packageVersions" \in s.fields
    /\ "baseImage" \in s.fields <=> ~isValid(s)

ValidateCustomRuntimeEnvironment(s) ==
    /\ \A a \in Annotations : s.annotations[a] # "missing"
    /\ s.bt = "PackageList" => ValidatePackageList(s)

Admitted(s) == Webhooks => ValidateCustomRuntimeEnvironment(s)

-----------------------------------------------------------------------------
(* The PipelineRun's parameters *)

\* The spec's field behind each parameter of a build type.  A package list
\* passes its runtime environment only for want of a base image.
Sources(s) ==
    CASE s.bt = "ImageImport" -> {<<"baseImage", "fromImage">>}
      [] s.bt = "GitRepository" -> {<<"url", "repository">>, <<"ref", "gitRef">>}
      [] s.bt = "PackageList" ->
            {<<"packages", "packageVersions">>}
            \cup (IF "baseImage" \in s.fields THEN {<<"baseImage", "baseImage">>}
                  ELSE {<<p, p>> : p \in {"osVersion", "osName", "pythonVersion"}})

\* The parameters that carry a value.
params(s) ==
    {a \in Annotations : s.annotations[a] = "given"}
    \cup {p[1] : p \in {q \in Sources(s) : q[2] \in s.fields}}

-----------------------------------------------------------------------------
(* Conditions and phase *)

IsTrue(conds, type) == conds[type].status = "True"
IsThere(conds, type) == conds[type].status # ""

\* Mutant: a condition counts by its presence, whatever its status.
AggregatePresent(conds) ==
    IF conds = NoConds THEN "Pending"
    ELSE IF IsThere(conds, "ErrorPipelineRunCreate") THEN "Failed"
    ELSE IF IsThere(conds, "PipelineRunCreated") THEN "Running"
    ELSE IF ~IsThere(conds, "PipelineRunCompleted") THEN "Pending"
    ELSE IF \/ IsThere(conds, "ImageImportReady")
            \/ IsThere(conds, "PackageListBuildCompleted") THEN "Succeeded"
    ELSE "Failed"

\* The walk over the list only collects flags.  Nothing sets ImageImportInvalid.
AggregatePhase(conds) ==
    IF conds = NoConds THEN "Pending"
    ELSE IF IsTrue(conds, "ErrorPipelineRunCreate") THEN "Failed"
    ELSE IF IsTrue(conds, "PipelineRunCreated") THEN "Running"
    ELSE IF ~IsTrue(conds, "PipelineRunCompleted") THEN "Pending"
    ELSE IF \/ IsTrue(conds, "ImageImportReady")
            \/ IsTrue(conds, "PackageListBuildCompleted") THEN "Succeeded"
    ELSE "Failed"

Set(conds, type, status, reason) ==
    [conds EXCEPT ![type] = [status |-> status, reason |-> reason]]

Created(conds) == Set(conds, "PipelineRunCreated", "True", "PipelineRunCreated")

\* The message of this condition is the error, which decides whether the
\* status write that follows changes anything; it stands for the reason here.
CreateFailed(conds, err) == Created(Set(conds, "ErrorPipelineRunCreate", "True", err))

\* Mutant: PipelineRunCreated stays beside PipelineRunCompleted.
CompletedBeside(conds) ==
    Set(conds, "PipelineRunCompleted", "True", "PipelineRunCompleted")

\* A finished run: PipelineRunCompleted replaces PipelineRunCreated, and the
\* pipeline adds its own condition; success of gitrepo has none.
Completed(conds) ==
    [Set(conds, "PipelineRunCompleted", "True", "PipelineRunCompleted")
        EXCEPT !["PipelineRunCreated"] = NoCond]

Succeeded(conds, pipeline) ==
    CASE pipeline = "import" ->
            Set(Completed(conds), "ImageImportReady", "True", "ImageImportReady")
      [] pipeline = "package-list" ->
            Set(Completed(conds), "PackageListBuildCompleted", "True",
                "PackageListBuildCompleted")
      [] pipeline = "gitrepo" -> Completed(conds)

Failed(conds, pipeline) ==
    CASE pipeline = "import" ->
            Set(Completed(conds), "ImageImportReady", "False", "ImageImportNotReady")
      [] pipeline = "package-list" ->
            Set(Completed(conds), "PackageListBuildCompleted", "False",
                "PackageListBuildCompleted")
      [] pipeline = "gitrepo" ->
            Set(Completed(conds), "ErrorBuildingImage", "True", "ErrorBuildingImage")

\* Mutant: the condition of a running run is copied as it is.
ReportedAsIs(conds, pipeline, run) ==
    CASE run = "succeeded" -> Succeeded(conds, pipeline)
      [] run = "failed" -> Failed(conds, pipeline)
      [] run = "running" -> Set(conds, "PipelineRunCompleted", "Unknown", "Running")
      [] run = "new" -> conds

\* What a run the cache holds makes of the conditions.  The code that would
\* set Ready and Url comes after a return every run with conditions takes.
Reported(conds, pipeline, run) ==
    CASE run = "succeeded" -> Succeeded(conds, pipeline)
      [] run = "failed" -> Failed(conds, pipeline)
      [] run \in {"new", "running"} -> conds

-----------------------------------------------------------------------------
(* The worker: Reconcile *)

Return(requeue) == pc' = "idle" /\ w' = NoCRE /\ queue' = (queue \/ requeue)

\* Not found, being deleted, or a Get that fails.
ReconcileNothing ==
    /\ pc = "idle" /\ queue
    /\ \/ (~ccre.live \/ ccre.del) /\ queue' = FALSE /\ NoFault
       \/ queue' = TRUE /\ Fault
    /\ UNCHANGED <<cre, runs, ccre, cpr, pc, w>>

Reconcile ==
    /\ pc = "idle" /\ queue /\ ccre.live /\ ~ccre.del
    /\ queue' = FALSE /\ pc' = "pipe"
    /\ w' = ccre
    /\ UNCHANGED <<cre, runs, ccre, cpr, left>>

\* statusIndex: the one entry of status.pipelines, never renamed.
Entered(st) ==
    IF st.run # NoName THEN st ELSE [st EXCEPT !.run = RunName(w), !.ready = "False"]

WithConds(conds) == w' = [w EXCEPT !.st = [Entered(w.st) EXCEPT !.conds = conds]]

\* The cache has no run of this name; PipelineRunCreated is set either way.
CreatePipelineRun ==
    /\ pc = "pipe" /\ cpr[RunName(w)].st = "absent"
    /\ \/ /\ pr[RunName(w)].st = "absent" /\ NoFault
          /\ Put(RunName(w), [pr[RunName(w)] EXCEPT !.st = "new", !.owner = w.uid,
                                                   !.params = params(w.spec)])
          /\ WithConds(Created(w.st.conds))
       \/ /\ pr[RunName(w)].st # "absent" /\ NoFault
          /\ WithConds(CreateFailed(w.st.conds, "AlreadyExists")) /\ UNCHANGED runs
       \/ /\ Fault
          /\ WithConds(CreateFailed(w.st.conds, "InternalError")) /\ UNCHANGED runs
    /\ pc' = "status"
    /\ UNCHANGED <<cre, ccre, cpr, queue>>

\* Mutant: every error of the Get is taken for NotFound.
GetPipelineRunMisread ==
    /\ pc = "pipe" /\ Fault
    /\ WithConds(Created(w.st.conds))
    /\ pc' = "status"
    /\ UNCHANGED <<cre, runs, ccre, cpr, queue>>

GetPipelineRunFails ==
    /\ pc = "pipe" /\ Fault
    /\ WithConds(Set(w.st.conds, "GenericPipelineError", "True", "PipelineRunGenericError"))
    /\ pc' = "status"
    /\ UNCHANGED <<cre, runs, ccre, cpr, queue>>

ReportPipelineRun ==
    /\ pc = "pipe" /\ cpr[RunName(w)].st # "absent"
    /\ WithConds(Reported(w.st.conds, build_types[w.spec.bt], cpr[RunName(w)].st))
    /\ pc' = "status"
    /\ UNCHANGED <<cre, runs, ccre, cpr, queue, left>>

\* The phase is always aggregated again: the comparison with the old status
\* is between a struct and a pointer, which are never equal.
NewStatus == [w.st EXCEPT !.obs = w.gen, !.phase = AggregatePhase(w.st.conds)]

UpdateStatus ==
    /\ pc = "status"
    /\ \/ /\ cre.live /\ cre.rv = w.rv /\ NoFault
          /\ cre' = IF cre.st = NewStatus THEN cre
                    ELSE [cre EXCEPT !.st = NewStatus, !.rv = @ + 1]
          /\ Return(FALSE)
       \/ /\ FailsIf(~(cre.live /\ cre.rv = w.rv))
          /\ UNCHANGED cre /\ Return(TRUE)
    /\ UNCHANGED <<runs, ccre, cpr>>

Worker ==
    \/ ReconcileNothing \/ Reconcile \/ CreatePipelineRun \/ GetPipelineRunFails
    \/ ReportPipelineRun \/ UpdateStatus

-----------------------------------------------------------------------------
(* The manager: For(CRE), Owns(PipelineRun) *)

\* Mutant: only another generation is an event (GenerationChangedPredicate).
SyncGeneration ==
    /\ pc # "down" /\ ccre # cre
    /\ ccre' = cre /\ queue' = (queue \/ ccre.gen # cre.gen)
    /\ UNCHANGED <<cre, runs, cpr, pc, w, left>>

SyncCRE ==
    /\ pc # "down" /\ ccre # cre
    /\ ccre' = cre /\ queue' = TRUE
    /\ UNCHANGED <<cre, runs, cpr, pc, w, left>>

SyncRun(n) ==
    /\ pc # "down" /\ n \in news
    /\ cpr' = [cpr EXCEPT ![n] = pr[n]] /\ news' = news \ {n} /\ queue' = TRUE
    /\ UNCHANGED <<cre, pr, ccre, pc, w, left>>

Crash ==
    /\ pc # "down" /\ Spend("crash")
    /\ pc' = "down" /\ w' = NoCRE /\ queue' = FALSE
    /\ UNCHANGED <<cre, runs, ccre, cpr>>

Restart ==
    /\ pc = "down"
    /\ pc' = "idle" /\ queue' = cre.live
    /\ ccre' = cre /\ cpr' = pr /\ news' = {}
    /\ UNCHANGED <<cre, pr, w, left>>

Manager == SyncCRE \/ Crash \/ Restart \/ \E n \in RunNames : SyncRun(n)

-----------------------------------------------------------------------------
(* The cluster: users, Tekton, the garbage collector *)

UserCreate ==
    /\ ~cre.live /\ cre.uid < MaxUid
    /\ \E s \in Specs :
        /\ Admitted(s)
        /\ cre' = [NoCRE EXCEPT !.live = TRUE, !.uid = cre.uid + 1, !.rv = cre.rv + 1,
                                !.gen = 1, !.spec = s]
    /\ UNCHANGED <<runs, ccre, cpr, opVars, left>>

\* A change of the spec starts a generation; one of the annotations, or (s the
\* spec there is) of a label, does not.
UserEdit ==
    /\ cre.live /\ ~cre.del /\ Spend("edit")
    /\ \E s \in Specs :
        /\ Admitted(s)
        /\ Switches \/ s.bt = cre.spec.bt
        /\ LET meta == s.bt = cre.spec.bt /\ s.fields = cre.spec.fields IN
           /\ meta \/ cre.gen < MaxGen
           /\ cre' = [cre EXCEPT !.spec = s, !.rv = @ + 1,
                                 !.gen = IF meta THEN @ ELSE @ + 1]
    /\ UNCHANGED <<runs, ccre, cpr, opVars>>

\* In the background the resource goes at once, in the foreground after its
\* runs.
UserDelete ==
    /\ cre.live /\ ~cre.del /\ Spend("delete")
    /\ \/ cre' = [cre EXCEPT !.live = FALSE, !.rv = @ + 1]
       \/ cre' = [cre EXCEPT !.del = TRUE, !.rv = @ + 1]
    /\ UNCHANGED <<runs, ccre, cpr, opVars>>

CollectRun(n) ==
    /\ pr[n].st # "absent"
    /\ ~(cre.live /\ ~cre.del /\ cre.uid = pr[n].owner)
    /\ Remove(n)
    /\ UNCHANGED <<cre, ccre, cpr, opVars, left>>

CollectCRE ==
    /\ cre.live /\ cre.del
    /\ \A n \in RunNames : pr[n].st = "absent" \/ pr[n].owner # cre.uid
    /\ cre' = [cre EXCEPT !.live = FALSE, !.rv = @ + 1]
    /\ UNCHANGED <<runs, ccre, cpr, opVars, left>>

\* pipelines/cre-package-list.yaml has parameters without default, which the
\* controller may leave out; the ones of the other pipelines it always passes.
Startable(n) ==
    n[2] = "package-list" => {"baseImage", "packages"} \subseteq pr[n].params

TektonStep(n) ==
    /\ \/ /\ pr[n].st = "new"
          /\ \E s \in {"running", "failed"} :
                (s = "running" => Startable(n)) /\ Put(n, [pr[n] EXCEPT !.st = s])
       \/ /\ pr[n].st = "running"
          /\ \E s \in {"succeeded", "failed"} :
                Put(n, [pr[n] EXCEPT !.st = s, !.won = @ \/ s = "succeeded"])
    /\ UNCHANGED <<cre, ccre, cpr, opVars, left>>

PruneRun(n) ==
    /\ pr[n].st \in {"succeeded", "failed"} /\ Spend("prune")
    /\ Remove(n)
    /\ UNCHANGED <<cre, ccre, cpr, opVars>>

Cluster ==
    \/ UserCreate \/ UserEdit \/ UserDelete \/ CollectCRE
    \/ \E n \in RunNames : CollectRun(n) \/ TektonStep(n) \/ PruneRun(n)

-----------------------------------------------------------------------------
Init ==
    /\ cre = NoCRE /\ ccre = NoCRE /\ w = NoCRE
    /\ pr = [n \in RunNames |-> NoRun] /\ cpr = pr /\ news = {}
    /\ queue = FALSE /\ pc = "idle"
    /\ left = Budget

Next == Worker \/ Manager \/ Cluster

Spec == Init /\ [][Next]_vars

Fairness ==
    /\ WF_vars(Worker) /\ WF_vars(SyncCRE) /\ WF_vars(Restart) /\ WF_vars(CollectCRE)
    /\ \A n \in RunNames :
          WF_vars(SyncRun(n)) /\ WF_vars(TektonStep(n)) /\ WF_vars(CollectRun(n))

FairSpec == Spec /\ Fairness

-----------------------------------------------------------------------------
(* Properties *)

TypeOK ==
    /\ cre \in CREType /\ ccre \in CREType /\ w \in CREType
    /\ pr \in [RunNames -> RunType] /\ cpr \in [RunNames -> RunType]
    /\ news \subseteq RunNames
    /\ queue \in BOOLEAN /\ pc \in {"idle", "pipe", "status", "down"}
    /\ left \in Nat

Stays == cre.live /\ ~cre.del
Run   == pr[RunName(cre)]

\* The status speaks of the spec the user sees.
UpToDate == Stays /\ cre.st.obs = cre.gen

Active   == {"new", "running"}
Finished == {"succeeded", "failed"}

\* In the runs rs a build of the pipeline p succeeded, for the generation of c or
\* for an earlier one; in the first generation, and as long as edits leave the
\* build type alone, p is the pipeline of c.
Built(rs, c, p) ==
    /\ \E g \in 1..c.gen : <<g, p>> \in RunNames /\ rs[<<g, p>>].won
    /\ c.gen = 1 \/ ~Switches => p = build_types[c.spec.bt]

\* What is reported as a success was built, if not for this generation then for
\* an earlier one, although the phase is read off conditions that accumulate
\* over reconciles, edits, lost writes and retries (AggregatePhase,
\* reconcilePipelineRun).
SuccessWasBuilt ==
    cre.live /\ cre.st.phase = "Succeeded" =>
        \E p \in {"import", "package-list"} : Built(pr, cre, p)

\* A run of a package list is created from a spec that passed the webhook's
\* rules, whichever edit it was created after: with packages, and with a base
\* image or else a complete runtime environment.  (Its pipeline takes the
\* former only, see Startable.  ValidateCustomRuntimeEnvironment,
\* reconcilePipelineRun)
RunsValidated ==
    \A n \in RunNames : pr[n].st # "absent" /\ n[2] = "package-list" =>
        /\ "packages" \in pr[n].params
        /\ \/ "baseImage" \in pr[n].params
           \/ {"osVersion", "osName", "pythonVersion"} \subseteq pr[n].params

\* Until the spec is edited, a build reported as a success stays one: no later
\* reconcile, from whatever cached copy, takes it back as long as its run is
\* there; when it was deleted the build is done, and may fail, again.
KeepsSuccess ==
    (/\ UpToDate /\ cre.gen = 1 /\ cre.st.phase = "Succeeded"
     /\ Run.st # "absent" /\ ~Run.again
     /\ cre'.uid = cre.uid /\ cre'.gen = cre.gen)
        => cre'.st.phase = "Succeeded"
SuccessIsFinal == [][KeepsSuccess]_vars

\* A resource that stays gets a run of its current generation, although one
\* failed creation is not returned as an error: the status write that records
\* it brings the controller back.  (One that fails in the same way as the last
\* changes no status, and nothing brings the controller back.)
RunCreated == Stays ~> (~Stays \/ Run.st # "absent")

\* The end of the current generation's run reaches the conditions, through
\* events alone: PipelineRunCompleted replaces PipelineRunCreated, and the
\* pipeline's own condition says how this run ended, whatever it said of an
\* earlier generation's.  (That of another pipeline, left behind by an edit of
\* the build type, is never taken away, and decides the phase all the same.)
ReadyTypes == {"ImageImportReady", "PackageListBuildCompleted"}
PipelineOf(t) == IF t = "ImageImportReady" THEN "import" ELSE "package-list"

OutcomeReached ==
    (Stays /\ Run.st \in Finished) ~>
        (\/ ~Stays \/ Run.st \notin Finished
         \/ /\ IsTrue(cre.st.conds, "PipelineRunCompleted")
            /\ ~IsThere(cre.st.conds, "PipelineRunCreated")
            /\ \A t \in ReadyTypes :
                  PipelineOf(t) = build_types[cre.spec.bt]
                      => (IsTrue(cre.st.conds, t) <=> Run.st = "succeeded"))

-----------------------------------------------------------------------------
(* What the repository says of the resource, and the code does not do *)

\* The controller's test: a created resource "should be in Phase 'Running'",
\* and a run that was created and goes on is no creation that failed.
ActiveIsNotFailed ==
    UpToDate /\ Run.st \in Active => cre.st.phase # "Failed"
=============================================================================
