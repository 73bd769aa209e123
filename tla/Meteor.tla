------------------------------- MODULE Meteor -------------------------------
(***************************************************************************)
(* The Meteor controller (controllers/meteor): one Meteor name, the Comas  *)
(* and PipelineRuns made for it, the Showers of the cluster, one of which  *)
(* owns it, and the operator process that reconciles it from cached reads  *)
(* and versioned writes.                                                   *)
(*                                                                         *)
(* Every worker action is the code between two API writes.  Reads go to    *)
(* the manager's cache (cmet, ccoma, cpr, cshower), which lags the API     *)
(* server (met, coma, pr, shower); writes go to the API server and are     *)
(* refused when the object is gone or its resourceVersion moved on.        *)
(***************************************************************************)
EXTENDS Integers, Sequences, FiniteSets, Conditions

CONSTANTS
    Pipelines,       \* spec.pipelines, a sequence of pipeline names
    Namespaces,      \* namespaces external services may name
    TTLs,            \* values a user gives spec.ttl (0: not set)
    Second,          \* clock units in the unit of spec.ttl (the code: 10^9)
    MaxDuration,     \* the largest time.Duration (the code: 2^63 - 1)
    ShowerNames,     \* names of Showers
    ForeignShowers,  \* the ones in another namespace than the Meteor's
    Selectors,       \* values of the Meteor's selector label ("": no label)
    ExtChoices,      \* values of a Shower's spec.externalServices: sequences
                     \* of namespaces, "" for a service without namespace
    ShowersAtStart,  \* the Showers that exist at the start
    MaxClock,        \* bound on the clock
    MaxIncarnations, \* bound on how often the Meteor name is created
    Limits           \* bound on every kind of disturbance, and on "any"

Kinds == {"faults", "crashes", "edits", "deletes", "comaLosses", "prunes",
          "showerChanges", "others", "any"}

\* What an external service names: a namespace, or none.
Services == Namespaces \cup {""}

PipelineNames == {Pipelines[i] : i \in DOMAIN Pipelines}

ASSUME PipelinesAssumption  == Pipelines \in Seq(STRING)
ASSUME NamespacesAssumption == Namespaces \subseteq STRING \ {""}
ASSUME TTLsAssumption       == /\ TTLs \subseteq Int
                               /\ Second \in Nat \ {0} /\ MaxDuration \in Nat
ASSUME ExtAssumption        == /\ ExtChoices \subseteq Seq(Services)
                               /\ ExtChoices # {}
ASSUME ShowerAssumption     == /\ ShowerNames \subseteq STRING \ {""}
                               /\ Selectors \subseteq STRING
                               /\ ForeignShowers \subseteq ShowerNames
                               /\ ShowersAtStart \subseteq ShowerNames
ASSUME BoundsAssumption     == /\ MaxClock \in Nat
                               /\ MaxIncarnations \in Nat
                               /\ Limits \in [Kinds -> Nat]

VARIABLES
    clock,   \* wall-clock time
    met,     \* the Meteor on the API server; kept, with live FALSE, when removed
    coma,    \* the Coma of each namespace
    pr,      \* the PipelineRun of each pipeline
    shower,  \* the Shower of each name
    uids,    \* Coma uids handed out so far
    cmet, ccoma, cpr, cshower,  \* the operator's caches of the four
    queue,   \* TRUE: the Meteor's key waits in the controller's workqueue
    pc,      \* where the worker is in Reconcile
    w,       \* r.Meteor, the worker's copy
    idx,     \* position in the loop the worker is in
    rshower, \* r.Shower; survives from one Reconcile to the next
    left     \* disturbances left of each kind

apiVars   == <<met, coma, pr, shower, uids>>
cacheVars == <<cmet, ccoma, cpr, cshower>>
opVars    == <<queue, pc, w, idx, rshower>>
vars      == <<clock, apiVars, cacheVars, opVars, left>>

-----------------------------------------------------------------------------
(* Objects *)

RunStates == {"absent", "new", "running", "succeeded", "completed", "failed"}
Finished  == {"succeeded", "completed", "failed"}
Reasons   == {"BuildStated", "CreateError", "Error", "Running", "Succeeded",
              "Completed", "Failed"}
Phases    == {"", "Building", "Failed", "Succeeded"}

ComaRef    == [ns : Namespaces, uid : Nat]
Cond       == [type : PipelineNames, status : ConditionStatuses, reason : Reasons]
StatusType == [phase : Phases, exp : Int, comas : Seq(ComaRef), conds : Seq(Cond),
               ready : [PipelineNames -> {"", "False", "True"}],
               running : SUBSET PipelineNames, succeeded : SUBSET PipelineNames,
               failed : SUBSET PipelineNames]
Names      == ShowerNames \cup {""}
Labels     == Selectors \cup {""}
\* A controller reference, compared by name (referSameObject).
ShowerRef  == [name : Names, uid : Nat]
\* fin is the operator's finalizer; held that of the garbage collector, which
\* a foreground deletion sets.
MeteorType == [live : BOOLEAN, uid : Nat, rv : Nat, del : BOOLEAN, fin : BOOLEAN,
               held : BOOLEAN, sel : Labels, owned : ShowerRef, created : Nat, ttl : Int,
               st : StatusType]
ComaType   == [uid : Nat, owner : Nat]
RunType    == [st : RunStates, owner : Nat, refs : SUBSET ComaRef]
ShowerType == [live : BOOLEAN, name : Names, uid : Nat, ext : Seq(Services)]

\* A status nobody has written: ready is "" while the pipeline has no entry
\* in status.pipelines, exp is 0 while there is no expirationTimestamp.
EmptyStatus == [phase |-> "", exp |-> 0, comas |-> <<>>, conds |-> <<>>,
                ready |-> [p \in PipelineNames |-> ""],
                running |-> {}, succeeded |-> {}, failed |-> {}]
NoRef    == [name |-> "", uid |-> 0]
NoMeteor == [live |-> FALSE, uid |-> 0, rv |-> 0, del |-> FALSE, fin |-> FALSE,
             held |-> FALSE, sel |-> "", owned |-> NoRef, created |-> 0, ttl |-> 0, st |-> EmptyStatus]
NoComa   == [uid |-> 0, owner |-> 0]
NoRun    == [st |-> "absent", owner |-> 0, refs |-> {}]
NoShower == [live |-> FALSE, name |-> "", uid |-> 0, ext |-> <<>>]

-----------------------------------------------------------------------------
(* Methods of the Meteor type *)

\* time.Duration(TTL) * time.Second, which wraps around.
Duration(ttl) ==
    ((ttl * Second + MaxDuration + 1) % (2 * (MaxDuration + 1))) - (MaxDuration + 1)

GetExpirationTimestamp(m) == m.created + Duration(m.ttl)

IsTTLReached(m) == m.ttl # 0 /\ GetExpirationTimestamp(m) < clock

\* The first condition that is False, or that is no completed PipelineRun,
\* decides.  SetCondition is only ever called with the kind "PipelineRun", so
\* every type has that prefix and the branch for other conditions is dead.
AggregatePhase(conds) ==
    LET Done(c)  == c.status # "False" /\ c.reason \in {"Succeeded", "Completed"}
        decisive == {i \in DOMAIN conds : ~Done(conds[i])}
    IN  IF conds = <<>> THEN "Building"
        ELSE IF decisive = {} THEN "Succeeded"
        ELSE LET first == CHOOSE i \in decisive : \A j \in decisive : i <= j
             IN  IF conds[first].status = "False" THEN "Failed" ELSE "Building"

\* Reconcile's refresh of the copy it has just read; an expirationTimestamp
\* already there stays when the TTL was taken away.
Observed(m) ==
    LET exp == IF m.ttl # 0 THEN GetExpirationTimestamp(m) ELSE m.st.exp
    IN  [m EXCEPT !.st = [m.st EXCEPT !.phase = AggregatePhase(m.st.conds), !.exp = exp]]

\* The condition a PipelineRun reports of itself (none before Tekton saw it).
RunCondition(p, st) ==
    CASE st = "running"   -> Condition(p, "Unknown", "Running")
      [] st = "succeeded" -> Condition(p, "True", "Succeeded")
      [] st = "completed" -> Condition(p, "True", "Completed")
      [] st = "failed"    -> Condition(p, "False", "Failed")

-----------------------------------------------------------------------------
(* The API server *)

\* An update carries the resourceVersion it was computed from.
CanUpdate(m) == met.live /\ met.rv = m.rv

\* DELETE on the Meteor: a finalizer turns removal into a deletion mark.
DeleteObject(m) ==
    IF m.del THEN m
    ELSE [m EXCEPT !.del = m.fin, !.live = m.fin, !.rv = @ + 1]

\* UPDATE of the status subresource; writing what is there changes nothing.
WithStatus(m, st) == IF m.st = st THEN m ELSE [m EXCEPT !.st = st, !.rv = @ + 1]

Spend(kind) ==
    /\ left[kind] > 0 /\ left["any"] > 0
    /\ left' = [left EXCEPT ![kind] = @ - 1, !["any"] = @ - 1]

\* An API call is answered with an error and had no effect.
Fault == Spend("faults")
NoFault == UNCHANGED left

\* A call is answered with an error: for a reason of its own, or by a fault.
FailsIf(reason) == (reason /\ NoFault) \/ Fault

-----------------------------------------------------------------------------
(* The worker: Reconcile *)

Goto(label, i) == pc' = label /\ idx' = i

\* Reconcile returns; requeue covers Requeue, RequeueAfter and a returned error.
Return(requeue) ==
    /\ Goto("idle", 0)
    /\ w' = NoMeteor
    /\ queue' = (queue \/ requeue)

\* Get of a Meteor the cache does not hold, or a Get that fails.
ReconcileNothing ==
    /\ pc = "idle" /\ queue
    /\ \/ ~cmet.live /\ queue' = FALSE /\ NoFault
       \/ queue' = TRUE /\ Fault
    /\ UNCHANGED <<clock, apiVars, cacheVars, pc, w, idx, rshower>>

\* The List has no namespace: the Showers of the whole cluster.
Listed == {n \in ShowerNames : cshower[n].live}

\* What the list makes r.Shower: the only Shower, or, when the label names one
\* of several, whichever the list ends with, since r.Shower is the address of
\* the loop's variable; otherwise r.Shower stays what the last reconcile left.
Candidates(m) ==
    IF Cardinality(Listed) = 1 \/ m.sel \in Listed
    THEN {cshower[n] : n \in Listed}
    ELSE {rshower}

\* The call fails without any Shower, when the List does, and while r.Shower is
\* still nil; r.Shower then stays what it was.
findOwnerShower(err) ==
    \/ /\ ~err /\ Listed # {} /\ NoFault
       /\ \E s \in Candidates(cmet) : s # NoShower /\ rshower' = s
    \/ /\ err /\ FailsIf(Listed = {} \/ Candidates(cmet) = {NoShower})
       /\ UNCHANGED rshower

\* SetControllerReference, its error ignored: not across namespaces, and no
\* Shower of another name is replaced.
Controlled(m, s) ==
    IF s.name \in ForeignShowers \/ m.owned.name \notin {"", s.name} THEN m
    ELSE [m EXCEPT !.owned = [name |-> s.name, uid |-> s.uid]]

\* Get of the Meteor, then findOwnerShower: r.Shower becomes the controller of
\* the copy.
Reconcile ==
    /\ pc = "idle" /\ queue /\ cmet.live
    /\ queue' = FALSE
    /\ \/ /\ findOwnerShower(FALSE)
          /\ w' = Controlled(Observed(cmet), rshower')
          /\ Goto("ttl", 0)
       \/ /\ findOwnerShower(TRUE)
          /\ w' = Observed(cmet)
          /\ Goto("noshower", 0)
    /\ UNCHANGED <<clock, apiVars, cacheVars>>

\* Mutant: Reconcile gives up without a Shower.
NoShowerReturns ==
    /\ pc = "noshower" /\ Return(TRUE)
    /\ UNCHANGED <<clock, apiVars, cacheVars, rshower, left>>

\* findOwnerShower failed: the status is written at once, its result ignored,
\* and Reconcile carries on.
NoShowerStatus ==
    /\ pc = "noshower"
    /\ \/ /\ CanUpdate(w) /\ NoFault
          /\ met' = WithStatus(met, w.st)
          /\ w' = [w EXCEPT !.rv = met'.rv]
       \/ /\ FailsIf(~CanUpdate(w))
          /\ UNCHANGED <<met, w>>
    /\ Goto("ttl", 0)
    /\ UNCHANGED <<clock, coma, pr, shower, uids, cacheVars, queue, rshower>>

\* Mutant: a Meteor already marked for deletion is deleted again.
DeleteExpiredAgain ==
    /\ pc = "ttl" /\ IsTTLReached(w)
    /\ \/ met.live /\ met' = DeleteObject(met) /\ Return(FALSE) /\ NoFault
       \/ /\ FailsIf(~met.live)
          /\ UNCHANGED met /\ Return(TRUE)
    /\ UNCHANGED <<clock, coma, pr, shower, uids, cacheVars, rshower>>

\* The TTL is reached: Delete by name, without precondition.
DeleteExpired ==
    /\ pc = "ttl" /\ IsTTLReached(w) /\ ~w.del
    /\ \/ met.live /\ met' = DeleteObject(met) /\ Return(FALSE) /\ NoFault
       \/ /\ FailsIf(~met.live)
          /\ UNCHANGED met /\ Return(TRUE)
    /\ UNCHANGED <<clock, coma, pr, shower, uids, cacheVars, rshower>>

\* The answer to an update of the Meteor carries the stored status; of what the
\* copy has refreshed, an expirationTimestamp stored earlier is overwritten.
Answered(st) ==
    [st EXCEPT !.exp = IF met.st.exp # 0 THEN met.st.exp ELSE st.exp]

\* EnsureFinalizers of a Meteor that is not being deleted.  The update that
\* adds the finalizer is the only one that stores the controller reference.
AddFinalizer ==
    /\ pc = "ttl" /\ ~IsTTLReached(w) /\ ~w.del
    /\ \/ w.fin /\ Goto("coma", 1) /\ UNCHANGED <<met, w, queue, left>>
       \/ /\ ~w.fin /\ CanUpdate(w) /\ NoFault
          /\ met' = [met EXCEPT !.fin = TRUE, !.owned = w.owned, !.rv = @ + 1]
          /\ w' = [w EXCEPT !.fin = TRUE, !.rv = met'.rv, !.st = Answered(w.st)]
          /\ Goto("coma", 1) /\ UNCHANGED queue
       \/ /\ ~w.fin
          /\ FailsIf(~CanUpdate(w))
          /\ UNCHANGED met /\ Return(TRUE)
    /\ UNCHANGED <<clock, coma, pr, shower, uids, cacheVars, rshower>>

\* EnsureFinalizers of a Meteor being deleted, while our finalizer is there.
BeginFinalize ==
    /\ pc = "ttl" /\ w.del /\ w.fin
    /\ Goto("finalize", 1)
    /\ UNCHANGED <<clock, apiVars, cacheVars, queue, w, rshower, left>>

\* A Meteor being deleted that somebody else's finalizer keeps.
NothingToFinalize ==
    /\ pc = "ttl" /\ w.del /\ ~w.fin
    /\ Return(FALSE)
    /\ UNCHANGED <<clock, apiVars, cacheVars, rshower, left>>

\* Mutant: an error of the Delete is ignored.
DeleteComaCarelessly ==
    /\ pc = "finalize" /\ idx <= Len(w.st.comas)
    /\ LET ns == w.st.comas[idx].ns IN
       \/ coma' = [coma EXCEPT ![ns] = NoComa] /\ NoFault
       \/ Fault /\ UNCHANGED coma
    /\ Goto("finalize", idx + 1)
    /\ UNCHANGED <<clock, met, pr, shower, uids, cacheVars, queue, w, rshower>>

\* One iteration of DeleteComas: Delete by name; NotFound is an error too.
DeleteComa ==
    /\ pc = "finalize" /\ idx <= Len(w.st.comas)
    /\ LET ns == w.st.comas[idx].ns IN
       \/ /\ coma[ns].uid # 0 /\ NoFault
          /\ coma' = [coma EXCEPT ![ns] = NoComa]
          /\ Goto("finalize", idx + 1) /\ UNCHANGED <<w, queue>>
       \/ /\ FailsIf(coma[ns].uid = 0)
          /\ UNCHANGED coma /\ Return(TRUE)
    /\ UNCHANGED <<clock, met, pr, shower, uids, cacheVars, rshower>>

\* The update without the finalizer, with which the API server removes the
\* Meteor unless another finalizer keeps it.
RemoveFinalizer ==
    /\ pc = "finalize" /\ idx > Len(w.st.comas)
    /\ \/ /\ CanUpdate(w) /\ NoFault
          /\ met' = [met EXCEPT !.fin = FALSE, !.live = met.held, !.rv = @ + 1]
          /\ Return(FALSE)
       \/ /\ FailsIf(~CanUpdate(w))
          /\ UNCHANGED met /\ Return(TRUE)
    /\ UNCHANGED <<clock, coma, pr, shower, uids, cacheVars, rshower>>

-----------------------------------------------------------------------------
(* The worker: ReconcileComas *)

\* r.Shower is nil: the range over its services panics and ends the process.
Panic ==
    /\ pc = "coma" /\ rshower = NoShower
    /\ Goto("panicked", 0) /\ w' = NoMeteor /\ queue' = FALSE
    /\ UNCHANGED <<clock, apiVars, cacheVars, rshower, left>>

Service == rshower.ext[idx]

\* Mutant: the loop over the pipelines starts one too early.
NextServiceOffByOne ==
    /\ pc = "coma" /\ rshower # NoShower
    /\ \/ idx > Len(rshower.ext) /\ Goto("pipe", 0)
       \/ idx <= Len(rshower.ext) /\ Service = "" /\ Goto("coma", idx + 1)
    /\ UNCHANGED <<clock, apiVars, cacheVars, queue, w, rshower, left>>

\* A service without namespace is skipped; after the last one come the
\* pipelines.
NextService ==
    /\ pc = "coma" /\ rshower # NoShower
    /\ \/ idx > Len(rshower.ext) /\ Goto("pipe", 1)
       \/ idx <= Len(rshower.ext) /\ Service = "" /\ Goto("coma", idx + 1)
    /\ UNCHANGED <<clock, apiVars, cacheVars, queue, w, rshower, left>>

AtService ==
    pc = "coma" /\ rshower # NoShower /\ idx <= Len(rshower.ext) /\ Service # ""

\* The cache has no Coma.  A created one comes back without apiVersion, and
\* the check for that ends ReconcileComas, whatever services are left; a
\* failed creation ends the reconcile.
CreateComa ==
    /\ AtService /\ ccoma[Service].uid = 0
    /\ \/ /\ coma[Service].uid = 0 /\ NoFault
          /\ coma' = [coma EXCEPT ![Service] = [uid |-> uids + 1, owner |-> 0]]
          /\ uids' = uids + 1
          /\ Goto("pipe", 1)
       \/ /\ FailsIf(coma[Service].uid # 0)
          /\ Goto("status", 0)
          /\ UNCHANGED <<coma, uids>>
    /\ UNCHANGED <<clock, met, pr, shower, cacheVars, queue, w, rshower>>

\* A Get of the Coma that fails otherwise leaves it blank, which ends
\* ReconcileComas without an error.
GetComaFails ==
    /\ AtService /\ Fault
    /\ Goto("pipe", 1)
    /\ UNCHANGED <<clock, apiVars, cacheVars, queue, w, rshower>>

\* The Comas a list names.
Refs(comas) == {comas[i] : i \in DOMAIN comas}

\* Mutant: the last Coma seen replaces the list.
AddComaOverwriting(comas, ref) == <<ref>>

\* A Coma is recorded once.
AddComa(comas, ref) == IF ref \in Refs(comas) THEN comas ELSE Append(comas, ref)

\* The cached Coma goes into status.comas and gets the Meteor as its owner;
\* that update is versioned too, and its failure is only logged.
AdoptComa ==
    /\ AtService /\ ccoma[Service].uid # 0
    /\ w' = [w EXCEPT !.st = [w.st EXCEPT !.comas =
                AddComa(w.st.comas, [ns |-> Service, uid |-> ccoma[Service].uid])]]
    /\ \/ /\ coma[Service] = ccoma[Service] /\ NoFault
          /\ coma' = [coma EXCEPT ![Service].owner = w.uid]
       \/ /\ FailsIf(coma[Service] # ccoma[Service])
          /\ UNCHANGED coma
    /\ Goto("coma", idx + 1)
    /\ UNCHANGED <<clock, met, pr, shower, uids, cacheVars, queue, rshower>>

-----------------------------------------------------------------------------
(* The worker: ReconcilePipelineRun and UpdateStatusNow *)

AtPipeline == pc = "pipe" /\ idx <= Len(Pipelines)
Pipeline   == Pipelines[idx]

\* statusIndex: the pipeline's entry in status.pipelines, made when missing.
Entered(st) == [st EXCEPT !.ready[Pipeline] = IF @ = "" THEN "False" ELSE @]

SetCondition(st, c) == [st EXCEPT !.conds = SetStatusCondition(@, c)]

\* The cache has no PipelineRun.  Nothing is created while no Coma is in the
\* status (ownerReferences fails); otherwise the run's ownerReferences
\* parameter lists the Comas recorded by now.
CreatePipelineRun ==
    /\ AtPipeline /\ cpr[Pipeline].st = "absent"
    /\ \/ /\ w.st.comas = <<>> /\ NoFault
          /\ w' = [w EXCEPT !.st = Entered(@)]
          /\ Goto("pipe", idx + 1) /\ UNCHANGED pr
       \/ /\ w.st.comas # <<>> /\ pr[Pipeline].st = "absent" /\ NoFault
          /\ pr' = [pr EXCEPT ![Pipeline] =
                [st |-> "new", owner |-> w.uid,
                 refs |-> Refs(w.st.comas)]]
          /\ w' = [w EXCEPT !.st = SetCondition(Entered(@),
                                      Condition(Pipeline, "True", "BuildStated"))]
          /\ Goto("pipe", idx + 1)
       \/ /\ w.st.comas # <<>> /\ FailsIf(pr[Pipeline].st # "absent")
          /\ w' = [w EXCEPT !.st = SetCondition(Entered(@),
                                      Condition(Pipeline, "True", "CreateError"))]
          /\ Goto("status", 0) /\ UNCHANGED pr
    /\ UNCHANGED <<clock, met, coma, shower, uids, cacheVars, queue, rshower>>

GetPipelineRunFails ==
    /\ AtPipeline /\ Fault
    /\ w' = [w EXCEPT !.st = SetCondition(Entered(@),
                                Condition(Pipeline, "False", "Error"))]
    /\ Goto("status", 0)
    /\ UNCHANGED <<clock, apiVars, cacheVars, queue, rshower>>

\* Mutant: a failed run stays in the running stage as well.
ReportedStillRunning(st, p, run) ==
    LET conded == IF run = "new" THEN st ELSE SetCondition(st, RunCondition(p, run))
    IN  CASE run = "succeeded" ->
                [conded EXCEPT !.running = @ \ {p}, !.ready[p] = "True",
                               !.succeeded = @ \cup {p}]
          [] run \in {"completed", "failed"} -> [conded EXCEPT !.failed = @ \cup {p}]
          [] run \in {"new", "running"} -> [conded EXCEPT !.running = @ \cup {p}]

\* Mutant: the reason Completed leads to no stage.
ReportedByReason(st, p, run) ==
    LET conded == IF run = "new" THEN st ELSE SetCondition(st, RunCondition(p, run))
    IN  CASE run = "succeeded" ->
                [conded EXCEPT !.running = @ \ {p}, !.ready[p] = "True",
                               !.succeeded = @ \cup {p}]
          [] run = "completed" -> [conded EXCEPT !.running = @ \ {p}]
          [] run = "failed" -> [conded EXCEPT !.running = @ \ {p}, !.failed = @ \cup {p}]
          [] run \in {"new", "running"} -> [conded EXCEPT !.running = @ \cup {p}]

\* What a PipelineRun in state run makes of the status: its condition is
\* copied, its completion moves it between the stages.
Reported(st, p, run) ==
    LET conded == IF run = "new" THEN st ELSE SetCondition(st, RunCondition(p, run))
    IN  CASE run = "succeeded" ->
                [conded EXCEPT !.running = @ \ {p}, !.ready[p] = "True",
                               !.succeeded = @ \cup {p}]
          [] run \in {"completed", "failed"} ->
                [conded EXCEPT !.running = @ \ {p}, !.failed = @ \cup {p}]
          [] run \in {"new", "running"} ->
                [conded EXCEPT !.running = @ \cup {p}]

ReportPipelineRun ==
    /\ AtPipeline /\ cpr[Pipeline].st # "absent"
    /\ w' = [w EXCEPT !.st = Reported(Entered(@), Pipeline, cpr[Pipeline].st)]
    /\ Goto("pipe", idx + 1)
    /\ UNCHANGED <<clock, apiVars, cacheVars, queue, rshower, left>>

PipelinesDone ==
    /\ pc = "pipe" /\ idx > Len(Pipelines)
    /\ Goto("status", 0)
    /\ UNCHANGED <<clock, apiVars, cacheVars, queue, w, rshower, left>>

\* Mutant: a status that was written is not reconciled again.
UpdateStatusOnce ==
    /\ pc = "status"
    /\ \/ CanUpdate(w) /\ met' = WithStatus(met, w.st) /\ NoFault /\ Return(FALSE)
       \/ FailsIf(~CanUpdate(w)) /\ UNCHANGED met /\ Return(TRUE)
    /\ UNCHANGED <<clock, coma, pr, shower, uids, cacheVars, rshower>>

\* Mutant: the status is patched, whatever the version of the copy.
UpdateStatusPatched ==
    /\ pc = "status"
    /\ \/ met.live /\ met' = WithStatus(met, w.st) /\ NoFault
       \/ FailsIf(~met.live) /\ UNCHANGED met
    /\ Return(TRUE)
    /\ UNCHANGED <<clock, coma, pr, shower, uids, cacheVars, rshower>>

\* Written or not, the Meteor is reconciled again (RequeueAfter, Requeue, or
\* the error handed on).
UpdateStatusNow ==
    /\ pc = "status"
    /\ \/ CanUpdate(w) /\ met' = WithStatus(met, w.st) /\ NoFault
       \/ FailsIf(~CanUpdate(w)) /\ UNCHANGED met
    /\ Return(TRUE)
    /\ UNCHANGED <<clock, coma, pr, shower, uids, cacheVars, rshower>>

Worker ==
    \/ ReconcileNothing \/ Reconcile \/ NoShowerStatus \/ DeleteExpired
    \/ AddFinalizer \/ BeginFinalize \/ NothingToFinalize
    \/ DeleteComa \/ RemoveFinalizer
    \/ Panic \/ NextService \/ CreateComa \/ GetComaFails \/ AdoptComa
    \/ CreatePipelineRun \/ GetPipelineRunFails \/ ReportPipelineRun
    \/ PipelinesDone \/ UpdateStatusNow

-----------------------------------------------------------------------------
(* The manager: watches, crash, restart *)

Up == pc \notin {"down", "panicked"}

\* Events of the Meteor and of the PipelineRuns it controls enqueue its key;
\* Comas and Showers are not watched for it.
SyncMeteor ==
    /\ Up /\ cmet # met
    /\ cmet' = met /\ queue' = TRUE
    /\ UNCHANGED <<clock, apiVars, ccoma, cpr, cshower, pc, w, idx, rshower, left>>

SyncPipelineRun(p) ==
    /\ Up /\ cpr[p] # pr[p]
    /\ cpr' = [cpr EXCEPT ![p] = pr[p]] /\ queue' = TRUE
    /\ UNCHANGED <<clock, apiVars, cmet, ccoma, cshower, pc, w, idx, rshower, left>>

SyncComa(ns) ==
    /\ Up /\ ccoma[ns] # coma[ns]
    /\ ccoma' = [ccoma EXCEPT ![ns] = coma[ns]]
    /\ UNCHANGED <<clock, apiVars, cmet, cpr, cshower, opVars, left>>

SyncShower(n) ==
    /\ Up /\ cshower[n] # shower[n]
    /\ cshower' = [cshower EXCEPT ![n] = shower[n]]
    /\ UNCHANGED <<clock, apiVars, cmet, ccoma, cpr, opVars, left>>

\* The reconciler works for every Meteor: one that is reconciled in between
\* leaves its Shower behind.
OtherMeteor ==
    /\ pc = "idle" /\ Spend("others")
    /\ \E n \in Listed : rshower' = cshower[n]
    /\ UNCHANGED <<clock, apiVars, cacheVars, queue, pc, w, idx>>

Crash ==
    /\ Up /\ Spend("crashes")
    /\ Goto("down", 0) /\ w' = NoMeteor /\ queue' = FALSE /\ rshower' = NoShower
    /\ UNCHANGED <<clock, apiVars, cacheVars>>

\* A new process: r.Shower is nil, the caches are filled before the workers
\* start, and every Meteor listed is enqueued.
Restart ==
    /\ ~Up
    /\ Goto("idle", 0) /\ w' = NoMeteor /\ rshower' = NoShower
    /\ cmet' = met /\ ccoma' = coma /\ cpr' = pr /\ cshower' = shower
    /\ queue' = met.live
    /\ UNCHANGED <<clock, apiVars, left>>

-----------------------------------------------------------------------------
(* The cluster: users, Tekton, the garbage collector, time *)

UserCreate ==
    /\ ~met.live /\ met.uid < MaxIncarnations
    /\ \E t \in TTLs, l \in Selectors :
        met' = [NoMeteor EXCEPT !.live = TRUE, !.uid = met.uid + 1, !.rv = met.rv + 1,
                                !.created = clock, !.ttl = t, !.sel = l]
    /\ UNCHANGED <<clock, coma, pr, shower, uids, cacheVars, opVars, left>>

\* In the background, or in the foreground: the garbage collector's finalizer
\* keeps the Meteor until what it owns is gone.
UserDelete ==
    /\ met.live /\ ~met.del /\ Spend("deletes")
    /\ \/ met' = DeleteObject(met)
       \/ met' = [met EXCEPT !.del = TRUE, !.held = TRUE, !.rv = @ + 1]
    /\ UNCHANGED <<clock, coma, pr, shower, uids, cacheVars, opVars>>

\* Another TTL, or (t = met.ttl) a label or an annotation.
UserEdit ==
    /\ met.live /\ Spend("edits")
    /\ \E t \in TTLs : met' = [met EXCEPT !.ttl = t, !.rv = @ + 1]
    /\ UNCHANGED <<clock, coma, pr, shower, uids, cacheVars, opVars>>

\* Somebody deletes a Coma: a user of its namespace, or the namespace goes.
LoseComa(ns) ==
    /\ coma[ns].uid # 0 /\ Spend("comaLosses")
    /\ coma' = [coma EXCEPT ![ns] = NoComa]
    /\ UNCHANGED <<clock, met, pr, shower, uids, cacheVars, opVars>>

NewShower(n, uid, ext) == [live |-> TRUE, name |-> n, uid |-> uid, ext |-> ext]

ChangeShower(n) ==
    /\ Spend("showerChanges")
    /\ \/ shower[n].live /\ shower' = [shower EXCEPT ![n].live = FALSE]
       \/ /\ shower[n].live
          /\ \E e \in ExtChoices : shower' = [shower EXCEPT ![n].ext = e]
       \/ /\ ~shower[n].live
          /\ \E e \in ExtChoices :
                shower' = [shower EXCEPT ![n] = NewShower(n, @.uid + 1, e)]
    /\ UNCHANGED <<clock, met, coma, pr, uids, cacheVars, opVars>>

\* The garbage collector deletes a Meteor whose Shower is gone, removes a
\* PipelineRun whose Meteor is gone or waits for that, and lets such a Meteor
\* go when it owns no PipelineRun any more.
CollectMeteor ==
    /\ met.live /\ ~met.del
    /\ met.owned.name \in ShowerNames
    /\ LET s == shower[met.owned.name] IN ~(s.live /\ s.uid = met.owned.uid)
    /\ met' = DeleteObject(met)
    /\ UNCHANGED <<clock, coma, pr, shower, uids, cacheVars, opVars, left>>

CollectPipelineRun(p) ==
    /\ pr[p].st # "absent" /\ (met.live /\ met.uid = pr[p].owner => met.held)
    /\ pr' = [pr EXCEPT ![p] = NoRun]
    /\ UNCHANGED <<clock, met, coma, shower, uids, cacheVars, opVars, left>>

ReleaseMeteor ==
    /\ met.live /\ met.del /\ met.held
    /\ \A p \in PipelineNames : pr[p].owner # met.uid
    /\ met' = [met EXCEPT !.held = FALSE, !.live = met.fin, !.rv = @ + 1]
    /\ UNCHANGED <<clock, coma, pr, shower, uids, cacheVars, opVars, left>>

\* Tekton picks a run up, or refuses it, and brings it to an end.
TektonStep(p) ==
    /\ \/ /\ pr[p].st = "new"
          /\ \E s \in {"running", "failed"} : pr' = [pr EXCEPT ![p].st = s]
       \/ /\ pr[p].st = "running"
          /\ \E s \in Finished : pr' = [pr EXCEPT ![p].st = s]
    /\ UNCHANGED <<clock, met, coma, shower, uids, cacheVars, opVars, left>>

\* Finished PipelineRuns are deleted by hand or by a pruner.
PrunePipelineRun(p) ==
    /\ pr[p].st \in Finished /\ Spend("prunes")
    /\ pr' = [pr EXCEPT ![p] = NoRun]
    /\ UNCHANGED <<clock, met, coma, shower, uids, cacheVars, opVars>>

Tick ==
    /\ clock < MaxClock /\ clock' = clock + 1
    /\ UNCHANGED <<apiVars, cacheVars, opVars, left>>

-----------------------------------------------------------------------------
Init ==
    /\ clock = 0
    /\ met = NoMeteor /\ cmet = NoMeteor
    /\ coma = [ns \in Namespaces |-> NoComa] /\ ccoma = coma
    /\ pr = [p \in PipelineNames |-> NoRun] /\ cpr = pr
    /\ \E e \in ExtChoices :
          shower = [n \in ShowerNames |->
                        IF n \in ShowersAtStart THEN NewShower(n, 1, e) ELSE NoShower]
    /\ cshower = shower
    /\ uids = 0
    /\ queue = FALSE /\ pc = "idle" /\ w = NoMeteor /\ idx = 0 /\ rshower = NoShower
    /\ left = Limits

Cluster ==
    \/ UserCreate \/ UserDelete \/ UserEdit \/ CollectMeteor \/ ReleaseMeteor \/ Tick
    \/ \E n \in ShowerNames : ChangeShower(n)
    \/ \E ns \in Namespaces : LoseComa(ns)
    \/ \E p \in PipelineNames :
          CollectPipelineRun(p) \/ TektonStep(p) \/ PrunePipelineRun(p)

Manager ==
    \/ SyncMeteor \/ OtherMeteor \/ Crash \/ Restart
    \/ \E n \in ShowerNames : SyncShower(n)
    \/ \E p \in PipelineNames : SyncPipelineRun(p)
    \/ \E ns \in Namespaces : SyncComa(ns)

Next == Worker \/ Manager \/ Cluster

Spec == Init /\ [][Next]_vars

\* The worker runs whenever it can, watches deliver, a dead process is started
\* again, Tekton and the garbage collector work, and time passes.  Nothing
\* makes users, faults or crashes happen, and each is bounded by left.
Fairness ==
    /\ WF_vars(Worker) /\ WF_vars(SyncMeteor)
    /\ \A n \in ShowerNames : WF_vars(SyncShower(n))
    /\ WF_vars(Restart) /\ WF_vars(Tick)
    /\ WF_vars(CollectMeteor) /\ WF_vars(ReleaseMeteor)
    /\ \A p \in PipelineNames : /\ WF_vars(SyncPipelineRun(p))
                                /\ WF_vars(TektonStep(p))
                                /\ WF_vars(CollectPipelineRun(p))
    /\ \A ns \in Namespaces : WF_vars(SyncComa(ns))

FairSpec == Spec /\ Fairness

-----------------------------------------------------------------------------
(* Properties *)

TypeOK ==
    /\ clock \in Nat /\ uids \in Nat
    /\ met \in MeteorType /\ cmet \in MeteorType /\ w \in MeteorType
    /\ coma \in [Namespaces -> ComaType] /\ ccoma \in [Namespaces -> ComaType]
    /\ pr \in [PipelineNames -> RunType] /\ cpr \in [PipelineNames -> RunType]
    /\ shower \in [ShowerNames -> ShowerType] /\ cshower \in [ShowerNames -> ShowerType]
    /\ rshower \in ShowerType
    /\ queue \in BOOLEAN
    /\ pc \in {"idle", "noshower", "ttl", "finalize", "coma", "pipe", "status",
               "down", "panicked"}
    /\ idx \in Nat /\ (pc \in {"finalize", "coma", "pipe"} => idx # 0)
    /\ left \in [Kinds -> Nat]

ComaExists(ref) == coma[ref.ns].uid = ref.uid

\* The finalizer's promise: once the Meteor is gone, or only another finalizer
\* holds it, every Coma its last status listed is gone, whatever was edited,
\* lost, re-created or retried before (EnsureFinalizers, DeleteComas).
GoneMeansComasGone ==
    ~met.live \/ (met.held /\ ~met.fin)
        => \A ref \in Refs(met.st.comas) : ~ComaExists(ref)

\* No status write loses a Coma: what the list of an incarnation once held it
\* keeps, although every write replaces the whole status by a copy that may be
\* older than the object (UpdateStatusNow, ReconcileComas).
KeepsComas ==
    met'.uid = met.uid => Refs(met.st.comas) \subseteq Refs(met'.st.comas)
RecordedComasStay == [][KeepsComas]_vars

\* The promise behind both, with the order of things around it: a Meteor is
\* marked before it goes, lists no Coma once it is marked, and goes when the
\* last one it listed has gone (see Lifecycle).
Stage == IF ~met.live THEN "absent" ELSE IF met.del THEN "terminating" ELSE "live"
Alive == {[ns |-> n, uid |-> coma[n].uid] : n \in {m \in Namespaces : coma[m].uid # 0}}

Life == INSTANCE Lifecycle WITH
            stage <- Stage, uid <- met.uid, listed <- Refs(met.st.comas), alive <- Alive
ImplementsLifecycle == Life!Spec

\* Why they hold.  A copy with the Meteor's resourceVersion is as good as
\* the Meteor: the cache is the Meteor, and the worker's copy has its finalizer
\* and at least its Comas, no others until ReconcileComas.
CacheCoherent == cmet.rv <= met.rv /\ (cmet.rv = met.rv => cmet = met)

BeforeComas == {"noshower", "ttl", "finalize"}
AfterFinalizer == {"coma", "pipe", "status"}

CopyCoherent ==
    /\ w.rv <= met.rv
    /\ pc \in BeforeComas \cup AfterFinalizer /\ w.rv = met.rv =>
        /\ w.fin = met.fin
        /\ Refs(met.st.comas) \subseteq Refs(w.st.comas)
        /\ pc \in BeforeComas => w.st.comas = met.st.comas

\* A copy says truly whether the Meteor is being deleted, and the worker is
\* where that belongs.
CopyMarked ==
    /\ pc \in BeforeComas \cup AfterFinalizer /\ w.rv = met.rv => w.del = met.del
    /\ pc \in AfterFinalizer => ~w.del
    /\ pc = "finalize" => w.del

\* The garbage collector's finalizer comes with a deletion mark.
HeldMarked == met.held => met.del

\* Without any finalizer there are no Comas to lose.
ComasNeedFinalizer ==
    /\ met.live /\ ~met.fin /\ ~met.held => met.st.comas = <<>>
    /\ pc \in AfterFinalizer => w.fin

\* A Coma that is deleted never comes back under its uid.
UidsFresh ==
    /\ \A ns \in Namespaces : coma[ns].uid <= uids /\ ccoma[ns].uid <= uids
    /\ \A ref \in Refs(met.st.comas) \cup Refs(cmet.st.comas) \cup Refs(w.st.comas) :
            ref.uid # 0 /\ ref.uid <= uids

DeletedSoFar ==
    pc = "finalize" =>
        \A i \in DOMAIN w.st.comas : i < idx => ~ComaExists(w.st.comas[i])

IInv ==
    /\ TypeOK /\ CacheCoherent /\ CopyCoherent /\ ComasNeedFinalizer
    /\ UidsFresh /\ DeletedSoFar /\ GoneMeansComasGone

\* While a Meteor stays, what its status says of a build is what became of that
\* build: Ready and the Succeeded stage only of a run that ended with the reason
\* Succeeded, the Failed stage only of one that ended with another, be it
\* Completed, and a run that ended is in one stage (ReconcilePipelineRun).
OutcomesTrue ==
    met.live /\ ~met.del => \A p \in PipelineNames :
        /\ met.st.ready[p] = "True" => p \in met.st.succeeded
        /\ p \in met.st.succeeded => pr[p].st = "succeeded" /\ p \notin met.st.running
        /\ p \in met.st.failed => pr[p].st \in {"completed", "failed"}
                                  /\ p \notin met.st.running

\* A Meteor whose TTL is over is marked for deletion, even while the operator
\* panics in every reconcile for lack of a Shower (Reconcile checks the TTL
\* first), unless the TTL is edited away.
Expired == met.live /\ met.ttl # 0 /\ met.created + met.ttl * Second < clock
ExpiredIsDeleted == Expired ~> (~Expired \/ met.del)

\* A Meteor that is being deleted goes, whatever fails, crashes or is edited on
\* the way, with one exception: its finalizer waits for ever once a Coma it
\* lists is missing, since NotFound is an error there (EnsureFinalizers,
\* DeleteComas).
ComaMissing == \E ref \in Refs(met.st.comas) : coma[ref.ns].uid = 0
DeletionCompletes == <>[](met.live /\ met.del => met.fin /\ ComaMissing)

\* Every pipeline of a Meteor that stays gets its PipelineRun, as long as its
\* Shower names a namespace for a Coma; without one no run is ever created
\* (ReconcileComas, then ownerReferences of ReconcilePipelineRun).
ComaWanted ==
    \E n \in ShowerNames : shower[n].live /\ \E i \in DOMAIN shower[n].ext : shower[n].ext[i] # ""
PipelinesStart ==
    (met.live /\ ~met.del) ~>
        (\/ ~met.live \/ met.del \/ ~ComaWanted
         \/ \A p \in PipelineNames : pr[p].st # "absent")

\* The end of a PipelineRun reaches its Meteor's status.
OutcomeReported ==
    \A p \in PipelineNames :
        (pr[p].st \in Finished) ~>
            (\/ ~met.live \/ met.del \/ pr[p].st \notin Finished
             \/ p \in met.st.succeeded \cup met.st.failed)

-----------------------------------------------------------------------------
(* What the repository says of Meteors, and the code does not do *)

\* "Time to live after the resource was created.": a Meteor is gone some time
\* after its TTL is over.
TTLIsLifespan == Expired ~> ~Expired

\* "Shower represents a Shower UI and runtime configuration associated with
\* Meteors produced from this instance.": of several Showers, the one that the
\* Meteor's selector label names becomes its owner.
OwnShower ==
    met.live /\ met.sel \in ShowerNames /\ met.owned # NoRef
        => met.owned.name = met.sel

\* "Meteor owning this coma in a different namespace": a Coma whose Meteor is
\* gone for good goes too.
NoOrphanComas ==
    \A ns \in Namespaces :
        (coma[ns].uid # 0 /\ ~met.live /\ met.uid = MaxIncarnations) ~> coma[ns].uid = 0
=============================================================================
