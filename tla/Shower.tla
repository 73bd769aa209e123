------------------------------- MODULE Shower -------------------------------
(***************************************************************************)
(* The Shower controller (controllers/shower): one Shower name, the        *)
(* objects the controller keeps for it, and the operator process that      *)
(* reconciles them from cached reads and versioned writes.  Reconcile runs *)
(* a fixed list of sub-reconcilers, one object each; the first error ends  *)
(* the list.  A reconcile that went through is not repeated: only an event *)
(* of the Shower or of an object it owns brings the controller back.       *)
(***************************************************************************)
EXTENDS Integers, Sequences, FiniteSets

CONSTANTS
    Modelled,     \* the sub-reconcilers of this instance
    Specs,        \* the specs users give the Shower
    Image,        \* image of this operator version, for a spec without one
    MaxUid,       \* bound on how often the name is created
    Disturbances, \* the kinds of disturbance that may happen
    Budget        \* how many of them may happen

HomeActions ==
    <<"ServiceAccount", "ShowerRole", "ShowerRolebinding", "PipelineRole",
      "PipelineRolebinding", "Deployment", "Service", "ServiceMonitor", "Route">>
ExternalActions == <<"ExternalRole", "ExternalRolebinding">>

Kinds == {"fault", "crash", "edit", "delete", "loss", "drift", "outage", "meteor"}

SpecType == [image : STRING, host : STRING, labels : BOOLEAN, ext : Seq(STRING)]

ASSUME ModelledAssumption ==
    Modelled \subseteq {HomeActions[i] : i \in DOMAIN HomeActions}
                       \cup {ExternalActions[i] : i \in DOMAIN ExternalActions}
ASSUME SpecsAssumption  == Specs \subseteq SpecType
ASSUME ImageAssumption  == Image \in STRING
ASSUME BoundsAssumption == MaxUid \in Nat /\ Disturbances \subseteq Kinds /\ Budget \in Nat

VARIABLES
    shower,  \* the Shower on the API server; kept, with live FALSE, when removed
    child,   \* the objects made for it; kept, with ex FALSE, when removed
    cshower, cchild,  \* the operator's caches
    lag,     \* whose resourceVersion moved on since it was read: cached objects,
             \* the cached Shower, the worker's copy of it
    queue, pc, w, idx,  \* workqueue, position in Reconcile, r.Shower
    err,     \* the error Reconcile hands to UpdateStatusNow
    left     \* disturbances left

opVars == <<queue, pc, w, idx, err>>
vars   == <<shower, child, cshower, cchild, lag, opVars, left>>

-----------------------------------------------------------------------------
(* Objects *)

\* The list Reconcile builds: the objects of the Shower's namespace, then a
\* Role and a RoleBinding for every external service, and the places in it that
\* count: a service that names no namespace gets neither.
actions(spec) ==
    LET home == Len(HomeActions)
    IN  [i \in 1..(home + 2 * Len(spec.ext)) |->
            IF i <= home THEN <<HomeActions[i], "">>
            ELSE <<ExternalActions[1 + ((i - home - 1) % 2)],
                   spec.ext[1 + ((i - home - 1) \div 2)]>>]
Places(spec) ==
    {i \in DOMAIN actions(spec) :
        /\ actions(spec)[i][1] \in Modelled
        /\ i <= Len(HomeActions) \/ actions(spec)[i][2] # ""}

\* The first place behind i; 0, where nothing is, when there is none.
Following(spec, i) ==
    LET later == {j \in Places(spec) : i < j}
    IN  IF later = {} THEN 0 ELSE CHOOSE j \in later : \A k \in later : j <= k

Objects(spec) == {actions(spec)[i] : i \in Places(spec)}
Children == UNION {Objects(s) : s \in Specs}
IsHome(c) == c[2] = ""

\* The two readings of the Shower that lag can hold.
Cached == <<"Shower", "cached">>
Copied == <<"Shower", "copied">>

\* The host OpenShift gives a Route that asks for none.
GeneratedHost == "generated"

Images     == {Image, ""} \cup {s.image : s \in Specs}
Hosts      == {"", GeneratedHost} \cup {s.host : s \in Specs}
\* main is what a sub-reconciler compares and overwrites (rules, subjects,
\* ports, pod template, host; of a RoleBinding not the RoleRef, which follows
\* from the names and cannot be changed); labels and port are a Route's, avail
\* is a Deployment's Available condition.
Mains      == {"", "rules", "subjects", "ports", "endpoints", "drifted"}
              \cup Images \cup Hosts
ChildType  == [ex : BOOLEAN, owner : Nat, main : Mains, labels : BOOLEAN,
               port : {"http", "other"}, avail : BOOLEAN]
NoSpec     == [image |-> "", host |-> "", labels |-> FALSE, ext |-> <<>>]
Reasons    == {"", "Created", "CreateError", "Ready"}
StatusType == [phase : {"", "Pending", "Succeeded"}, cond : Reasons, obs : Nat,
               image : Images, url : Mains]
ShowerType == [live : BOOLEAN, uid : Nat, gen : Nat, del : BOOLEAN,
               spec : Specs \cup {NoSpec}, st : StatusType]

EmptyStatus == [phase |-> "", cond |-> "", obs |-> 0, image |-> "", url |-> ""]
NoShower    == [live |-> FALSE, uid |-> 0, gen |-> 0, del |-> FALSE,
                spec |-> NoSpec, st |-> EmptyStatus]
NoChild     == [ex |-> FALSE, owner |-> 0, main |-> "", labels |-> FALSE,
                port |-> "http", avail |-> FALSE]

Spend(kind) == kind \in Disturbances /\ left > 0 /\ left' = left - 1
Fault   == Spend("fault")
NoFault == UNCHANGED left
FailsIf(reason) == (reason /\ NoFault) \/ Fault

-----------------------------------------------------------------------------
(* What a Shower asks of its objects *)

\* Mutant: the condition's reason is taken for the phase.
AggregatePhaseReason(st) == st.cond

\* Of the conditions only Deployment exists; its reason Ready has status True,
\* the other two have False.
AggregatePhase(st) == IF st.cond = "Ready" THEN "Succeeded" ELSE "Pending"

StatusImage(spec) == IF spec.image # "" THEN spec.image ELSE Image

\* Reconcile's refresh of the copy; the phase is the one of the conditions of
\* the previous reconcile.
Observed(s) ==
    [s EXCEPT !.st = [s.st EXCEPT !.obs = s.gen, !.image = StatusImage(s.spec),
                                  !.phase = AggregatePhase(s.st)]]

\* What the desired state of the other kinds says depends on the name of the
\* Shower alone.
desiredRules     == "rules"
desiredSubjects  == "subjects"
desiredPorts     == "ports"
desiredEndpoints == "endpoints"

Desired(c, s) ==
    CASE c[1] = "ServiceAccount" -> ""
      [] c[1] = "Deployment" -> StatusImage(s.spec)
      [] c[1] = "Route" -> s.spec.host
      [] c[1] = "Service" -> desiredPorts
      [] c[1] = "ServiceMonitor" -> desiredEndpoints
      [] c[1] \in {"ShowerRole", "PipelineRole", "ExternalRole"} -> desiredRules
      [] OTHER -> desiredSubjects

isMapASubset(route, s) == s.spec.labels => route.labels

\* Whether the sub-reconciler writes an object that exists.  The Deployment's
\* replicas are compared as pointers, which always differ; of a Route's target
\* and port EQUALITY leads to the write (the target never is equal, the API
\* server adds a weight to it); a ServiceAccount has nothing to compare.
Differs(c, o, s) ==
    CASE c[1] = "ServiceAccount" -> FALSE
      [] c[1] = "Deployment" -> TRUE
      [] c[1] = "Route" ->
            ~isMapASubset(o, s) \/ o.main # Desired(c, s) \/ o.port = "http"
      [] OTHER -> o.main # Desired(c, s)

\* What an object says that said main before, once it is written: OpenShift
\* lets a Route keep its host when none is asked for.
Stated(c, main, s) ==
    IF c[1] = "Route" /\ s.spec.host = "" THEN main ELSE Desired(c, s)

\* What the write makes of the object; labels are only ever added.
Written(c, o, s) ==
    [o EXCEPT !.main = Stated(c, o.main, s), !.port = "http",
              !.labels = @ \/ (c[1] = "Route" /\ s.spec.labels)]

\* Mutant: objects get no controller reference.
OwnerOfNone(c, s) == 0

\* SetControllerReference, whose error for an object of another namespace is
\* ignored.
OwnerOf(c, s) == IF IsHome(c) THEN s.uid ELSE 0

New(c, s) ==
    [ex |-> TRUE, owner |-> OwnerOf(c, s),
     main |-> Stated(c, GeneratedHost, s), labels |-> c[1] = "Route" /\ s.spec.labels,
     port |-> "http", avail |-> FALSE]

-----------------------------------------------------------------------------
(* The API server *)

\* Every change of an object moves its resourceVersion; a write that changes
\* nothing does not.
Store(c, o) ==
    /\ child' = [child EXCEPT ![c] = o]
    /\ lag' = IF o = child[c] THEN lag ELSE lag \cup {c}

StoreShower(s) ==
    /\ shower' = s
    /\ lag' = CASE s = shower -> lag
                [] s # shower /\ pc \in {"child", "status"} -> lag \cup {Cached, Copied}
                [] OTHER -> lag \cup {Cached}

Removed(o) == [NoChild EXCEPT !.owner = o.owner]
Gone(s)    == [NoShower EXCEPT !.uid = s.uid]

-----------------------------------------------------------------------------
(* The worker: Reconcile *)

Goto(label, i) == pc' = label /\ idx' = i

\* The worker's copy is dropped.
Forget == w' = NoShower /\ err' = FALSE /\ lag' = lag \ {Copied}

ReconcileNothing ==
    /\ pc = "idle" /\ queue
    /\ \/ (~cshower.live \/ cshower.del) /\ queue' = FALSE /\ NoFault
       \/ queue' = TRUE /\ Fault
    /\ UNCHANGED <<shower, child, cshower, cchild, lag, pc, w, idx, err>>

Reconcile ==
    /\ pc = "idle" /\ queue /\ cshower.live /\ ~cshower.del
    /\ queue' = FALSE /\ Goto("child", Following(cshower.spec, 0))
    /\ w' = Observed(cshower) /\ err' = FALSE
    /\ lag' = IF Cached \in lag THEN lag \cup {Copied} ELSE lag
    /\ UNCHANGED <<shower, child, cshower, cchild, left>>

AtChild == pc = "child" /\ idx \in Places(w.spec)
Child   == actions(w.spec)[idx]

\* The sub-reconciler returns nil, or an error with which the list ends.
Done    == Goto("child", Following(w.spec, idx)) /\ UNCHANGED err
Aborted == Goto("status", 0) /\ err' = TRUE

SetDeploymentCondition(reason) ==
    w' = IF Child[1] = "Deployment" THEN [w EXCEPT !.st.cond = reason] ELSE w

CreateChild ==
    /\ AtChild /\ ~cchild[Child].ex
    /\ \/ /\ ~child[Child].ex /\ NoFault
          /\ Store(Child, New(Child, w))
          /\ SetDeploymentCondition("Created") /\ Done
       \/ /\ FailsIf(child[Child].ex)
          /\ SetDeploymentCondition("CreateError") /\ Aborted
          /\ UNCHANGED <<child, lag>>
    /\ UNCHANGED <<shower, cshower, cchild, queue>>

GetChildFails ==
    /\ AtChild /\ Fault /\ Aborted
    /\ UNCHANGED <<shower, child, cshower, cchild, lag, queue, w>>

\* A label cannot be put into the map a Route without labels has.
LabelPanics == Child[1] = "Route" /\ w.spec.labels /\ ~cchild[Child].labels

\* Mutant: the URL is published by a reconcile that leaves the Route alone.
LearntUnlessWritten(o) ==
    w' = CASE Child[1] = "Deployment" /\ o.avail -> [w EXCEPT !.st.cond = "Ready"]
           [] Child[1] = "Route" /\ ~Differs(Child, o, w) -> [w EXCEPT !.st.url = o.main]
           [] OTHER -> w

\* What the status learns of an object, written (then from the answer) or left
\* alone: the Deployment's availability and the Route's host.
Learnt(o) ==
    w' = CASE Child[1] = "Deployment" /\ o.avail -> [w EXCEPT !.st.cond = "Ready"]
           [] Child[1] = "Route" -> [w EXCEPT !.st.url = o.main]
           [] OTHER -> w

UpdateChild ==
    /\ AtChild /\ cchild[Child].ex
    /\ Differs(Child, cchild[Child], w) /\ ~LabelPanics
    /\ \/ /\ Child \notin lag /\ NoFault
          /\ Store(Child, Written(Child, child[Child], w))
          /\ Learnt(child'[Child]) /\ Done
       \/ /\ FailsIf(Child \in lag)
          /\ Aborted /\ UNCHANGED <<child, lag, w>>
    /\ UNCHANGED <<shower, cshower, cchild, queue>>

KeepChild ==
    /\ AtChild /\ cchild[Child].ex /\ ~Differs(Child, cchild[Child], w)
    /\ Learnt(cchild[Child]) /\ Done
    /\ UNCHANGED <<shower, child, cshower, cchild, lag, queue, left>>

Panic ==
    /\ AtChild /\ cchild[Child].ex /\ LabelPanics
    /\ Goto("panicked", 0) /\ Forget /\ queue' = FALSE
    /\ UNCHANGED <<shower, child, cshower, cchild, left>>

ChildrenDone ==
    /\ pc = "child" /\ idx \notin Places(w.spec)
    /\ Goto("status", 0)
    /\ UNCHANGED <<shower, child, cshower, cchild, lag, queue, w, err, left>>

\* Mutant: the status is patched, whatever the version of the copy.
UpdateStatusPatched ==
    /\ pc = "status"
    /\ LET written == [shower EXCEPT !.st = w.st]
       IN \/ /\ shower.live /\ NoFault
             /\ shower' = written /\ queue' = (queue \/ err)
             /\ lag' = (IF written = shower THEN lag ELSE lag \cup {Cached}) \ {Copied}
          \/ /\ FailsIf(~shower.live)
             /\ queue' = TRUE /\ lag' = lag \ {Copied} /\ UNCHANGED shower
    /\ Goto("idle", 0) /\ w' = NoShower /\ err' = FALSE
    /\ UNCHANGED <<child, cshower, cchild>>

\* An error, of a sub-reconciler or of this write, brings Reconcile back.
UpdateStatusNow ==
    /\ pc = "status"
    /\ LET conflict == ~shower.live \/ Copied \in lag
           written  == [shower EXCEPT !.st = w.st]
       IN \/ /\ ~conflict /\ NoFault
             /\ shower' = written /\ queue' = (queue \/ err)
             /\ lag' = IF written = shower THEN lag ELSE lag \cup {Cached}
          \/ /\ FailsIf(conflict)
             /\ queue' = TRUE /\ lag' = lag \ {Copied} /\ UNCHANGED shower
    /\ Goto("idle", 0) /\ w' = NoShower /\ err' = FALSE
    /\ UNCHANGED <<child, cshower, cchild>>

Worker ==
    \/ ReconcileNothing \/ Reconcile \/ CreateChild \/ GetChildFails \/ UpdateChild
    \/ KeepChild \/ Panic \/ ChildrenDone \/ UpdateStatusNow

-----------------------------------------------------------------------------
(* The manager: For(Shower), Owns(...), crash and restart *)

Up == pc \notin {"down", "panicked"}

\* Mutant: status changes of the Shower are filtered out.
SyncShowerOnGeneration ==
    /\ Up /\ Cached \in lag
    /\ cshower' = shower /\ lag' = lag \ {Cached}
    /\ queue' = (queue \/ cshower.uid # shower.uid \/ cshower.gen # shower.gen)
    /\ UNCHANGED <<shower, child, cchild, pc, w, idx, err, left>>

SyncShower ==
    /\ Up /\ Cached \in lag
    /\ cshower' = shower /\ lag' = lag \ {Cached} /\ queue' = TRUE
    /\ UNCHANGED <<shower, child, cchild, pc, w, idx, err, left>>

\* Mutant: the controller does not watch the objects it owns.
WatchedNot(c) == FALSE

\* The kinds SetupWithManager lists; ServiceMonitor is not among them.
Watched(c) == c[1] # "ServiceMonitor"

\* An event reaches the Shower named by the object's controller reference, of
\* whichever incarnation it is.
SyncChild(c) ==
    /\ Up /\ c \in lag
    /\ cchild' = [cchild EXCEPT ![c] = child[c]] /\ lag' = lag \ {c}
    /\ queue' = (queue \/ (Watched(c) /\ 0 # cchild[c].owner + child[c].owner))
    /\ UNCHANGED <<shower, child, cshower, pc, w, idx, err, left>>

\* So do the events of the Meteors the Shower owns.
MeteorEvent ==
    /\ Up /\ shower.live /\ Spend("meteor")
    /\ queue' = TRUE
    /\ UNCHANGED <<shower, child, cshower, cchild, lag, pc, w, idx, err>>

Crash ==
    /\ Up /\ Spend("crash")
    /\ Goto("down", 0) /\ Forget /\ queue' = FALSE
    /\ UNCHANGED <<shower, child, cshower, cchild>>

Restart ==
    /\ ~Up
    /\ Goto("idle", 0) /\ queue' = shower.live
    /\ cshower' = shower /\ cchild' = child /\ lag' = {}
    /\ UNCHANGED <<shower, child, w, err, left>>

Manager ==
    \/ SyncShower \/ MeteorEvent \/ Crash \/ Restart
    \/ \E c \in Children : SyncChild(c)

-----------------------------------------------------------------------------
(* The cluster: users, the Deployment's pods, the garbage collector *)

UserCreate ==
    /\ ~shower.live /\ shower.uid < MaxUid
    /\ \E s \in Specs :
        StoreShower([NoShower EXCEPT !.live = TRUE, !.uid = shower.uid + 1, !.gen = 1,
                                     !.spec = s])
    /\ UNCHANGED <<child, cshower, cchild, opVars, left>>

UserEdit ==
    /\ shower.live /\ ~shower.del /\ Spend("edit")
    /\ \E s \in Specs \ {shower.spec} :
        StoreShower([shower EXCEPT !.spec = s, !.gen = @ + 1])
    /\ UNCHANGED <<child, cshower, cchild, opVars>>

\* In the background the Shower goes at once, in the foreground after the
\* objects it owns.
UserDelete ==
    /\ shower.live /\ ~shower.del /\ Spend("delete")
    /\ StoreShower(Gone(shower)) \/ StoreShower([shower EXCEPT !.del = TRUE])
    /\ UNCHANGED <<child, cshower, cchild, opVars>>

\* Somebody deletes an object, or changes what it says.
LoseChild(c) ==
    /\ child[c].ex /\ Spend("loss")
    /\ Store(c, Removed(child[c]))
    /\ UNCHANGED <<shower, cshower, cchild, opVars>>

DriftChild(c) ==
    /\ child[c].ex /\ c[1] # "ServiceAccount" /\ Spend("drift")
    /\ \/ Store(c, [child[c] EXCEPT !.main = "drifted"])
       \/ c[1] = "Route" /\ Store(c, [child[c] EXCEPT !.port = "other"])
    /\ UNCHANGED <<shower, cshower, cchild, opVars>>

\* Pods come up, and go down again.
PodsChange(c) ==
    /\ c[1] = "Deployment" /\ child[c].ex
    /\ child[c].avail => Spend("outage")
    /\ ~child[c].avail => UNCHANGED left
    /\ Store(c, [child[c] EXCEPT !.avail = ~@])
    /\ UNCHANGED <<shower, cshower, cchild, opVars>>

CollectChild(c) ==
    /\ child[c].ex /\ child[c].owner # 0
    /\ ~(shower.live /\ ~shower.del /\ shower.uid = child[c].owner)
    /\ Store(c, Removed(child[c]))
    /\ UNCHANGED <<shower, cshower, cchild, opVars, left>>

CollectShower ==
    /\ shower.live /\ shower.del
    /\ \A c \in Children : ~child[c].ex \/ child[c].owner # shower.uid
    /\ StoreShower(Gone(shower))
    /\ UNCHANGED <<child, cshower, cchild, opVars, left>>

Cluster ==
    \/ UserCreate \/ UserEdit \/ UserDelete \/ CollectShower
    \/ \E c \in Children :
          LoseChild(c) \/ DriftChild(c) \/ PodsChange(c) \/ CollectChild(c)

-----------------------------------------------------------------------------
Init ==
    /\ shower = NoShower /\ cshower = NoShower /\ w = NoShower
    /\ child = [c \in Children |-> NoChild] /\ cchild = child /\ lag = {}
    /\ queue = FALSE /\ pc = "idle" /\ idx = 0 /\ err = FALSE
    /\ left = Budget

Next == Worker \/ Manager \/ Cluster

Spec == Init /\ [][Next]_vars

\* The worker runs, watches deliver, a dead process comes back and the garbage
\* collector works.  Nobody has to create, edit or disturb anything.
Fairness ==
    /\ WF_vars(Worker) /\ WF_vars(SyncShower) /\ WF_vars(Restart)
    /\ WF_vars(CollectShower)
    /\ \A c \in Children : WF_vars(SyncChild(c)) /\ WF_vars(CollectChild(c))

FairSpec == Spec /\ Fairness

-----------------------------------------------------------------------------
(* Properties *)

TypeOK ==
    /\ shower \in ShowerType /\ cshower \in ShowerType /\ w \in ShowerType
    /\ child \in [Children -> ChildType] /\ cchild \in [Children -> ChildType]
    /\ lag \subseteq Children \cup {Cached, Copied}
    /\ queue \in BOOLEAN /\ err \in BOOLEAN /\ left \in Nat
    /\ pc \in {"idle", "child", "status", "down", "panicked"}
    /\ idx \in Nat

\* A status that claims to have observed the Shower's generation is about that
\* very spec, although generations start at 1 again when the name is used
\* again, and the status is computed from a copy that may be of the Shower
\* before (Reconcile, UpdateStatusNow).
ObservedIsTrue ==
    shower.live /\ shower.st.obs = shower.gen => shower.st.image = StatusImage(shower.spec)

Stays  == shower.live /\ ~shower.del
Listed == Objects(shower.spec)

\* The object is there and says what the Shower asks for.
Current(c) ==
    /\ child[c].ex /\ child[c].main = Stated(c, child[c].main, shower)
    /\ c[1] = "Route" => isMapASubset(child[c], shower)

\* Labels were added to a Shower whose Route has none: every reconcile panics
\* at the Route.
Stuck ==
    /\ shower.spec.labels
    /\ \E c \in Listed : c[1] = "Route" /\ child[c].ex /\ ~child[c].labels

\* The objects that events of their own bring back; the ones ahead of the Route
\* are out of that panic's reach.
Promised(c)     == IsHome(c) /\ c[1] # "ServiceMonitor"
AheadOfRoute(c) == IsHome(c) /\ c[1] # "Route"

\* Whatever was edited, lost, changed, deleted and created again, and however
\* often the operator failed or died meanwhile: in the end the Shower's own
\* objects are what its spec says, and stay it.  Events alone bring this about,
\* so the unwatched objects (ServiceMonitor, other namespaces) are not promised;
\* the panic over the Route's labels costs the Route, and nothing ahead of it.
ChildrenFollow ==
    <>[](Stays => \A c \in Listed :
            Promised(c) /\ (AheadOfRoute(c) \/ ~Stuck) => Current(c))

\* An available Deployment ends in phase Succeeded, although every reconcile
\* writes the phase of the conditions before it.
PhaseFollows ==
    <>[](Stays /\ ~Stuck =>
            \A c \in Listed : c[1] = "Deployment" /\ child[c].avail
                                => shower.st.phase = "Succeeded")

\* The status ends up with the Route's host, be it the spec's or OpenShift's,
\* although the reconcile that creates the Route does not publish it.
UrlFollows ==
    <>[](Stays /\ ~Stuck =>
            \A c \in Listed : c[1] = "Route" =>
                child[c].main # "" /\ shower.st.url = child[c].main)

\* A Shower that is gone leaves nothing in its namespace, not even what a late
\* reconcile from a cached copy still created.
ChildrenCollected ==
    ~shower.live ~> (shower.live \/ \A c \in Children : IsHome(c) => ~child[c].ex)
=============================================================================
