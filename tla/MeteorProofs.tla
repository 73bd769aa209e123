---------------------------- MODULE MeteorProofs ----------------------------
(***************************************************************************)
(* Proofs about Meteor for every number of pipelines, namespaces, Showers, *)
(* incarnations and disturbances.                                          *)
(***************************************************************************)
EXTENDS Meteor, SequenceTheorems, TLAPS

-----------------------------------------------------------------------------
(* What the operators on objects return *)

\* A status with one condition set is a status, with the same Comas.
LEMMA SetConditionType ==
    ASSUME NEW st \in StatusType, NEW c \in Cond
    PROVE  /\ SetCondition(st, c) \in StatusType
           /\ SetCondition(st, c).comas = st.comas
<1> DEFINE new == SetStatusCondition(st.conds, c)
<1>1. st.conds \in Seq(Cond)
  BY DEF StatusType
<1>2. new \in Seq(Cond)
  <2>1. CASE HasCondition(st.conds, c.type)
    <3> DEFINE f == [i \in 1..Len(st.conds) |->
                        IF st.conds[i].type = c.type THEN c ELSE st.conds[i]]
    <3>1. new = f
      BY <1>1, <2>1 DEF SetStatusCondition
    <3>2. \A i \in 1..Len(st.conds) : f[i] \in Cond
      BY <1>1
    <3>3. Len(st.conds) \in Nat
      BY <1>1
    <3>4. f \in [1..Len(st.conds) -> Cond]
      BY <3>2
    <3>5. f \in Seq(Cond)
      BY <3>3, <3>4, SeqDef
    <3> QED BY <3>1, <3>5
  <2>2. CASE ~HasCondition(st.conds, c.type)
    BY <1>1, <2>2 DEF SetStatusCondition
  <2> QED BY <2>1, <2>2
<1>3. SetCondition(st, c) = [st EXCEPT !.conds = new]
  BY DEF SetCondition
<1> QED BY <1>2, <1>3 DEF StatusType

\* Every condition a PipelineRun can report is a condition.
LEMMA ConditionType ==
    ASSUME NEW p \in PipelineNames, NEW s \in ConditionStatuses, NEW r \in Reasons
    PROVE  Condition(p, s, r) \in Cond
BY DEF Condition, Cond

\* Replacing the status of a Meteor leaves a Meteor.
LEMMA ReplaceStatus ==
    ASSUME NEW m \in MeteorType, NEW st \in StatusType
    PROVE  /\ [m EXCEPT !.st = st] \in MeteorType
           /\ [m EXCEPT !.st = st].st = st
BY DEF MeteorType

\* Entering a pipeline in the status changes neither its type nor its Comas.
LEMMA EnteredType ==
    ASSUME NEW st \in StatusType, Pipeline \in PipelineNames
    PROVE  Entered(st) \in StatusType /\ Entered(st).comas = st.comas
BY DEF Entered, StatusType

\* Nor does reporting a run.
LEMMA ReportedType ==
    ASSUME NEW st \in StatusType, NEW p \in PipelineNames,
           NEW run \in RunStates \ {"absent"}
    PROVE  Reported(st, p, run) \in StatusType /\ Reported(st, p, run).comas = st.comas
<1> DEFINE conded == IF run = "new" THEN st ELSE SetCondition(st, RunCondition(p, run))
<1>1. run # "new" => RunCondition(p, run) \in Cond
  BY ConditionType DEF RunCondition, RunStates, ConditionStatuses, Reasons
<1>2. conded \in StatusType /\ conded.comas = st.comas
  BY <1>1, SetConditionType
<1>3. CASE run = "succeeded"
  BY <1>2, <1>3 DEF Reported, StatusType
<1>4. CASE run \in {"completed", "failed"}
  <2>1. Reported(st, p, run) =
            [conded EXCEPT !.running = @ \ {p}, !.failed = @ \cup {p}]
    BY <1>4 DEF Reported
  <2>2. conded.running \ {p} \in SUBSET PipelineNames
        /\ conded.failed \cup {p} \in SUBSET PipelineNames
    BY <1>2 DEF StatusType
  <2> HIDE DEF conded
  <2> QED BY <1>2, <2>1, <2>2 DEF StatusType
<1>5. CASE run \in {"new", "running"}
  BY <1>2, <1>5 DEF Reported, StatusType
<1> QED BY <1>3, <1>4, <1>5 DEF RunStates

\* Adopting a Coma lists it beside the ones listed before.
LEMMA AddComaType ==
    ASSUME NEW comas \in Seq(ComaRef), NEW ref \in ComaRef
    PROVE  /\ AddComa(comas, ref) \in Seq(ComaRef)
           /\ Refs(AddComa(comas, ref)) = Refs(comas) \cup {ref}
<1>1. CASE ref \in Refs(comas)
  BY <1>1 DEF AddComa
<1>2. CASE ref \notin Refs(comas)
  <2>1. AddComa(comas, ref) = Append(comas, ref)
    BY <1>2 DEF AddComa
  <2>2. /\ Append(comas, ref) \in Seq(ComaRef)
        /\ Len(Append(comas, ref)) = Len(comas) + 1
        /\ \A i \in 1..Len(comas) : Append(comas, ref)[i] = comas[i]
        /\ Append(comas, ref)[Len(comas) + 1] = ref
        /\ Len(comas) \in Nat
    BY AppendProperties
  <2>3. DOMAIN comas = 1..Len(comas) /\ DOMAIN Append(comas, ref) = 1..(Len(comas) + 1)
    BY <2>2
  <2> QED BY <2>1, <2>2, <2>3 DEF Refs
<1> QED BY <1>1, <1>2

\* The copy with one more Coma in its status is a Meteor.
LEMMA AdoptedType ==
    ASSUME NEW m \in MeteorType, NEW ref \in ComaRef
    PROVE  [m EXCEPT !.st = [m.st EXCEPT !.comas = AddComa(m.st.comas, ref)]] \in MeteorType
<1>1. m.st \in StatusType /\ m.st.comas \in Seq(ComaRef)
  BY DEF MeteorType, StatusType
<1>2. AddComa(m.st.comas, ref) \in Seq(ComaRef)
  BY <1>1, AddComaType
<1>3. [m.st EXCEPT !.comas = AddComa(m.st.comas, ref)] \in StatusType
  BY <1>1, <1>2 DEF StatusType
<1> QED BY <1>3, ReplaceStatus

\* A duration is an integer, wrapped around or not.
LEMMA DurationType ==
    ASSUME NEW t \in Int PROVE Duration(t) \in Int
<1> DEFINE n == t * Second + MaxDuration + 1
           b == 2 * (MaxDuration + 1)
<1>1. n \in Int /\ b \in Int /\ b > 0
  BY TTLsAssumption
<1>2. MaxDuration + 1 \in Int
  BY TTLsAssumption
<1>3. Duration(t) = (n % b) - (MaxDuration + 1)
  BY DEF Duration
<1> HIDE DEF n, b
<1>4. n % b \in Int
  BY <1>1
<1> QED BY <1>2, <1>3, <1>4

\* Reading a Meteor changes its phase and expiration only.
LEMMA ObservedType ==
    ASSUME NEW m \in MeteorType
    PROVE  /\ Observed(m) \in MeteorType
           /\ Observed(m).st.comas = m.st.comas
           /\ Observed(m).rv = m.rv /\ Observed(m).fin = m.fin
           /\ Observed(m).del = m.del
<1>1. AggregatePhase(m.st.conds) \in Phases
  BY DEF AggregatePhase, Phases
<1>2. GetExpirationTimestamp(m) \in Int
  <2>1. m.created \in Int /\ Duration(m.ttl) \in Int
    BY DurationType DEF MeteorType
  <2> QED BY <2>1 DEF GetExpirationTimestamp
<1> DEFINE ph  == AggregatePhase(m.st.conds)
           ex  == IF m.ttl # 0 THEN GetExpirationTimestamp(m) ELSE m.st.exp
           new == [m.st EXCEPT !.phase = ph, !.exp = ex]
<1>3. m.st \in StatusType
  BY DEF MeteorType
<1>4. ex \in Int
  BY <1>2, <1>3 DEF StatusType
<1> HIDE DEF ph, ex
<1>5. new \in StatusType /\ new.comas = m.st.comas
  BY <1>1, <1>3, <1>4 DEF StatusType, ph
<1>6. Observed(m) = [m EXCEPT !.st = new]
  BY DEF Observed, ph, ex
<1> HIDE DEF new
<1> QED BY <1>5, <1>6, ReplaceStatus DEF MeteorType

\* Setting the controller reference changes nothing else.
LEMMA ControlledType ==
    ASSUME NEW m \in MeteorType, NEW s \in ShowerType
    PROVE  /\ Controlled(m, s) \in MeteorType
           /\ Controlled(m, s).st = m.st /\ Controlled(m, s).rv = m.rv
           /\ Controlled(m, s).fin = m.fin /\ Controlled(m, s).del = m.del
<1>1. [name |-> s.name, uid |-> s.uid] \in ShowerRef
  BY DEF ShowerRef, ShowerType
<1> QED BY <1>1 DEF Controlled, MeteorType

\* The empty objects are objects.
LEMMA EmptyTypes ==
    /\ NoMeteor \in MeteorType /\ NoComa \in ComaType /\ NoRun \in RunType
    /\ NoShower \in ShowerType
<1>1. EmptyStatus \in StatusType
  BY DEF EmptyStatus, StatusType, Phases
<1>2. NoRef \in ShowerRef
  BY DEF NoRef, ShowerRef, Names
<1>3. "" \in Labels /\ "" \in Names
  BY DEF Labels, Names
<1>4. ASSUME NEW l \in Labels, NEW o \in ShowerRef, NEW st \in StatusType
      PROVE  [live |-> FALSE, uid |-> 0, rv |-> 0, del |-> FALSE, fin |-> FALSE,
              held |-> FALSE, sel |-> l, owned |-> o, created |-> 0, ttl |-> 0, st |-> st] \in MeteorType
  BY DEF MeteorType
<1>5. NoMeteor \in MeteorType
  BY <1>1, <1>2, <1>3, <1>4, Zenon DEF NoMeteor
<1>6. ASSUME NEW n \in Names
      PROVE  [live |-> FALSE, name |-> n, uid |-> 0, ext |-> <<>>] \in ShowerType
  BY DEF ShowerType
<1>7. NoShower \in ShowerType
  BY <1>3, <1>6, Zenon DEF NoShower
<1> QED BY <1>5, <1>7 DEF NoComa, ComaType, NoRun, RunType, RunStates

\* Deleting a Meteor keeps its status and its finalizer, bumps the
\* resourceVersion when it changes anything, and removes only a Meteor without
\* finalizer.
LEMMA DeleteObjectType ==
    ASSUME NEW m \in MeteorType
    PROVE  /\ DeleteObject(m) \in MeteorType
           /\ DeleteObject(m).st = m.st /\ DeleteObject(m).uid = m.uid
           /\ DeleteObject(m) = m \/ DeleteObject(m).rv = m.rv + 1
           /\ m.live /\ ~DeleteObject(m).live => ~m.fin
           /\ DeleteObject(m).fin = m.fin
<1>1. CASE m.del
  BY <1>1 DEF DeleteObject
<1>2. CASE ~m.del
  <2>1. DeleteObject(m) = [m EXCEPT !.del = m.fin, !.live = m.fin, !.rv = m.rv + 1]
    BY <1>2 DEF DeleteObject
  <2>2. /\ DeleteObject(m).st = m.st /\ DeleteObject(m).uid = m.uid
        /\ DeleteObject(m).rv = m.rv + 1 /\ DeleteObject(m).live = m.fin
        /\ DeleteObject(m).fin = m.fin
    BY <2>1 DEF MeteorType
  <2>3. m.fin \in BOOLEAN /\ m.rv + 1 \in Nat
    BY DEF MeteorType
  <2>4. DeleteObject(m) \in MeteorType
    BY <2>1, <2>3 DEF MeteorType
  <2> QED BY <2>2, <2>4
<1> QED BY <1>1, <1>2

\* A status update changes the status, and the resourceVersion when the status
\* is another one, and nothing else.
LEMMA WithStatusType ==
    ASSUME NEW m \in MeteorType, NEW st \in StatusType
    PROVE  /\ WithStatus(m, st) \in MeteorType
           /\ WithStatus(m, st).st = st /\ WithStatus(m, st).uid = m.uid
           /\ WithStatus(m, st) = m \/ WithStatus(m, st).rv = m.rv + 1
           /\ WithStatus(m, st).fin = m.fin /\ WithStatus(m, st).del = m.del
           /\ WithStatus(m, st).live = m.live /\ WithStatus(m, st).held = m.held
<1>1. CASE m.st = st
  BY <1>1 DEF WithStatus
<1>2. CASE m.st # st
  <2>1. WithStatus(m, st) = [m EXCEPT !.st = st, !.rv = m.rv + 1]
    BY <1>2 DEF WithStatus
  <2>2. m.rv + 1 \in Nat
    BY DEF MeteorType
  <2> QED BY <2>1, <2>2 DEF MeteorType
<1> QED BY <1>1, <1>2

\* Spending a disturbance leaves the counters natural numbers.
LEMMA SpendType ==
    ASSUME left \in [Kinds -> Nat], NEW k \in Kinds \ {"any"}, Spend(k)
    PROVE  left' \in [Kinds -> Nat]
<1>1. "any" \in Kinds
  BY DEF Kinds
<1> QED BY <1>1 DEF Spend

\* So does a call that fails, or does not.
LEMMA FaultType ==
    ASSUME left \in [Kinds -> Nat], NEW reason, NoFault \/ Fault \/ FailsIf(reason)
    PROVE  left' \in [Kinds -> Nat]
<1>1. "faults" \in Kinds \ {"any"}
  BY DEF Kinds
<1> QED BY <1>1, SpendType DEF FailsIf, NoFault, Fault

\* The pipeline the worker is at is one of the spec's.
LEMMA PipelineType ==
    ASSUME TypeOK, AtPipeline PROVE Pipeline \in PipelineNames
BY PipelinesAssumption DEF AtPipeline, TypeOK, Pipeline, PipelineNames

\* The service the worker is at names a namespace.
LEMMA ServiceType ==
    ASSUME TypeOK, AtService PROVE Service \in Namespaces
<1> DEFINE ext == rshower.ext
<1>1. ext \in Seq(Services)
  BY DEF TypeOK, ShowerType
<1>2. idx \in Nat /\ idx # 0 /\ idx <= Len(ext)
  BY DEF TypeOK, AtService
<1>3. Service = ext[idx] /\ Service # ""
  BY DEF Service, AtService
<1> HIDE DEF ext
<1>4. ext[idx] \in Services
  <2>1. Len(ext) \in Nat /\ idx \in 1..Len(ext)
    BY <1>1, <1>2
  <2> QED BY <1>1, <2>1, ElementOfSeq
<1> QED BY <1>3, <1>4 DEF Services

-----------------------------------------------------------------------------
(* Type correctness *)

\* A Shower somebody creates is one.
LEMMA NewShowerType ==
    ASSUME NEW n \in ShowerNames, NEW u \in Nat, NEW e \in ExtChoices
    PROVE  NewShower(n, u, e) \in ShowerType
BY ExtAssumption DEF NewShower, ShowerType, Names

\* The initial states are well typed.
LEMMA TypeInit == Init => TypeOK
<1> SUFFICES ASSUME Init PROVE TypeOK
  OBVIOUS
<1>1. shower \in [ShowerNames -> ShowerType]
  <2>1. PICK e \in ExtChoices :
          shower = [n \in ShowerNames |->
                        IF n \in ShowersAtStart THEN NewShower(n, 1, e) ELSE NoShower]
    BY DEF Init
  <2>2. \A n \in ShowerNames : NewShower(n, 1, e) \in ShowerType
    BY NewShowerType
  <2> QED BY <2>1, <2>2, EmptyTypes
<1> QED BY <1>1, EmptyTypes, BoundsAssumption DEF Init, TypeOK

\* The worker's control: what Return and Goto leave behind.
Control ==
    /\ queue \in BOOLEAN
    /\ pc \in {"idle", "noshower", "ttl", "finalize", "coma", "pipe", "status",
               "down", "panicked"}
    /\ idx \in Nat /\ (pc \in {"finalize", "coma", "pipe"} => idx # 0)

\* Leaving Reconcile keeps the worker's control variables well typed.
LEMMA ReturnControl ==
    ASSUME NEW b \in BOOLEAN, Return(b) PROVE Control' /\ w' = NoMeteor
<1>1. queue' \in BOOLEAN
  BY Zenon DEF Return
<1> QED BY <1>1 DEF Return, Goto, Control

\* Every step of Reconcile keeps the types.
LEMMA TypeWorker == TypeOK /\ Worker => TypeOK'
<1> SUFFICES ASSUME TypeOK, Worker PROVE TypeOK'
  OBVIOUS
<1> USE DEF Goto
<1>1. CASE ReconcileNothing
  <2>1. left' \in [Kinds -> Nat]
    BY <1>1, FaultType DEF ReconcileNothing, TypeOK
  <2> QED BY <1>1, <2>1 DEF ReconcileNothing, TypeOK, apiVars, cacheVars
<1>2. CASE Reconcile
  <2>1. left' \in [Kinds -> Nat]
    BY <1>2, FaultType DEF Reconcile, findOwnerShower, TypeOK
  <2>0. rshower' \in ShowerType
    <3>1. /\ rshower \in ShowerType
          /\ \A n \in Listed : cshower[n] \in ShowerType
      BY DEF TypeOK, Listed
    <3>2. \A s \in Candidates(cmet) : s \in ShowerType
      BY <3>1 DEF Candidates
    <3> QED BY <1>2, <3>1, <3>2 DEF Reconcile, findOwnerShower
  <2>2. w' \in MeteorType
    <3>1. Observed(cmet) \in MeteorType
      BY ObservedType DEF TypeOK
    <3>2. Controlled(Observed(cmet), rshower') \in MeteorType
      BY <2>0, <3>1, ControlledType
    <3> QED BY <1>2, <3>1, <3>2 DEF Reconcile
  <2>3. Control'
    <3>1. Goto("ttl", 0) \/ Goto("noshower", 0)
      BY <1>2 DEF Reconcile
    <3>2. queue' = FALSE
      BY <1>2 DEF Reconcile
    <3>3. Control'
      <4>1. queue' \in BOOLEAN
        BY <3>2
      <4> QED BY <3>1, <4>1 DEF Control
    <3> QED BY <3>3
  <2>4. UNCHANGED <<clock, apiVars, cacheVars>>
    BY <1>2 DEF Reconcile, findOwnerShower
  <2> QED BY <2>0, <2>1, <2>2, <2>3, <2>4 DEF Control, TypeOK, apiVars, cacheVars
<1>3. CASE NoShowerStatus
  <2>1. left' \in [Kinds -> Nat]
    BY <1>3, FaultType DEF NoShowerStatus, TypeOK
  <2>2. w.st \in StatusType
    BY DEF TypeOK, MeteorType
  <2>3. met' \in MeteorType
    BY <1>3, <2>2, WithStatusType DEF NoShowerStatus, TypeOK
  <2>4. w' \in MeteorType
    BY <1>3, <2>3 DEF NoShowerStatus, TypeOK, MeteorType
  <2> QED BY <1>3, <2>1, <2>3, <2>4 DEF NoShowerStatus, TypeOK, cacheVars
<1>4. CASE DeleteExpired
  <2>1. left' \in [Kinds -> Nat]
    BY <1>4, FaultType DEF DeleteExpired, TypeOK
  <2>2. met' \in MeteorType
    BY <1>4, DeleteObjectType DEF DeleteExpired, TypeOK
  <2>3. Control' /\ w' = NoMeteor
    BY <1>4, ReturnControl DEF DeleteExpired
  <2> QED BY <1>4, <2>1, <2>2, <2>3, EmptyTypes DEF Control, DeleteExpired, TypeOK, cacheVars
<1>5. CASE AddFinalizer
  <2>1. left' \in [Kinds -> Nat]
    BY <1>5, FaultType DEF AddFinalizer, TypeOK
  <2>2. /\ [met EXCEPT !.fin = TRUE, !.owned = w.owned, !.rv = met.rv + 1] \in MeteorType
        /\ met \in MeteorType
    <3>1. met.rv + 1 \in Nat /\ w.owned \in ShowerRef /\ met \in MeteorType
      BY DEF TypeOK, MeteorType
    <3> QED BY <3>1 DEF MeteorType
  <2>3. met' \in MeteorType
    BY <1>5, <2>2 DEF AddFinalizer
  <2>4. /\ [w EXCEPT !.fin = TRUE, !.rv = met'.rv, !.st = Answered(w.st)] \in MeteorType
        /\ w \in MeteorType
    <3>1. met.st.exp \in Int /\ w.st \in StatusType
      BY DEF TypeOK, MeteorType, StatusType
    <3>2. Answered(w.st) \in StatusType
      BY <3>1 DEF Answered, StatusType
    <3> QED BY <2>3, <3>2 DEF TypeOK, MeteorType
  <2>5. Control' /\ w' \in MeteorType
    <3>1. CASE ~w.fin /\ Return(TRUE)
      BY <3>1, ReturnControl, EmptyTypes
    <3>2. CASE w.fin /\ Goto("coma", 1) /\ UNCHANGED <<met, w, queue, left>>
      BY <3>2, <2>4 DEF Control, TypeOK
    <3>3. CASE /\ w' = [w EXCEPT !.fin = TRUE, !.rv = met'.rv, !.st = Answered(w.st)]
               /\ Goto("coma", 1) /\ UNCHANGED queue
      BY <3>3, <2>4 DEF Control, TypeOK
    <3> QED BY <1>5, <3>1, <3>2, <3>3 DEF AddFinalizer
  <2> QED BY <1>5, <2>1, <2>3, <2>5 DEF Control, AddFinalizer, TypeOK, cacheVars
<1>6. CASE BeginFinalize
  BY <1>6 DEF BeginFinalize, TypeOK, apiVars, cacheVars
<1>19. CASE NothingToFinalize
  <2>1. Control' /\ w' = NoMeteor
    BY <1>19, ReturnControl DEF NothingToFinalize
  <2> QED BY <1>19, <2>1, EmptyTypes DEF Control, NothingToFinalize, TypeOK, apiVars, cacheVars
<1>7. CASE DeleteComa
  <2>1. left' \in [Kinds -> Nat]
    BY <1>7, FaultType DEF DeleteComa, TypeOK
  <2>2. coma' \in [Namespaces -> ComaType]
    BY <1>7, EmptyTypes DEF DeleteComa, TypeOK
  <2>3. Control' /\ w' \in MeteorType
    <3>1. CASE Return(TRUE)
      BY <3>1, ReturnControl, EmptyTypes
    <3>2. CASE Goto("finalize", idx + 1) /\ UNCHANGED <<w, queue>>
      BY <3>2 DEF Control, TypeOK
    <3> QED BY <1>7, <3>1, <3>2 DEF DeleteComa
  <2> QED BY <1>7, <2>1, <2>2, <2>3 DEF Control, DeleteComa, TypeOK, cacheVars
<1>8. CASE RemoveFinalizer
  <2>1. left' \in [Kinds -> Nat]
    BY <1>8, FaultType DEF RemoveFinalizer, TypeOK
  <2>2. met' \in MeteorType
    <3>1. met.rv + 1 \in Nat /\ met.held \in BOOLEAN /\ met \in MeteorType
      BY DEF TypeOK, MeteorType
    <3>2. [met EXCEPT !.fin = FALSE, !.live = met.held, !.rv = met.rv + 1] \in MeteorType
      BY <3>1 DEF MeteorType
    <3> QED BY <1>8, <3>1, <3>2 DEF RemoveFinalizer
  <2>3. Control' /\ w' = NoMeteor
    BY <1>8, ReturnControl DEF RemoveFinalizer
  <2> QED BY <1>8, <2>1, <2>2, <2>3, EmptyTypes DEF Control, RemoveFinalizer, TypeOK, cacheVars
<1>9. CASE Panic
  BY <1>9, EmptyTypes DEF Panic, TypeOK, apiVars, cacheVars
<1>10. CASE NextService
  <2>1. Control'
    <3>1. Goto("pipe", 1) \/ Goto("coma", idx + 1)
      BY <1>10 DEF NextService
    <3>2. queue' \in BOOLEAN
      BY <1>10 DEF NextService, TypeOK
    <3>3. idx + 1 \in Nat /\ idx + 1 # 0
      BY DEF TypeOK
    <3> QED BY <3>1, <3>2, <3>3 DEF Control
  <2> QED BY <1>10, <2>1 DEF Control, NextService, TypeOK, apiVars, cacheVars
<1>11. CASE CreateComa
  <2>1. left' \in [Kinds -> Nat]
    BY <1>11, FaultType DEF CreateComa, TypeOK
  <2>2. Service \in Namespaces
    BY <1>11, ServiceType DEF CreateComa
  <2>3. coma' \in [Namespaces -> ComaType] /\ uids' \in Nat
    <3>1. uids + 1 \in Nat /\ [uid |-> uids + 1, owner |-> 0] \in ComaType
      BY DEF TypeOK, ComaType
    <3>2. \/ UNCHANGED <<coma, uids>>
          \/ /\ coma' = [coma EXCEPT ![Service] = [uid |-> uids + 1, owner |-> 0]]
             /\ uids' = uids + 1
      BY <1>11 DEF CreateComa
    <3> QED BY <2>2, <3>1, <3>2 DEF TypeOK
  <2> QED BY <1>11, <2>1, <2>3 DEF CreateComa, TypeOK, cacheVars
<1>12. CASE GetComaFails
  <2>1. left' \in [Kinds -> Nat]
    BY <1>12, FaultType DEF GetComaFails, TypeOK
  <2> QED BY <1>12, <2>1 DEF GetComaFails, TypeOK, apiVars, cacheVars
<1>13. CASE AdoptComa
  <2>1. left' \in [Kinds -> Nat]
    BY <1>13, FaultType DEF AdoptComa, TypeOK
  <2>2. Service \in Namespaces
    BY <1>13, ServiceType DEF AdoptComa
  <2>3. coma' \in [Namespaces -> ComaType]
    BY <1>13, <2>2 DEF AdoptComa, TypeOK, ComaType, MeteorType
  <2>4. w' \in MeteorType
    <3>1. [ns |-> Service, uid |-> ccoma[Service].uid] \in ComaRef
      BY <2>2 DEF TypeOK, ComaType, ComaRef
    <3> QED BY <1>13, <3>1, AdoptedType DEF AdoptComa, TypeOK
  <2> QED BY <1>13, <2>1, <2>3, <2>4 DEF AdoptComa, TypeOK, cacheVars
<1>14. CASE CreatePipelineRun
  <2>1. left' \in [Kinds -> Nat]
    BY <1>14, FaultType DEF CreatePipelineRun, TypeOK
  <2>2. Pipeline \in PipelineNames
    BY <1>14, PipelineType DEF CreatePipelineRun
  <2>3. pr' \in [PipelineNames -> RunType]
    <3>1. w.uid \in Nat /\ w.st.comas \in Seq(ComaRef)
      BY DEF TypeOK, MeteorType, StatusType
    <3>2. Refs(w.st.comas) \subseteq ComaRef
      BY <3>1 DEF Refs
    <3>3. [st |-> "new", owner |-> w.uid, refs |-> Refs(w.st.comas)] \in RunType
      BY <3>1, <3>2 DEF RunType, RunStates
    <3> QED BY <1>14, <2>2, <3>3 DEF CreatePipelineRun, TypeOK
  <2>4. w' \in MeteorType
    <3>1. w.st \in StatusType
      BY DEF TypeOK, MeteorType
    <3>2. Entered(w.st) \in StatusType
      BY <2>2, <3>1, EnteredType
    <3>3. \A r \in {"BuildStated", "CreateError"} :
            SetCondition(Entered(w.st), Condition(Pipeline, "True", r)) \in StatusType
      BY <2>2, <3>2, ConditionType, SetConditionType DEF ConditionStatuses, Reasons
    <3> QED BY <1>14, <3>2, <3>3, ReplaceStatus DEF CreatePipelineRun, TypeOK
  <2> QED BY <1>14, <2>1, <2>3, <2>4 DEF CreatePipelineRun, AtPipeline, TypeOK, cacheVars
<1>15. CASE GetPipelineRunFails
  <2>1. left' \in [Kinds -> Nat]
    BY <1>15, FaultType DEF GetPipelineRunFails, TypeOK
  <2>2. Pipeline \in PipelineNames
    BY <1>15, PipelineType DEF GetPipelineRunFails
  <2>3. w' \in MeteorType
    <3>1. w.st \in StatusType
      BY DEF TypeOK, MeteorType
    <3>2. Entered(w.st) \in StatusType
      BY <2>2, <3>1, EnteredType
    <3>3. SetCondition(Entered(w.st), Condition(Pipeline, "False", "Error")) \in StatusType
      BY <2>2, <3>2, ConditionType, SetConditionType DEF ConditionStatuses, Reasons
    <3> QED BY <1>15, <3>3, ReplaceStatus DEF GetPipelineRunFails, TypeOK
  <2> QED BY <1>15, <2>1, <2>3 DEF GetPipelineRunFails, TypeOK, apiVars, cacheVars
<1>16. CASE ReportPipelineRun
  <2>1. Pipeline \in PipelineNames
    BY <1>16, PipelineType DEF ReportPipelineRun
  <2>2. w' \in MeteorType
    <3>1. w.st \in StatusType /\ cpr[Pipeline].st \in RunStates
      BY <2>1 DEF TypeOK, MeteorType, RunType
    <3>2. Entered(w.st) \in StatusType
      BY <2>1, <3>1, EnteredType
    <3>3. Reported(Entered(w.st), Pipeline, cpr[Pipeline].st) \in StatusType
      BY <1>16, <2>1, <3>1, <3>2, ReportedType DEF ReportPipelineRun
    <3> QED BY <1>16, <3>3, ReplaceStatus DEF ReportPipelineRun, TypeOK
  <2> QED BY <1>16, <2>2 DEF ReportPipelineRun, TypeOK, apiVars, cacheVars
<1>17. CASE PipelinesDone
  BY <1>17 DEF PipelinesDone, TypeOK, apiVars, cacheVars
<1>18. CASE UpdateStatusNow
  <2>1. left' \in [Kinds -> Nat]
    BY <1>18, FaultType DEF UpdateStatusNow, TypeOK
  <2>2. w.st \in StatusType
    BY DEF TypeOK, MeteorType
  <2>3. met' \in MeteorType
    BY <1>18, <2>2, WithStatusType DEF UpdateStatusNow, TypeOK
  <2>4. Control' /\ w' = NoMeteor
    BY <1>18, ReturnControl DEF UpdateStatusNow
  <2> QED BY <1>18, <2>1, <2>3, <2>4, EmptyTypes DEF Control, UpdateStatusNow, TypeOK, cacheVars
<1> QED BY <1>1, <1>2, <1>3, <1>4, <1>5, <1>6, <1>7, <1>8, <1>9, <1>10, <1>11, <1>12,
           <1>13, <1>14, <1>15, <1>16, <1>17, <1>18, <1>19 DEF Worker

\* So does every step of the manager: watches, crash, restart.
LEMMA TypeManager == TypeOK /\ Manager => TypeOK'
<1> SUFFICES ASSUME TypeOK, Manager PROVE TypeOK'
  OBVIOUS
<1> USE DEF Goto, apiVars, cacheVars, opVars
<1>1. CASE SyncMeteor
  BY <1>1 DEF SyncMeteor, TypeOK
<1>2. ASSUME NEW p \in PipelineNames, SyncPipelineRun(p) PROVE TypeOK'
  BY <1>2 DEF SyncPipelineRun, TypeOK
<1>3. ASSUME NEW ns \in Namespaces, SyncComa(ns) PROVE TypeOK'
  BY <1>3 DEF SyncComa, TypeOK
<1>4. ASSUME NEW n \in ShowerNames, SyncShower(n) PROVE TypeOK'
  BY <1>4 DEF SyncShower, TypeOK
<1>7. CASE OtherMeteor
  <2>1. left' \in [Kinds -> Nat]
    BY <1>7, SpendType DEF OtherMeteor, Kinds, TypeOK
  <2>2. rshower' \in ShowerType
    BY <1>7 DEF OtherMeteor, Listed, TypeOK
  <2> QED BY <1>7, <2>1, <2>2 DEF OtherMeteor, TypeOK
<1>5. CASE Crash
  <2>1. left' \in [Kinds -> Nat]
    BY <1>5, SpendType DEF Crash, Kinds, TypeOK
  <2> QED BY <1>5, <2>1, EmptyTypes DEF Crash, TypeOK
<1>6. CASE Restart
  <2>1. met.live \in BOOLEAN
    BY DEF TypeOK, MeteorType
  <2> QED BY <1>6, <2>1, EmptyTypes DEF Restart, TypeOK
<1> QED BY <1>1, <1>2, <1>3, <1>4, <1>5, <1>6, <1>7 DEF Manager

\* So does every step of the cluster around the operator.
LEMMA TypeCluster == TypeOK /\ Cluster => TypeOK'
<1> SUFFICES ASSUME TypeOK, Cluster PROVE TypeOK'
  OBVIOUS
<1> USE DEF cacheVars, opVars
<1>0. ASSUME NEW k \in Kinds \ {"any"}, Spend(k) PROVE left' \in [Kinds -> Nat]
  BY <1>0, SpendType DEF TypeOK
<1>1. CASE UserCreate
  <2>1. PICK t \in TTLs, l \in Selectors :
          met' = [NoMeteor EXCEPT !.live = TRUE, !.uid = met.uid + 1,
                                  !.rv = met.rv + 1, !.created = clock, !.ttl = t,
                                  !.sel = l]
    BY <1>1 DEF UserCreate
  <2>2. /\ met.uid + 1 \in Nat /\ met.rv + 1 \in Nat /\ clock \in Nat
    BY DEF TypeOK, MeteorType
  <2>4. t \in Int /\ l \in Labels
    BY TTLsAssumption DEF Labels
  <2>3. met' \in MeteorType
    BY <2>1, <2>2, <2>4, EmptyTypes DEF MeteorType
  <2> QED BY <1>1, <2>3 DEF UserCreate, TypeOK
<1>2. CASE UserDelete
  <2>1. met' \in MeteorType
    <3>1. met.rv + 1 \in Nat /\ met \in MeteorType
      BY DEF TypeOK, MeteorType
    <3>2. [met EXCEPT !.del = TRUE, !.held = TRUE, !.rv = met.rv + 1] \in MeteorType
      BY <3>1 DEF MeteorType
    <3> QED BY <1>2, <3>1, <3>2, DeleteObjectType DEF UserDelete
  <2>2. left' \in [Kinds -> Nat]
    BY <1>0, <1>2 DEF UserDelete, Kinds
  <2> QED BY <1>2, <2>1, <2>2 DEF UserDelete, TypeOK
<1>3. CASE UserEdit
  <2>1. PICK t \in TTLs : met' = [met EXCEPT !.ttl = t, !.rv = met.rv + 1]
    BY <1>3 DEF UserEdit
  <2>2. met.rv + 1 \in Nat /\ t \in Int /\ met \in MeteorType
    BY TTLsAssumption DEF TypeOK, MeteorType
  <2>3. met' \in MeteorType
    BY <2>1, <2>2 DEF MeteorType
  <2>4. left' \in [Kinds -> Nat]
    BY <1>0, <1>3 DEF UserEdit, Kinds
  <2> QED BY <1>3, <2>3, <2>4 DEF UserEdit, TypeOK
<1>4. ASSUME NEW n \in ShowerNames, ChangeShower(n) PROVE TypeOK'
  <2>1. shower' \in [ShowerNames -> ShowerType]
    <3>1. shower[n] \in ShowerType /\ shower[n].uid + 1 \in Nat
      BY DEF TypeOK, ShowerType
    <3>2. [shower[n] EXCEPT !.live = FALSE] \in ShowerType
      BY <3>1 DEF ShowerType
    <3>3. ASSUME NEW e \in ExtChoices
          PROVE  /\ [shower[n] EXCEPT !.ext = e] \in ShowerType
                 /\ NewShower(n, shower[n].uid + 1, e) \in ShowerType
      BY <3>1, ExtAssumption, NewShowerType DEF ShowerType
    <3>4. \E s \in ShowerType : shower' = [shower EXCEPT ![n] = s]
      BY <1>4, <3>1, <3>2, <3>3 DEF ChangeShower
    <3> QED BY <3>4 DEF TypeOK
  <2>2. left' \in [Kinds -> Nat]
    BY <1>0, <1>4 DEF ChangeShower, Kinds
  <2> QED BY <1>4, <2>1, <2>2 DEF ChangeShower, TypeOK
<1>5. CASE CollectMeteor
  <2>1. met' \in MeteorType
    BY <1>5, DeleteObjectType DEF CollectMeteor, TypeOK
  <2> QED BY <1>5, <2>1 DEF CollectMeteor, TypeOK
<1>6. CASE Tick
  BY <1>6 DEF Tick, TypeOK, apiVars
<1>7. ASSUME NEW ns \in Namespaces, LoseComa(ns) PROVE TypeOK'
  <2>1. left' \in [Kinds -> Nat]
    BY <1>0, <1>7 DEF LoseComa, Kinds
  <2> QED BY <1>7, <2>1, EmptyTypes DEF LoseComa, TypeOK
<1>8. ASSUME NEW p \in PipelineNames, CollectPipelineRun(p) PROVE TypeOK'
  BY <1>8, EmptyTypes DEF CollectPipelineRun, TypeOK
<1>9. ASSUME NEW p \in PipelineNames, TektonStep(p) PROVE TypeOK'
  <2>1. PICK s \in RunStates : pr' = [pr EXCEPT ![p].st = s]
    BY <1>9 DEF TektonStep, RunStates, Finished
  <2>2. pr' \in [PipelineNames -> RunType]
    BY <2>1 DEF TypeOK, RunType
  <2> QED BY <1>9, <2>2 DEF TektonStep, TypeOK
<1>10. ASSUME NEW p \in PipelineNames, PrunePipelineRun(p) PROVE TypeOK'
  <2>1. left' \in [Kinds -> Nat]
    BY <1>0, <1>10 DEF PrunePipelineRun, Kinds
  <2> QED BY <1>10, <2>1, EmptyTypes DEF PrunePipelineRun, TypeOK
<1>11. CASE ReleaseMeteor
  <2>1. met.rv + 1 \in Nat /\ met.fin \in BOOLEAN /\ met \in MeteorType
    BY DEF TypeOK, MeteorType
  <2>2. [met EXCEPT !.held = FALSE, !.live = met.fin, !.rv = met.rv + 1] \in MeteorType
    BY <2>1 DEF MeteorType
  <2> QED BY <1>11, <2>2 DEF ReleaseMeteor, TypeOK
<1> QED BY <1>1, <1>2, <1>3, <1>4, <1>5, <1>6, <1>7, <1>8, <1>9, <1>10, <1>11 DEF Cluster

\* The variables of the model keep their types: the program never leaves the
\* states the specification talks about.
THEOREM TypeCorrect == Spec => []TypeOK
<1>1. TypeOK /\ [Next]_vars => TypeOK'
  <2> SUFFICES ASSUME TypeOK, [Next]_vars PROVE TypeOK'
    OBVIOUS
  <2>1. CASE Next
    BY <2>1, TypeWorker, TypeManager, TypeCluster DEF Next
  <2>2. CASE UNCHANGED vars
    BY <2>2 DEF vars, apiVars, cacheVars, opVars, TypeOK
  <2> QED BY <2>1, <2>2
<1> QED BY <1>1, TypeInit, PTL DEF Spec

-----------------------------------------------------------------------------
(* The finalizer's promise *)

\* The Meteor's resourceVersion moves with every change of it.
Versioned == met' = met \/ met'.rv = met.rv + 1

\* The copy the worker holds while it is idle names no Coma.
LEMMA NoMeteorFacts == NoMeteor.rv = 0 /\ Refs(NoMeteor.st.comas) = {} /\ Refs(<<>>) = {}
<1>1. Refs(<<>>) = {}
  <2>1. DOMAIN <<>> = {}
    OBVIOUS
  <2> QED BY <2>1 DEF Refs
<1>2. NoMeteor.st.comas = <<>> /\ NoMeteor.rv = 0
  BY DEF NoMeteor, EmptyStatus
<1> QED BY <1>1, <1>2

\* A step that leaves Meteor, Comas and caches alone and the worker's copy as
\* it was in what the invariant speaks of.
LEMMA QuietWorker ==
    ASSUME IInv, TypeOK', UNCHANGED <<met, coma, uids, cmet, ccoma>>,
           pc \in BeforeComas \cup AfterFinalizer,
           pc' \in BeforeComas \cup AfterFinalizer,
           pc' \in BeforeComas => pc \in BeforeComas,
           pc' \in AfterFinalizer => w.fin,
           pc' = "finalize" => idx' = 1,
           w'.rv = w.rv, w'.fin = w.fin, w'.st.comas = w.st.comas
    PROVE  IInv'
<1>1. CacheCoherent' /\ GoneMeansComasGone'
  BY DEF IInv, CacheCoherent, GoneMeansComasGone, ComaExists
<1>2. CopyCoherent'
  BY DEF IInv, CopyCoherent
<1>3. ComasNeedFinalizer'
  BY DEF IInv, ComasNeedFinalizer, BeforeComas, AfterFinalizer
<1>4. UidsFresh'
  BY DEF IInv, UidsFresh
<1>5. DeletedSoFar'
  <2>1. \A i \in DOMAIN w.st.comas : i \in Nat \ {0}
    <3>1. w.st.comas \in Seq(ComaRef)
      BY DEF IInv, TypeOK, MeteorType, StatusType
    <3> QED BY <3>1
  <2> QED BY <2>1 DEF DeletedSoFar
<1> QED BY <1>1, <1>2, <1>3, <1>4, <1>5 DEF IInv

\* The same past the finalizer: nothing is asked of the loop position.
LEMMA LateWorker ==
    ASSUME IInv, TypeOK', UNCHANGED <<met, coma, uids, cmet, ccoma>>,
           pc \in {"coma", "pipe", "status"}, pc' \in {"coma", "pipe", "status"},
           w'.rv = w.rv, w'.fin = w.fin, w'.st.comas = w.st.comas
    PROVE  IInv'
<1>1. w.fin
  BY DEF IInv, ComasNeedFinalizer, AfterFinalizer
<1> QED BY <1>1, QuietWorker DEF BeforeComas, AfterFinalizer

\* The worker stops, or the process does, and neither Meteor nor Comas change.
LEMMA WorkerStops ==
    ASSUME IInv, TypeOK', UNCHANGED <<met, coma, uids, cmet, ccoma>>,
           pc' \in {"idle", "down", "panicked"}, w' = NoMeteor
    PROVE  IInv'
<1>1. CacheCoherent' /\ GoneMeansComasGone'
  BY DEF IInv, CacheCoherent, GoneMeansComasGone, ComaExists
<1>2. w'.rv = 0 /\ Refs(w'.st.comas) = {}
  BY NoMeteorFacts
<1>3. met.rv \in Nat
  BY DEF IInv, TypeOK, MeteorType
<1>4. CopyCoherent'
  BY <1>2, <1>3 DEF CopyCoherent, BeforeComas, AfterFinalizer
<1>5. ComasNeedFinalizer'
  BY DEF IInv, ComasNeedFinalizer, BeforeComas, AfterFinalizer
<1>6. UidsFresh'
  BY <1>2 DEF IInv, UidsFresh
<1>7. DeletedSoFar'
  BY DEF DeletedSoFar
<1> QED BY <1>1, <1>4, <1>5, <1>6, <1>7 DEF IInv

\* The Meteor changes under the worker's feet, or the worker changes it and
\* stops: its copy is then out of date or forgotten.
LEMMA MeteorMoves ==
    ASSUME IInv, TypeOK', UNCHANGED <<coma, uids, cmet, ccoma>>, Versioned,
           \/ UNCHANGED <<pc, idx, w>>
           \/ pc' = "idle" /\ w' = NoMeteor,
           met'.live /\ ~met'.fin /\ ~met'.held => met'.st.comas = <<>>,
           \A ref \in Refs(met'.st.comas) : ref.uid # 0 /\ ref.uid <= uids,
           GoneMeansComasGone'
    PROVE  IInv'
<1>0. /\ met.rv \in Nat /\ cmet.rv \in Nat /\ w.rv \in Nat
      /\ met'.rv \in Nat
  BY DEF IInv, TypeOK, MeteorType
<1>1. CacheCoherent'
  BY <1>0 DEF IInv, CacheCoherent, Versioned
<1>2. w' = NoMeteor => w'.rv = 0 /\ Refs(w'.st.comas) = {}
  BY NoMeteorFacts
<1>3. CopyCoherent'
  <2>1. CASE pc' = "idle" /\ w' = NoMeteor
    BY <1>0, <1>2, <2>1 DEF CopyCoherent, BeforeComas, AfterFinalizer
  <2>2. CASE UNCHANGED <<pc, idx, w>>
    BY <1>0, <2>2 DEF IInv, CopyCoherent, Versioned
  <2> QED BY <2>1, <2>2
<1>4. ComasNeedFinalizer'
  BY DEF IInv, ComasNeedFinalizer, BeforeComas, AfterFinalizer
<1>5. UidsFresh'
  BY <1>2 DEF IInv, UidsFresh
<1>6. DeletedSoFar'
  BY DEF IInv, DeletedSoFar, ComaExists
<1> QED BY <1>1, <1>3, <1>4, <1>5, <1>6 DEF IInv

\* Nothing the invariant speaks of changes.
LEMMA QuietCluster ==
    ASSUME IInv, TypeOK', UNCHANGED <<met, coma, uids, cmet, ccoma, pc, idx, w>>
    PROVE  IInv'
BY DEF IInv, CacheCoherent, CopyCoherent, ComasNeedFinalizer, UidsFresh, DeletedSoFar,
       GoneMeansComasGone, ComaExists

\* Comas go, and nothing else changes that the invariant speaks of.
LEMMA ComaLost ==
    ASSUME IInv, TypeOK', UNCHANGED <<met, uids, cmet, ccoma, pc, idx, w>>,
           \A n \in Namespaces : coma'[n].uid = coma[n].uid \/ coma'[n].uid = 0,
           \A ref \in ComaRef : ref.uid # 0 /\ ~ComaExists(ref) => ~ComaExists(ref)'
    PROVE  IInv'
<1>1. CacheCoherent' /\ CopyCoherent' /\ ComasNeedFinalizer'
  BY DEF IInv, CacheCoherent, CopyCoherent, ComasNeedFinalizer
<1>2. UidsFresh'
  BY DEF IInv, UidsFresh, TypeOK
<1>3. /\ Refs(met.st.comas) \subseteq ComaRef /\ Refs(w.st.comas) \subseteq ComaRef
      /\ \A i \in DOMAIN w.st.comas : w.st.comas[i] \in Refs(w.st.comas)
  <2>1. w.st.comas \in Seq(ComaRef) /\ met.st.comas \in Seq(ComaRef)
    BY DEF IInv, TypeOK, MeteorType, StatusType
  <2> QED BY <2>1 DEF Refs
<1>4. DeletedSoFar' /\ GoneMeansComasGone'
  BY <1>3 DEF IInv, DeletedSoFar, GoneMeansComasGone, UidsFresh
<1> QED BY <1>1, <1>2, <1>4 DEF IInv

\* A Coma goes, or gets an owner: no Coma that did not exist comes to exist.
LEMMA ComaGoes ==
    ASSUME IInv, NEW ns \in Namespaces,
           \/ coma' = [coma EXCEPT ![ns] = NoComa]
           \/ \E o : coma' = [coma EXCEPT ![ns].owner = o]
    PROVE  /\ \A n \in Namespaces : coma'[n].uid = coma[n].uid \/ coma'[n].uid = 0
           /\ \A ref \in ComaRef : ref.uid # 0 /\ ~ComaExists(ref) => ~ComaExists(ref)'
<1>1. coma \in [Namespaces -> ComaType]
  BY DEF IInv, TypeOK
<1>2. \A n \in Namespaces : coma'[n].uid = coma[n].uid \/ coma'[n].uid = 0
  BY <1>1 DEF NoComa, ComaType
<1> QED BY <1>2 DEF ComaExists, ComaRef

\* What the invariant says of the objects, in the form the steps below use.
LEMMA IInvFacts ==
    ASSUME IInv
    PROVE  /\ met \in MeteorType /\ cmet \in MeteorType /\ w \in MeteorType
           /\ met.rv \in Nat /\ cmet.rv \in Nat /\ w.rv \in Nat /\ uids \in Nat
           /\ w.st \in StatusType
           /\ w.st.comas \in Seq(ComaRef) /\ met.st.comas \in Seq(ComaRef)
           /\ cmet.rv <= met.rv /\ w.rv <= met.rv
           /\ \A ref \in Refs(met.st.comas) : ref.uid # 0 /\ ref.uid <= uids
           /\ \A ref \in Refs(w.st.comas) : ref.uid # 0 /\ ref.uid <= uids
<1>1. met \in MeteorType /\ cmet \in MeteorType /\ w \in MeteorType /\ uids \in Nat
  BY DEF IInv, TypeOK
<1>2. cmet.rv <= met.rv /\ w.rv <= met.rv
  BY DEF IInv, CacheCoherent, CopyCoherent
<1>3. /\ \A ref \in Refs(met.st.comas) : ref.uid # 0 /\ ref.uid <= uids
      /\ \A ref \in Refs(w.st.comas) : ref.uid # 0 /\ ref.uid <= uids
  BY DEF IInv, UidsFresh
<1>4. /\ met.rv \in Nat /\ cmet.rv \in Nat /\ w.rv \in Nat
      /\ w.st \in StatusType /\ met.st \in StatusType
  BY <1>1 DEF MeteorType
<1>5. w.st.comas \in Seq(ComaRef) /\ met.st.comas \in Seq(ComaRef)
  BY <1>4 DEF StatusType
<1> QED BY <1>1, <1>2, <1>3, <1>4, <1>5

\* Deleting the Meteor, by TTL, user or garbage collector.
LEMMA DeleteKeeps ==
    ASSUME IInv, TypeOK', met.live, met' = DeleteObject(met),
           UNCHANGED <<coma, uids, cmet, ccoma>>,
           \/ UNCHANGED <<pc, idx, w>>
           \/ pc' = "idle" /\ w' = NoMeteor
    PROVE  IInv'
<1> USE IInvFacts
<1>1. /\ met'.st = met.st /\ met'.fin = met.fin /\ Versioned
      /\ ~met'.live => ~met.fin
  BY DeleteObjectType DEF Versioned
<1>2. met.live /\ ~met.fin /\ ~met.held => met.st.comas = <<>>
  BY DEF IInv, ComasNeedFinalizer
<1>3. met'.held = met.held
  BY DEF DeleteObject, MeteorType
<1>4. GoneMeansComasGone'
  BY <1>1, <1>2, <1>3, NoMeteorFacts DEF IInv, GoneMeansComasGone, ComaExists
<1> QED BY <1>1, <1>2, <1>3, <1>4, MeteorMoves

\* No step of users, Tekton, the collector or time breaks the invariant.
LEMMA InvCluster == IInv /\ TypeOK' /\ Cluster => IInv'
<1> SUFFICES ASSUME IInv, TypeOK', Cluster PROVE IInv'
  OBVIOUS
<1> USE DEF cacheVars, opVars
<1>1. CASE UserCreate
  <2>1. PICK t \in TTLs, l \in Selectors :
          met' = [NoMeteor EXCEPT !.live = TRUE, !.uid = met.uid + 1,
                                  !.rv = met.rv + 1, !.created = clock, !.ttl = t,
                                  !.sel = l]
    BY <1>1 DEF UserCreate
  <2>2. met'.live /\ met'.rv = met.rv + 1 /\ met'.st.comas = <<>>
    BY <2>1 DEF NoMeteor, EmptyStatus
  <2>3. GoneMeansComasGone' /\ Versioned
    BY <2>2, NoMeteorFacts DEF GoneMeansComasGone, Versioned
  <2> QED BY <1>1, <2>2, <2>3, NoMeteorFacts, MeteorMoves DEF UserCreate
<1>2. CASE UserDelete
  <2>1. CASE met' = DeleteObject(met)
    BY <1>2, <2>1, DeleteKeeps DEF UserDelete
  <2>2. CASE met' = [met EXCEPT !.del = TRUE, !.held = TRUE, !.rv = met.rv + 1]
    <3>1. /\ met'.rv = met.rv + 1 /\ met'.st = met.st /\ met'.fin = met.fin
          /\ met'.live = met.live /\ met'.held
      BY <2>2, IInvFacts DEF MeteorType
    <3>2. met.live /\ ~met.fin /\ ~met.held => met.st.comas = <<>>
      BY DEF IInv, ComasNeedFinalizer
    <3>3. GoneMeansComasGone' /\ Versioned
      BY <1>2, <3>1, <3>2, NoMeteorFacts
         DEF UserDelete, IInv, GoneMeansComasGone, ComaExists, Versioned
    <3> QED BY <1>2, <3>1, <3>3, IInvFacts, MeteorMoves DEF UserDelete
  <2> QED BY <1>2, <2>1, <2>2 DEF UserDelete
<1>3. CASE UserEdit
  <2>1. PICK t \in TTLs : met' = [met EXCEPT !.ttl = t, !.rv = met.rv + 1]
    BY <1>3 DEF UserEdit
  <2>2. /\ met'.rv = met.rv + 1 /\ met'.st = met.st /\ met'.fin = met.fin
        /\ met'.live = met.live /\ met'.held = met.held
    BY <2>1, IInvFacts DEF MeteorType
  <2>3. met.live /\ ~met.fin /\ ~met.held => met.st.comas = <<>>
    BY DEF IInv, ComasNeedFinalizer
  <2>4. GoneMeansComasGone' /\ Versioned
    BY <1>3, <2>2 DEF UserEdit, IInv, GoneMeansComasGone, ComaExists, Versioned
  <2> QED BY <1>3, <2>2, <2>3, <2>4, IInvFacts, MeteorMoves DEF UserEdit
<1>4. ASSUME NEW n \in ShowerNames, ChangeShower(n) PROVE IInv'
  BY <1>4, QuietCluster DEF ChangeShower
<1>5. CASE CollectMeteor
  BY <1>5, DeleteKeeps DEF CollectMeteor
<1>6. CASE Tick
  BY <1>6, QuietCluster DEF Tick, apiVars
<1>7. ASSUME NEW ns \in Namespaces, LoseComa(ns) PROVE IInv'
  <2>1. /\ \A n \in Namespaces : coma'[n].uid = coma[n].uid \/ coma'[n].uid = 0
        /\ \A ref \in ComaRef : ref.uid # 0 /\ ~ComaExists(ref) => ~ComaExists(ref)'
    BY <1>7, ComaGoes DEF LoseComa
  <2> QED BY <1>7, <2>1, ComaLost DEF LoseComa
<1>8. ASSUME NEW p \in PipelineNames, CollectPipelineRun(p) PROVE IInv'
  BY <1>8, QuietCluster DEF CollectPipelineRun
<1>9. ASSUME NEW p \in PipelineNames, TektonStep(p) PROVE IInv'
  BY <1>9, QuietCluster DEF TektonStep
<1>10. ASSUME NEW p \in PipelineNames, PrunePipelineRun(p) PROVE IInv'
  BY <1>10, QuietCluster DEF PrunePipelineRun
<1>11. CASE ReleaseMeteor
  <2>1. met' = [met EXCEPT !.held = FALSE, !.live = met.fin, !.rv = met.rv + 1]
    BY <1>11 DEF ReleaseMeteor
  <2>2. /\ met'.rv = met.rv + 1 /\ met'.st = met.st /\ met'.fin = met.fin
        /\ met'.live = met.fin
    BY <2>1, IInvFacts DEF MeteorType
  <2>3. GoneMeansComasGone' /\ Versioned
    BY <1>11, <2>2 DEF ReleaseMeteor, IInv, GoneMeansComasGone, ComaExists, Versioned
  <2> QED BY <1>11, <2>2, <2>3, IInvFacts, MeteorMoves DEF ReleaseMeteor
<1> QED BY <1>1, <1>2, <1>3, <1>4, <1>5, <1>6, <1>7, <1>8, <1>9, <1>10, <1>11 DEF Cluster

\* Nor does one of the manager, whose caches only catch up.
LEMMA InvManager == IInv /\ TypeOK' /\ Manager => IInv'
<1> SUFFICES ASSUME IInv, TypeOK', Manager PROVE IInv'
  OBVIOUS
<1> USE DEF apiVars, cacheVars, opVars
<1>1. CASE SyncMeteor
  <2>1. cmet' = met /\ UNCHANGED <<met, coma, uids, ccoma, pc, w, idx>>
    BY <1>1 DEF SyncMeteor
  <2>2. CacheCoherent'
    BY <2>1, IInvFacts DEF CacheCoherent
  <2>3. CopyCoherent' /\ DeletedSoFar' /\ GoneMeansComasGone'
    BY <2>1 DEF IInv, CopyCoherent, DeletedSoFar, GoneMeansComasGone, ComaExists
  <2>4. ComasNeedFinalizer'
    BY <2>1 DEF IInv, ComasNeedFinalizer
  <2>5. UidsFresh'
    BY <2>1 DEF IInv, UidsFresh
  <2> QED BY <2>2, <2>3, <2>4, <2>5 DEF IInv
<1>2. ASSUME NEW p \in PipelineNames, SyncPipelineRun(p) PROVE IInv'
  BY <1>2, QuietCluster DEF SyncPipelineRun
<1>3. ASSUME NEW ns \in Namespaces, SyncComa(ns) PROVE IInv'
  <2>1. /\ ccoma' = [ccoma EXCEPT ![ns] = coma[ns]]
        /\ UNCHANGED <<met, coma, uids, cmet, pc, w, idx>>
    BY <1>3 DEF SyncComa
  <2>2. CacheCoherent' /\ CopyCoherent' /\ ComasNeedFinalizer' /\ DeletedSoFar'
        /\ GoneMeansComasGone'
    BY <2>1 DEF IInv, CacheCoherent, CopyCoherent, ComasNeedFinalizer, DeletedSoFar,
                GoneMeansComasGone, ComaExists
  <2>3. UidsFresh'
    BY <2>1 DEF IInv, TypeOK, UidsFresh
  <2> QED BY <2>2, <2>3 DEF IInv
<1>4. ASSUME NEW n \in ShowerNames, SyncShower(n) PROVE IInv'
  BY <1>4, QuietCluster DEF SyncShower
<1>7. CASE OtherMeteor
  BY <1>7, QuietCluster DEF OtherMeteor
<1>5. CASE Crash
  BY <1>5, WorkerStops DEF Crash, Goto
<1>6. CASE Restart
  <2>1. /\ cmet' = met /\ ccoma' = coma /\ w' = NoMeteor /\ pc' = "idle"
        /\ UNCHANGED <<met, coma, uids>>
    BY <1>6 DEF Restart, Goto
  <2>2. CacheCoherent' /\ CopyCoherent'
    BY <2>1, IInvFacts, NoMeteorFacts
       DEF CacheCoherent, CopyCoherent, BeforeComas, AfterFinalizer
  <2>3. ComasNeedFinalizer' /\ DeletedSoFar' /\ GoneMeansComasGone'
    BY <2>1 DEF IInv, ComasNeedFinalizer, BeforeComas, AfterFinalizer, DeletedSoFar,
                GoneMeansComasGone, ComaExists
  <2>4. UidsFresh'
    BY <2>1, NoMeteorFacts DEF IInv, UidsFresh
  <2> QED BY <2>2, <2>3, <2>4 DEF IInv
<1> QED BY <1>1, <1>2, <1>3, <1>4, <1>5, <1>6, <1>7 DEF Manager

\* Nor does one of Reconcile, case by case.
LEMMA InvWorker == IInv /\ TypeOK' /\ Worker => IInv'
<1> SUFFICES ASSUME IInv, TypeOK', Worker PROVE IInv'
  OBVIOUS
<1> USE DEF apiVars, cacheVars, Goto
<1>0. pc \in BeforeComas \/ pc \in AfterFinalizer \/ pc \in {"idle", "down", "panicked"}
  BY DEF IInv, TypeOK, BeforeComas, AfterFinalizer
<1>1. CASE ReconcileNothing
  BY <1>1, QuietCluster DEF ReconcileNothing
<1>2. CASE Reconcile
  <2>1. /\ UNCHANGED <<met, coma, uids, cmet, ccoma>>
        /\ pc' \in {"ttl", "noshower"}
        /\ cmet.live
    BY <1>2 DEF Reconcile, findOwnerShower
  <2>2. w'.rv = cmet.rv /\ w'.fin = cmet.fin /\ w'.st.comas = cmet.st.comas
    <3>1. /\ Observed(cmet) \in MeteorType /\ Observed(cmet).rv = cmet.rv
          /\ Observed(cmet).fin = cmet.fin /\ Observed(cmet).st.comas = cmet.st.comas
      BY IInvFacts, ObservedType
    <3>2. \/ w' = Observed(cmet)
          \/ w' = Controlled(Observed(cmet), rshower')
      BY <1>2 DEF Reconcile
    <3>3. rshower' \in ShowerType
      BY DEF TypeOK
    <3> QED BY <3>1, <3>2, <3>3, ControlledType
  <2>3. CacheCoherent' /\ GoneMeansComasGone' /\ DeletedSoFar'
    BY <2>1 DEF IInv, CacheCoherent, GoneMeansComasGone, ComaExists, DeletedSoFar
  <2>4. CopyCoherent'
    BY <2>1, <2>2 DEF IInv, CacheCoherent, CopyCoherent, BeforeComas, AfterFinalizer
  <2>5. ComasNeedFinalizer'
    BY <2>1, <2>2 DEF IInv, ComasNeedFinalizer, BeforeComas, AfterFinalizer
  <2>6. UidsFresh'
    BY <2>1, <2>2 DEF IInv, UidsFresh
  <2> QED BY <2>3, <2>4, <2>5, <2>6 DEF IInv
<1>3. CASE NoShowerStatus
  <2>1. /\ pc = "noshower" /\ pc' = "ttl"
        /\ UNCHANGED <<coma, uids, cmet, ccoma>>
    BY <1>3 DEF NoShowerStatus
  <2>2. CASE UNCHANGED <<met, w>>
    BY <2>1, <2>2, QuietWorker DEF BeforeComas, AfterFinalizer
  <2>3. CASE /\ CanUpdate(w) /\ met' = WithStatus(met, w.st)
             /\ w' = [w EXCEPT !.rv = met'.rv]
    <3>1. /\ met.live /\ w.rv = met.rv /\ w.st.comas = met.st.comas /\ w.fin = met.fin
      BY <2>1, <2>3 DEF CanUpdate, IInv, CopyCoherent, BeforeComas, AfterFinalizer
    <3>2. /\ met'.st = w.st /\ met'.fin = met.fin /\ met'.live = met.live
          /\ met'.held = met.held /\ Versioned /\ met'.rv \in Nat
      BY <2>3, IInvFacts, WithStatusType DEF Versioned, MeteorType
    <3>3. w'.rv = met'.rv /\ w'.fin = w.fin /\ w'.st = w.st
      BY <2>3, IInvFacts DEF MeteorType
    <3>4. CacheCoherent'
      BY <2>1, <3>2, IInvFacts DEF IInv, CacheCoherent, Versioned
    <3>5. CopyCoherent'
      BY <2>1, <3>1, <3>2, <3>3 DEF CopyCoherent
    <3>6. ComasNeedFinalizer'
      BY <2>1, <3>1, <3>2, <3>3 DEF IInv, ComasNeedFinalizer, BeforeComas, AfterFinalizer
    <3>7. UidsFresh'
      BY <2>1, <3>2, <3>3 DEF IInv, UidsFresh
    <3>8. DeletedSoFar' /\ GoneMeansComasGone'
      BY <2>1, <3>1, <3>2 DEF IInv, DeletedSoFar, GoneMeansComasGone, ComaExists
    <3> QED BY <3>4, <3>5, <3>6, <3>7, <3>8 DEF IInv
  <2> QED BY <1>3, <2>2, <2>3 DEF NoShowerStatus
<1>4. CASE DeleteExpired
  <2>1. UNCHANGED <<coma, uids, cmet, ccoma>> /\ pc' = "idle" /\ w' = NoMeteor
    BY <1>4 DEF DeleteExpired, Return
  <2>2. CASE met.live /\ met' = DeleteObject(met)
    BY <2>1, <2>2, DeleteKeeps
  <2>3. CASE UNCHANGED met
    BY <2>1, <2>3, WorkerStops
  <2> QED BY <1>4, <2>2, <2>3 DEF DeleteExpired
<1>5. CASE AddFinalizer
  <2>1. pc = "ttl" /\ UNCHANGED <<coma, uids, cmet, ccoma>>
    BY <1>5 DEF AddFinalizer
  <2>2. CASE w.fin /\ pc' = "coma" /\ UNCHANGED <<met, w>>
    BY <2>1, <2>2, QuietWorker DEF BeforeComas, AfterFinalizer
  <2>3. CASE UNCHANGED met /\ Return(TRUE)
    BY <2>1, <2>3, WorkerStops DEF Return
  <2>4. CASE /\ CanUpdate(w) /\ pc' = "coma"
             /\ met' = [met EXCEPT !.fin = TRUE, !.owned = w.owned, !.rv = met.rv + 1]
             /\ w' = [w EXCEPT !.fin = TRUE, !.rv = met'.rv, !.st = Answered(w.st)]
    <3>0. Answered(w.st).comas = w.st.comas
      BY IInvFacts DEF Answered, MeteorType, StatusType
    <3>1. w.st.comas = met.st.comas
      BY <2>1, <2>4 DEF CanUpdate, IInv, CopyCoherent, BeforeComas, AfterFinalizer
    <3>2. /\ met'.rv = met.rv + 1 /\ met'.fin /\ met'.st = met.st /\ met'.live
          /\ w'.rv = met'.rv /\ w'.fin /\ w'.st.comas = w.st.comas
      BY <2>4, <3>0, IInvFacts DEF MeteorType, CanUpdate
    <3>3. CacheCoherent'
      BY <2>1, <3>2, IInvFacts DEF IInv, CacheCoherent
    <3>4. CopyCoherent'
      <4>1. w'.fin = met'.fin
        BY <2>4, IInvFacts DEF MeteorType
      <4> QED BY <2>4, <3>1, <3>2, <4>1, IInvFacts DEF CopyCoherent, BeforeComas
    <3>5. ComasNeedFinalizer'
      BY <2>1, <2>4, <3>2 DEF IInv, ComasNeedFinalizer, BeforeComas
    <3>6. UidsFresh'
      BY <2>1, <3>2 DEF IInv, UidsFresh
    <3>7. DeletedSoFar' /\ GoneMeansComasGone'
      BY <2>4, <3>2 DEF DeletedSoFar, GoneMeansComasGone
    <3> QED BY <3>3, <3>4, <3>5, <3>6, <3>7 DEF IInv
  <2> QED BY <1>5, <2>2, <2>3, <2>4 DEF AddFinalizer
<1>6. CASE BeginFinalize
  BY <1>6, QuietWorker DEF BeginFinalize, BeforeComas, AfterFinalizer
<1>19. CASE NothingToFinalize
  BY <1>19, WorkerStops DEF NothingToFinalize, Return
<1>7. CASE DeleteComa
  <2> DEFINE ref == w.st.comas[idx]
  <2>1. /\ pc = "finalize" /\ idx \in DOMAIN w.st.comas
        /\ UNCHANGED <<met, uids, cmet, ccoma>>
    BY <1>7, IInvFacts DEF DeleteComa, IInv, TypeOK
  <2>2. CASE UNCHANGED coma /\ Return(TRUE)
    BY <2>1, <2>2, WorkerStops DEF Return
  <2>3. CASE /\ coma' = [coma EXCEPT ![ref.ns] = NoComa]
             /\ pc' = "finalize" /\ idx' = idx + 1 /\ UNCHANGED w
    <3>1. ref \in ComaRef /\ ref.ns \in Namespaces /\ ref.uid # 0
      <4>1. ref \in Refs(w.st.comas) /\ ref \in ComaRef
        BY <2>1, IInvFacts DEF Refs
      <4> QED BY <4>1, IInvFacts DEF ComaRef
    <3>2. /\ \A n \in Namespaces : coma'[n].uid = coma[n].uid \/ coma'[n].uid = 0
          /\ \A r \in ComaRef : r.uid # 0 /\ ~ComaExists(r) => ~ComaExists(r)'
      BY <2>3, <3>1, ComaGoes
    <3>3. PICK r \in ComaRef : r = ref
      BY <3>1
    <3>4. ~ComaExists(r)'
      BY <2>3, <3>1, <3>3 DEF ComaExists, NoComa, IInv, TypeOK
    <3>5. CacheCoherent' /\ CopyCoherent' /\ ComasNeedFinalizer'
      BY <2>1, <2>3 DEF IInv, CacheCoherent, CopyCoherent, ComasNeedFinalizer
    <3>6. UidsFresh'
      BY <2>1, <2>3, <3>2 DEF IInv, UidsFresh, TypeOK
    <3>7. /\ Refs(met.st.comas) \subseteq ComaRef
          /\ \A i \in DOMAIN w.st.comas : /\ w.st.comas[i] \in Refs(w.st.comas)
                                          /\ w.st.comas[i] \in ComaRef /\ i \in Nat
      BY IInvFacts DEF Refs
    <3>8. GoneMeansComasGone'
      BY <2>1, <3>2, <3>7, IInvFacts DEF IInv, GoneMeansComasGone
    <3>9. DeletedSoFar'
      <4>1. \A i \in DOMAIN w.st.comas : i < idx => ~ComaExists(w.st.comas[i])'
        BY <2>1, <2>3, <3>2, <3>7, IInvFacts DEF IInv, DeletedSoFar
      <4>2. \A i \in DOMAIN w.st.comas : i < idx + 1 => i < idx \/ i = idx
        BY <2>1, <3>7
      <4>3. \A i \in DOMAIN w.st.comas : i < idx + 1 => ~ComaExists(w.st.comas[i])'
        BY <2>1, <2>3, <3>3, <3>4, <4>1, <4>2 DEF ComaExists
      <4> QED BY <2>3, <4>3 DEF DeletedSoFar
    <3> QED BY <3>5, <3>6, <3>8, <3>9 DEF IInv
  <2> QED BY <1>7, <2>2, <2>3 DEF DeleteComa
<1>8. CASE RemoveFinalizer
  <2>1. /\ pc = "finalize" /\ idx > Len(w.st.comas) /\ pc' = "idle" /\ w' = NoMeteor
        /\ UNCHANGED <<coma, uids, cmet, ccoma>>
    BY <1>8 DEF RemoveFinalizer, Return
  <2>2. CASE UNCHANGED met
    BY <2>1, <2>2, WorkerStops
  <2>3. CASE /\ CanUpdate(w)
             /\ met' = [met EXCEPT !.fin = FALSE, !.live = met.held, !.rv = met.rv + 1]
    <3>1. w.st.comas = met.st.comas
      BY <2>1, <2>3 DEF CanUpdate, IInv, CopyCoherent, BeforeComas, AfterFinalizer
    <3>2. /\ met'.rv = met.rv + 1 /\ met'.st = met.st /\ Versioned
          /\ met'.live => met'.held
      BY <2>3, IInvFacts DEF MeteorType, Versioned
    <3>3. \A i \in DOMAIN w.st.comas : i < idx
      BY <2>1, IInvFacts DEF IInv, TypeOK
    <3>4. \A i \in DOMAIN w.st.comas : ~ComaExists(w.st.comas[i])
      BY <2>1, <3>3 DEF IInv, DeletedSoFar
    <3>5. GoneMeansComasGone'
      BY <2>1, <3>1, <3>2, <3>4 DEF GoneMeansComasGone, Refs, ComaExists
    <3> QED BY <2>1, <3>2, <3>5, IInvFacts, MeteorMoves
  <2> QED BY <1>8, <2>2, <2>3 DEF RemoveFinalizer
<1>9. CASE Panic
  BY <1>9, WorkerStops DEF Panic
<1>10. CASE NextService
  <2>1. pc = "coma" /\ pc' \in {"coma", "pipe"} /\ UNCHANGED <<met, coma, uids, cmet, ccoma, w>>
    BY <1>10 DEF NextService
  <2> QED BY <2>1, LateWorker
<1>11. CASE CreateComa
  <2>1. pc = "coma" /\ UNCHANGED <<met, cmet, ccoma, w>>
    BY <1>11 DEF CreateComa, AtService
  <2>2. CASE pc' = "status" /\ UNCHANGED <<coma, uids>>
    BY <2>1, <2>2, LateWorker
  <2>3. CASE /\ coma' = [coma EXCEPT ![Service] = [uid |-> uids + 1, owner |-> 0]]
             /\ uids' = uids + 1 /\ pc' = "pipe"
    <3>1. Service \in Namespaces
      BY <1>11, ServiceType DEF CreateComa, IInv
    <3>2. \A n \in Namespaces : coma'[n].uid = coma[n].uid \/ coma'[n].uid = uids + 1
      BY <2>3, <3>1 DEF IInv, TypeOK
    <3>3. CacheCoherent' /\ CopyCoherent' /\ ComasNeedFinalizer' /\ DeletedSoFar'
      BY <2>1, <2>3 DEF IInv, CacheCoherent, CopyCoherent, ComasNeedFinalizer,
                        DeletedSoFar, BeforeComas, AfterFinalizer
    <3>4. UidsFresh'
      <4>1. \A n \in Namespaces : coma[n].uid \in Nat /\ ccoma[n].uid \in Nat
        BY DEF IInv, TypeOK, ComaType
      <4>2. \A n \in Namespaces : coma'[n].uid <= uids + 1 /\ ccoma[n].uid <= uids + 1
        <5>1. \A n \in Namespaces : coma[n].uid <= uids /\ ccoma[n].uid <= uids
          BY DEF IInv, UidsFresh
        <5>2. uids \in Nat
          BY IInvFacts
        <5> QED BY <3>2, <4>1, <5>1, <5>2
      <4>3. \A r \in Refs(met.st.comas) \cup Refs(cmet.st.comas) \cup Refs(w.st.comas) :
               r.uid \in Nat
        <5>1. cmet.st.comas \in Seq(ComaRef)
          BY DEF IInv, TypeOK, MeteorType, StatusType
        <5>2. w.st.comas \in Seq(ComaRef) /\ met.st.comas \in Seq(ComaRef)
          BY IInvFacts
        <5>3. \A r \in Refs(met.st.comas) \cup Refs(cmet.st.comas) \cup Refs(w.st.comas) :
                 r \in ComaRef
          BY <5>1, <5>2 DEF Refs
        <5> QED BY <5>3 DEF ComaRef
      <4>4. \A r \in Refs(met.st.comas) \cup Refs(cmet.st.comas) \cup Refs(w.st.comas) :
               r.uid # 0 /\ r.uid <= uids + 1
        BY <4>3, IInvFacts DEF IInv, UidsFresh
      <4> QED BY <2>1, <2>3, <4>2, <4>4 DEF UidsFresh
    <3>5. GoneMeansComasGone'
      <4>1. \A r \in Refs(met.st.comas) : r \in ComaRef
        BY IInvFacts DEF Refs
      <4>2. \A r \in Refs(met.st.comas) : r.uid # uids + 1 /\ r.ns \in Namespaces
        BY <4>1, IInvFacts DEF ComaRef
      <4> QED BY <2>1, <3>2, <4>2 DEF IInv, GoneMeansComasGone, ComaExists
    <3> QED BY <3>3, <3>4, <3>5 DEF IInv
  <2> QED BY <1>11, <2>2, <2>3 DEF CreateComa
<1>12. CASE GetComaFails
  <2>1. pc = "coma" /\ pc' = "pipe" /\ UNCHANGED <<met, coma, uids, cmet, ccoma, w>>
    BY <1>12 DEF GetComaFails, AtService
  <2> QED BY <2>1, LateWorker
<1>13. CASE AdoptComa
  <2> DEFINE ref == [ns |-> Service, uid |-> ccoma[Service].uid]
  <2>1. /\ pc = "coma" /\ pc' = "coma" /\ UNCHANGED <<met, uids, cmet, ccoma>>
        /\ w' = [w EXCEPT !.st = [w.st EXCEPT !.comas = AddComa(w.st.comas, ref)]]
        /\ ccoma[Service].uid # 0
    BY <1>13 DEF AdoptComa, AtService
  <2>2. Service \in Namespaces
    BY <1>13, ServiceType DEF AdoptComa, IInv
  <2>3. ref \in ComaRef /\ ref.uid # 0 /\ ref.uid <= uids
    BY <2>1, <2>2 DEF IInv, TypeOK, ComaType, ComaRef, UidsFresh
  <2> HIDE DEF ref
  <2>4. w'.rv = w.rv /\ w'.fin = w.fin /\ w'.st.comas = AddComa(w.st.comas, ref)
    BY <2>1, IInvFacts DEF MeteorType, StatusType
  <2>5. Refs(w'.st.comas) = Refs(w.st.comas) \cup {ref}
    BY <2>3, <2>4, IInvFacts, AddComaType
  <2>6. /\ \A n \in Namespaces : coma'[n].uid = coma[n].uid \/ coma'[n].uid = 0
        /\ \A r \in ComaRef : r.uid # 0 /\ ~ComaExists(r) => ~ComaExists(r)'
    <3>1. CASE UNCHANGED coma
      BY <3>1 DEF ComaExists
    <3>2. CASE coma' = [coma EXCEPT ![Service].owner = w.uid]
      BY <2>2, <3>2, ComaGoes
    <3> QED BY <1>13, <3>1, <3>2 DEF AdoptComa
  <2>7. CacheCoherent'
    BY <2>1 DEF IInv, CacheCoherent
  <2>8. CopyCoherent'
    BY <2>1, <2>4, <2>5 DEF IInv, CopyCoherent, BeforeComas
  <2>9. ComasNeedFinalizer'
    BY <2>1, <2>4 DEF IInv, ComasNeedFinalizer, BeforeComas
  <2>10. UidsFresh'
    BY <2>1, <2>3, <2>5, <2>6 DEF IInv, UidsFresh, TypeOK
  <2>11. DeletedSoFar'
    BY <2>1 DEF DeletedSoFar
  <2>12. GoneMeansComasGone'
    <3>1. Refs(met.st.comas) \subseteq ComaRef
      BY IInvFacts DEF Refs
    <3> QED BY <2>1, <2>6, <3>1, IInvFacts DEF IInv, GoneMeansComasGone
  <2> QED BY <2>7, <2>8, <2>9, <2>10, <2>11, <2>12 DEF IInv
<1>14. CASE CreatePipelineRun
  <2>1. /\ pc = "pipe" /\ pc' \in {"pipe", "status"}
        /\ UNCHANGED <<met, coma, uids, cmet, ccoma>>
    BY <1>14 DEF CreatePipelineRun, AtPipeline
  <2>2. Pipeline \in PipelineNames
    BY <1>14, PipelineType DEF CreatePipelineRun, IInv
  <2>3. PICK st \in StatusType : st.comas = w.st.comas /\ w' = [w EXCEPT !.st = st]
    <3>1. Entered(w.st) \in StatusType /\ Entered(w.st).comas = w.st.comas
      BY <2>2, IInvFacts, EnteredType
    <3>2. \A r \in {"BuildStated", "CreateError"} :
            LET new == SetCondition(Entered(w.st), Condition(Pipeline, "True", r))
            IN  new \in StatusType /\ new.comas = w.st.comas
      BY <2>2, <3>1, ConditionType, SetConditionType DEF ConditionStatuses, Reasons
    <3> QED BY <1>14, <3>1, <3>2 DEF CreatePipelineRun
  <2>4. w'.rv = w.rv /\ w'.fin = w.fin /\ w'.st.comas = w.st.comas
    BY <2>3, IInvFacts DEF MeteorType
  <2> QED BY <2>1, <2>4, LateWorker
<1>15. CASE GetPipelineRunFails
  <2>1. /\ pc = "pipe" /\ pc' = "status" /\ UNCHANGED <<met, coma, uids, cmet, ccoma>>
    BY <1>15 DEF GetPipelineRunFails, AtPipeline
  <2>2. Pipeline \in PipelineNames
    BY <1>15, PipelineType DEF GetPipelineRunFails, IInv
  <2>3. PICK st \in StatusType : st.comas = w.st.comas /\ w' = [w EXCEPT !.st = st]
    <3>1. Entered(w.st) \in StatusType /\ Entered(w.st).comas = w.st.comas
      BY <2>2, IInvFacts, EnteredType
    <3>2. LET new == SetCondition(Entered(w.st), Condition(Pipeline, "False", "Error"))
          IN  new \in StatusType /\ new.comas = w.st.comas
      BY <2>2, <3>1, ConditionType, SetConditionType DEF ConditionStatuses, Reasons
    <3> QED BY <1>15, <3>2 DEF GetPipelineRunFails
  <2>4. w'.rv = w.rv /\ w'.fin = w.fin /\ w'.st.comas = w.st.comas
    BY <2>3, IInvFacts DEF MeteorType
  <2> QED BY <2>1, <2>4, LateWorker
<1>16. CASE ReportPipelineRun
  <2>1. /\ pc = "pipe" /\ pc' = "pipe" /\ UNCHANGED <<met, coma, uids, cmet, ccoma>>
    BY <1>16 DEF ReportPipelineRun, AtPipeline
  <2>2. Pipeline \in PipelineNames
    BY <1>16, PipelineType DEF ReportPipelineRun, IInv
  <2>3. PICK st \in StatusType : st.comas = w.st.comas /\ w' = [w EXCEPT !.st = st]
    <3>1. Entered(w.st) \in StatusType /\ Entered(w.st).comas = w.st.comas
      BY <2>2, IInvFacts, EnteredType
    <3>2. cpr[Pipeline].st \in RunStates \ {"absent"}
      BY <1>16, <2>2 DEF ReportPipelineRun, IInv, TypeOK, RunType
    <3>3. LET new == Reported(Entered(w.st), Pipeline, cpr[Pipeline].st)
          IN  new \in StatusType /\ new.comas = w.st.comas
      BY <2>2, <3>1, <3>2, ReportedType
    <3> QED BY <1>16, <3>3 DEF ReportPipelineRun
  <2>4. w'.rv = w.rv /\ w'.fin = w.fin /\ w'.st.comas = w.st.comas
    BY <2>3, IInvFacts DEF MeteorType
  <2> QED BY <2>1, <2>4, LateWorker
<1>17. CASE PipelinesDone
  <2>1. pc = "pipe" /\ pc' = "status" /\ UNCHANGED <<met, coma, uids, cmet, ccoma, w>>
    BY <1>17 DEF PipelinesDone
  <2> QED BY <2>1, LateWorker
<1>18. CASE UpdateStatusNow
  <2>1. /\ pc = "status" /\ pc' = "idle" /\ w' = NoMeteor
        /\ UNCHANGED <<coma, uids, cmet, ccoma>>
    BY <1>18 DEF UpdateStatusNow, Return
  <2>2. CASE UNCHANGED met
    BY <2>1, <2>2, WorkerStops
  <2>3. CASE CanUpdate(w) /\ met' = WithStatus(met, w.st)
    <3>1. w.fin /\ w.fin = met.fin /\ met.live
      BY <2>1, <2>3 DEF CanUpdate, IInv, CopyCoherent, ComasNeedFinalizer, AfterFinalizer
    <3>2. met'.st = w.st /\ met'.fin = met.fin /\ met'.live = met.live /\ Versioned
      BY <2>3, IInvFacts, WithStatusType DEF Versioned
    <3>3. GoneMeansComasGone'
      BY <3>1, <3>2 DEF GoneMeansComasGone
    <3> QED BY <2>1, <3>1, <3>2, <3>3, IInvFacts, MeteorMoves
  <2> QED BY <1>18, <2>2, <2>3 DEF UpdateStatusNow
<1> QED BY <1>1, <1>2, <1>3, <1>4, <1>5, <1>6, <1>7, <1>8, <1>9, <1>10, <1>11, <1>12,
           <1>13, <1>14, <1>15, <1>16, <1>17, <1>18, <1>19 DEF Worker

\* The invariant holds initially: there is no Meteor and no Coma.
LEMMA InvInit == Init => IInv
<1> SUFFICES ASSUME Init PROVE IInv
  OBVIOUS
<1>1. TypeOK
  BY TypeInit
<1>2. met = NoMeteor /\ cmet = NoMeteor /\ w = NoMeteor /\ pc = "idle"
  BY DEF Init
<1>3. CacheCoherent /\ CopyCoherent /\ ComasNeedFinalizer
  <2>1. CacheCoherent /\ CopyCoherent
    BY <1>2, NoMeteorFacts DEF CacheCoherent, CopyCoherent, BeforeComas, AfterFinalizer
  <2>2. ~met.live /\ ~cmet.live
    BY <1>2 DEF NoMeteor
  <2>3. ComasNeedFinalizer
    BY <1>2, <2>2 DEF ComasNeedFinalizer, BeforeComas, AfterFinalizer
  <2> QED BY <2>1, <2>3
<1>4. UidsFresh
  <2>1. \A ns \in Namespaces : coma[ns].uid = 0 /\ ccoma[ns].uid = 0 /\ uids = 0
    BY DEF Init, NoComa
  <2> QED BY <1>2, <2>1, NoMeteorFacts DEF UidsFresh
<1>5. DeletedSoFar /\ GoneMeansComasGone
  BY <1>2, NoMeteorFacts DEF DeletedSoFar, GoneMeansComasGone
<1> QED BY <1>1, <1>3, <1>4, <1>5 DEF IInv

\* The invariant is inductive.
LEMMA InvNext == IInv /\ [Next]_vars => IInv'
<1> SUFFICES ASSUME IInv, [Next]_vars PROVE IInv'
  OBVIOUS
<1>1. CASE Next
  <2>1. TypeOK
    BY DEF IInv
  <2>2. CASE Worker
    BY <2>1, <2>2, TypeWorker, InvWorker
  <2>3. CASE Manager
    BY <2>1, <2>3, TypeManager, InvManager
  <2>4. CASE Cluster
    BY <2>1, <2>4, TypeCluster, InvCluster
  <2> QED BY <1>1, <2>2, <2>3, <2>4 DEF Next
<1>2. CASE UNCHANGED vars
  <2>1. TypeOK'
    BY <1>2 DEF IInv, vars, apiVars, cacheVars, opVars, TypeOK
  <2> QED BY <1>2, <2>1, QuietCluster DEF vars, apiVars, cacheVars, opVars
<1> QED BY <1>1, <1>2

\* The finalizer's promise, for any number of namespaces, incarnations, edits,
\* faults, crashes and lost Comas: a Meteor that is gone left behind no Coma
\* its last status listed.
THEOREM FinalizerPromise == Spec => []GoneMeansComasGone
<1>1. IInv => GoneMeansComasGone
  BY DEF IInv
<1> QED BY <1>1, InvInit, InvNext, PTL DEF Spec

\* A step that changes the list of Comas of one incarnation only adds to it.
LEMMA StepKeepsComas == IInv /\ [Next]_vars => [KeepsComas]_vars
<1> SUFFICES ASSUME IInv, Next PROVE KeepsComas
  BY DEF KeepsComas
<1> USE IInvFacts DEF apiVars, cacheVars, opVars
<1>0. met' = met => KeepsComas
  BY DEF KeepsComas
<1>1. met'.st = met.st => KeepsComas
  BY DEF KeepsComas
<1>2. CASE NoShowerStatus
  <2>1. CASE UNCHANGED met
    BY <1>0, <2>1
  <2>2. CASE CanUpdate(w) /\ met' = WithStatus(met, w.st)
    <3>1. w.st.comas = met.st.comas
      BY <1>2, <2>2 DEF NoShowerStatus, CanUpdate, IInv, CopyCoherent, BeforeComas
    <3> QED BY <2>2, <3>1, WithStatusType DEF KeepsComas
  <2> QED BY <1>2, <2>1, <2>2 DEF NoShowerStatus
<1>3. CASE DeleteExpired
  BY <1>0, <1>1, <1>3, DeleteObjectType DEF DeleteExpired
<1>4. CASE AddFinalizer
  BY <1>0, <1>1, <1>4 DEF AddFinalizer, MeteorType
<1>5. CASE RemoveFinalizer
  BY <1>0, <1>1, <1>5 DEF RemoveFinalizer, MeteorType
<1>6. CASE UpdateStatusNow
  <2>1. CASE UNCHANGED met
    BY <1>0, <2>1
  <2>2. CASE CanUpdate(w) /\ met' = WithStatus(met, w.st)
    <3>1. Refs(met.st.comas) \subseteq Refs(w.st.comas)
      BY <1>6, <2>2 DEF UpdateStatusNow, CanUpdate, IInv, CopyCoherent, AfterFinalizer
    <3> QED BY <2>2, <3>1, WithStatusType DEF KeepsComas
  <2> QED BY <1>6, <2>1, <2>2 DEF UpdateStatusNow
<1>7. CASE UserCreate
  <2>1. met'.uid = met.uid + 1
    BY <1>7 DEF UserCreate, NoMeteor
  <2>2. met.uid \in Nat
    BY DEF MeteorType
  <2> QED BY <2>1, <2>2 DEF KeepsComas
<1>8. CASE UserDelete \/ CollectMeteor \/ ReleaseMeteor
  BY <1>1, <1>8, DeleteObjectType DEF UserDelete, CollectMeteor, ReleaseMeteor, MeteorType
<1>9. CASE UserEdit
  BY <1>1, <1>9 DEF UserEdit, MeteorType
<1>10. CASE ReconcileNothing \/ Reconcile \/ BeginFinalize \/ NothingToFinalize
            \/ DeleteComa \/ Panic \/ NextService \/ CreateComa \/ GetComaFails \/ AdoptComa
            \/ CreatePipelineRun \/ GetPipelineRunFails \/ ReportPipelineRun
            \/ PipelinesDone
  BY <1>0, <1>10 DEF ReconcileNothing, Reconcile, findOwnerShower, BeginFinalize,
        NothingToFinalize, DeleteComa, Panic, NextService, CreateComa, GetComaFails, AdoptComa, CreatePipelineRun,
        GetPipelineRunFails, ReportPipelineRun, PipelinesDone
<1>11. CASE Manager
  BY <1>0, <1>11 DEF Manager, SyncMeteor, SyncShower, OtherMeteor, Crash, Restart, SyncPipelineRun,
                     SyncComa
<1>12. CASE \/ Tick \/ \E n \in ShowerNames : ChangeShower(n)
            \/ \E ns \in Namespaces : LoseComa(ns)
            \/ \E p \in PipelineNames :
                  CollectPipelineRun(p) \/ TektonStep(p) \/ PrunePipelineRun(p)
  BY <1>0, <1>12 DEF ChangeShower, Tick, LoseComa, CollectPipelineRun, TektonStep,
                     PrunePipelineRun
<1> QED BY <1>2, <1>3, <1>4, <1>5, <1>6, <1>7, <1>8, <1>9, <1>10, <1>11, <1>12
        DEF Next, Worker, Cluster

\* No status write of the operator, from however old a copy, loses a Coma that
\* the status of the same incarnation listed.
THEOREM ComasStay == Spec => RecordedComasStay
<1> QED BY InvInit, InvNext, StepKeepsComas, PTL DEF Spec, RecordedComasStay
=============================================================================
