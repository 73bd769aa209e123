-------------------------- MODULE MeteorRefinement --------------------------
(***************************************************************************)
(* The proof that Meteor implements Lifecycle, for all constants: first    *)
(* that the worker's copy says truly whether the Meteor is being deleted,  *)
(* then that every step of Meteor is one of Lifecycle or leaves it alone.  *)
(***************************************************************************)
EXTENDS MeteorProofs

-----------------------------------------------------------------------------
(* The worker's copy and the deletion mark *)

\* The worker stands still while the Meteor may change: its copy stays true,
\* or falls behind.
LEMMA MarkedBystander ==
    ASSUME IInv, CopyMarked, Versioned, UNCHANGED <<pc, w>>
    PROVE  CopyMarked'
BY IInvFacts DEF CopyMarked, Versioned, BeforeComas, AfterFinalizer

\* Nothing is asked of a worker that is not reconciling.
LEMMA MarkedAtRest ==
    ASSUME pc' \in {"idle", "down", "panicked"}
    PROVE  CopyMarked'
BY DEF CopyMarked, BeforeComas, AfterFinalizer

\* The worker goes on past the finalizer without touching the Meteor.
LEMMA MarkedLate ==
    ASSUME CopyMarked, UNCHANGED met, pc \in AfterFinalizer, pc' \in AfterFinalizer,
           w'.rv = w.rv, w'.del = w.del
    PROVE  CopyMarked'
BY DEF CopyMarked, BeforeComas, AfterFinalizer

\* Replacing the status of the copy keeps its version and mark.
LEMMA CopyKept ==
    ASSUME IInv, NEW st, w' = [w EXCEPT !.st = st]
    PROVE  w'.rv = w.rv /\ w'.del = w.del
BY IInvFacts DEF MeteorType

\* A DELETE marks a live Meteor, or removes one without finalizer.
LEMMA DeleteMarks ==
    ASSUME NEW m \in MeteorType, m.live
    PROVE  /\ DeleteObject(m) = m \/ DeleteObject(m).rv = m.rv + 1
           /\ DeleteObject(m).st = m.st /\ DeleteObject(m).uid = m.uid
           /\ m.del => DeleteObject(m) = m
           /\ ~m.del /\ m.fin => DeleteObject(m).live /\ DeleteObject(m).del
           /\ ~m.del /\ ~m.fin => ~DeleteObject(m).live
BY DEF DeleteObject, MeteorType

\* No step of Reconcile brings copy and mark apart.
LEMMA MarkedWorker == IInv /\ CopyMarked /\ Worker => CopyMarked'
<1> SUFFICES ASSUME IInv, CopyMarked, Worker PROVE CopyMarked'
  OBVIOUS
<1> USE DEF apiVars, cacheVars, Goto
<1>1. CASE ReconcileNothing
  BY <1>1, MarkedBystander DEF ReconcileNothing, Versioned
<1>2. CASE Reconcile
  <2>1. /\ met' = met /\ pc' \in {"ttl", "noshower"}
        /\ w' = Observed(cmet) \/ w' = Controlled(Observed(cmet), rshower')
    BY <1>2 DEF Reconcile
  <2>2. rshower' \in ShowerType
    <3>1. TypeOK'
      BY TypeWorker DEF IInv
    <3> QED BY <3>1 DEF TypeOK
  <2>3. w'.rv = cmet.rv /\ w'.del = cmet.del
    BY <2>1, <2>2, IInvFacts, ObservedType, ControlledType
  <2>4. cmet.rv = met.rv => cmet.del = met.del
    BY DEF IInv, CacheCoherent
  <2> QED BY <2>1, <2>3, <2>4 DEF CopyMarked, BeforeComas, AfterFinalizer
<1>3. CASE NoShowerStatus
  <2>1. pc = "noshower" /\ pc' = "ttl"
    BY <1>3 DEF NoShowerStatus
  <2>2. CASE UNCHANGED <<met, w>>
    BY <2>1, <2>2 DEF CopyMarked, BeforeComas, AfterFinalizer
  <2>3. CASE /\ CanUpdate(w) /\ met' = WithStatus(met, w.st)
             /\ w' = [w EXCEPT !.rv = met'.rv]
    <3>1. w.del = met.del
      BY <2>1, <2>3 DEF CanUpdate, CopyMarked, BeforeComas
    <3>2. met'.del = met.del
      BY <2>3, IInvFacts, WithStatusType
    <3>3. w'.del = w.del
      BY <2>3, IInvFacts DEF MeteorType
    <3> QED BY <2>1, <3>1, <3>2, <3>3 DEF CopyMarked, BeforeComas, AfterFinalizer
  <2> QED BY <1>3, <2>2, <2>3 DEF NoShowerStatus
<1>4. CASE DeleteExpired \/ NothingToFinalize \/ RemoveFinalizer \/ UpdateStatusNow \/ Panic
  BY <1>4, MarkedAtRest
     DEF DeleteExpired, NothingToFinalize, RemoveFinalizer, UpdateStatusNow, Panic, Return
<1>5. CASE AddFinalizer
  <2>1. pc = "ttl" /\ ~w.del
    BY <1>5 DEF AddFinalizer
  <2>2. CASE Return(TRUE)
    BY <2>2, MarkedAtRest DEF Return
  <2>3. CASE pc' = "coma" /\ UNCHANGED <<met, w>>
    BY <2>1, <2>3 DEF CopyMarked, BeforeComas, AfterFinalizer
  <2>4. CASE /\ CanUpdate(w) /\ pc' = "coma"
             /\ met' = [met EXCEPT !.fin = TRUE, !.owned = w.owned, !.rv = met.rv + 1]
             /\ w' = [w EXCEPT !.fin = TRUE, !.rv = met'.rv, !.st = Answered(w.st)]
    <3>1. w.del = met.del
      BY <2>1, <2>4 DEF CanUpdate, CopyMarked, BeforeComas
    <3>2. met'.del = met.del /\ w'.del = w.del
      BY <2>4, IInvFacts DEF MeteorType
    <3> QED BY <2>1, <2>4, <3>1, <3>2 DEF CopyMarked, BeforeComas, AfterFinalizer
  <2> QED BY <1>5, <2>2, <2>3, <2>4 DEF AddFinalizer
<1>6. CASE BeginFinalize
  BY <1>6 DEF BeginFinalize, CopyMarked, BeforeComas, AfterFinalizer
<1>7. CASE DeleteComa
  <2>1. CASE Return(TRUE)
    BY <2>1, MarkedAtRest DEF Return
  <2>2. CASE pc' = "finalize" /\ UNCHANGED <<met, w>>
    BY <1>7, <2>2 DEF DeleteComa, CopyMarked, BeforeComas, AfterFinalizer
  <2> QED BY <1>7, <2>1, <2>2 DEF DeleteComa
<1>8. CASE NextService \/ CreateComa \/ GetComaFails \/ PipelinesDone
  <2>1. /\ UNCHANGED <<met, w>> /\ pc \in AfterFinalizer /\ pc' \in AfterFinalizer
    BY <1>8 DEF NextService, CreateComa, GetComaFails, PipelinesDone, AtService,
                AfterFinalizer
  <2> QED BY <2>1, MarkedLate
<1>9. CASE AdoptComa \/ CreatePipelineRun \/ GetPipelineRunFails \/ ReportPipelineRun
  <2>1. /\ UNCHANGED met /\ pc \in AfterFinalizer /\ pc' \in AfterFinalizer
    BY <1>9 DEF AdoptComa, CreatePipelineRun, GetPipelineRunFails, ReportPipelineRun,
                AtService, AtPipeline, AfterFinalizer
  <2>2. \E st : w' = [w EXCEPT !.st = st]
    BY <1>9 DEF AdoptComa, CreatePipelineRun, GetPipelineRunFails, ReportPipelineRun
  <2> QED BY <2>1, <2>2, CopyKept, MarkedLate
<1> QED BY <1>1, <1>2, <1>3, <1>4, <1>5, <1>6, <1>7, <1>8, <1>9 DEF Worker

\* Nor does any other step.
LEMMA MarkedNext == IInv /\ CopyMarked /\ [Next]_vars => CopyMarked'
<1> SUFFICES ASSUME IInv, CopyMarked, [Next]_vars PROVE CopyMarked'
  OBVIOUS
<1> USE DEF apiVars, cacheVars, opVars, Goto
<1>1. CASE Worker
  BY <1>1, MarkedWorker
<1>2. CASE Crash \/ Restart
  BY <1>2, MarkedAtRest DEF Crash, Restart
<1>3. CASE \/ SyncMeteor \/ OtherMeteor \/ Tick
           \/ \E n \in ShowerNames : SyncShower(n) \/ ChangeShower(n)
           \/ \E p \in PipelineNames : \/ SyncPipelineRun(p) \/ CollectPipelineRun(p)
                                       \/ TektonStep(p) \/ PrunePipelineRun(p)
           \/ \E ns \in Namespaces : SyncComa(ns) \/ LoseComa(ns)
           \/ UNCHANGED vars
  <2>1. UNCHANGED <<met, pc, w>>
    BY <1>3 DEF SyncMeteor, OtherMeteor, Tick, SyncShower, ChangeShower, SyncPipelineRun,
                CollectPipelineRun, TektonStep, PrunePipelineRun, SyncComa, LoseComa, vars
  <2> QED BY <2>1, MarkedBystander DEF Versioned
<1>4. CASE UserCreate \/ UserDelete \/ UserEdit \/ CollectMeteor \/ ReleaseMeteor
  <2>1. UNCHANGED <<pc, w>>
    BY <1>4 DEF UserCreate, UserDelete, UserEdit, CollectMeteor, ReleaseMeteor
  <2>2. Versioned
    BY <1>4, IInvFacts, DeleteMarks
       DEF UserCreate, UserDelete, UserEdit, CollectMeteor, ReleaseMeteor, Versioned,
           MeteorType, NoMeteor
  <2> QED BY <2>1, <2>2, MarkedBystander
<1> QED BY <1>1, <1>2, <1>3, <1>4 DEF Next, Manager, Cluster

\* A step that changes what HeldMarked speaks of keeps it.
LEMMA HeldNext == IInv /\ HeldMarked /\ [Next]_vars => HeldMarked'
<1> SUFFICES ASSUME IInv, HeldMarked, [Next]_vars PROVE HeldMarked'
  OBVIOUS
<1> USE IInvFacts DEF apiVars, cacheVars, opVars
<1>0. UNCHANGED <<met.held, met.del>> => HeldMarked'
  BY DEF HeldMarked
<1>1. CASE NoShowerStatus \/ UpdateStatusNow
  <2>1. UNCHANGED met \/ met' = WithStatus(met, w.st)
    BY <1>1 DEF NoShowerStatus, UpdateStatusNow
  <2>2. WithStatus(met, w.st).held = met.held /\ WithStatus(met, w.st).del = met.del
    BY WithStatusType
  <2> QED BY <1>0, <2>1, <2>2
<1>2. CASE DeleteExpired \/ CollectMeteor
  <2>1. UNCHANGED met \/ met' = DeleteObject(met)
    BY <1>2 DEF DeleteExpired, CollectMeteor
  <2>2. DeleteObject(met).held = met.held /\ (met.del => DeleteObject(met).del)
    BY DEF DeleteObject, MeteorType
  <2> QED BY <2>1, <2>2 DEF HeldMarked
<1>3. CASE AddFinalizer \/ RemoveFinalizer \/ UserEdit
  BY <1>0, <1>3 DEF AddFinalizer, RemoveFinalizer, UserEdit, MeteorType
<1>4. CASE UserDelete
  <2>1. CASE met' = DeleteObject(met)
    <3>1. DeleteObject(met).held = met.held /\ (met.del => DeleteObject(met).del)
      BY DEF DeleteObject, MeteorType
    <3> QED BY <2>1, <3>1 DEF HeldMarked
  <2>2. CASE met' = [met EXCEPT !.del = TRUE, !.held = TRUE, !.rv = met.rv + 1]
    BY <2>2 DEF HeldMarked, MeteorType
  <2> QED BY <1>4, <2>1, <2>2 DEF UserDelete
<1>5. CASE UserCreate \/ ReleaseMeteor
  <2>1. ~met'.held
    BY <1>5 DEF UserCreate, ReleaseMeteor, NoMeteor, MeteorType
  <2> QED BY <2>1 DEF HeldMarked
<1>6. CASE UNCHANGED met
  BY <1>0, <1>6
<1>7. CASE Worker
  BY <1>1, <1>2, <1>3, <1>6, <1>7
     DEF Worker, ReconcileNothing, Reconcile, BeginFinalize, NothingToFinalize,
         DeleteComa, Panic, NextService, CreateComa, GetComaFails, AdoptComa,
         CreatePipelineRun, GetPipelineRunFails, ReportPipelineRun, PipelinesDone
<1>8. CASE Manager \/ UNCHANGED vars
  BY <1>6, <1>8 DEF Manager, SyncMeteor, OtherMeteor, Crash, Restart, SyncShower,
                    SyncPipelineRun, SyncComa, vars
<1>9. CASE Cluster
  BY <1>2, <1>3, <1>4, <1>5, <1>6, <1>9
     DEF Cluster, Tick, ChangeShower, LoseComa, CollectPipelineRun, TektonStep,
         PrunePipelineRun
<1> QED BY <1>7, <1>8, <1>9 DEF Next
-----------------------------------------------------------------------------
(* Steps of Meteor as steps of Lifecycle *)

LVars == <<Stage, met.uid, Refs(met.st.comas), Alive>>

\* What Lifecycle's steps say of Meteor's variables.
LStep ==
    \/ /\ Stage = "absent" /\ Stage' = "live" /\ met'.uid = met.uid + 1
       /\ Refs(met'.st.comas) = {} /\ Alive' = Alive
    \/ /\ met'.uid = met.uid /\ Stage = "live" /\ Alive' = Alive /\ Stage' = Stage
       /\ Refs(met.st.comas) \subseteq Refs(met'.st.comas)
    \/ /\ met'.uid = met.uid /\ Alive' = Alive
       /\ Refs(met'.st.comas) = Refs(met.st.comas)
       /\ \/ Stage = "live" /\ Stage' = "terminating"
          \/ Stage = "live" /\ Stage' = "absent" /\ Refs(met.st.comas) = {}
          \/ /\ Stage = "terminating" /\ Stage' = "absent"
             /\ Refs(met.st.comas) \cap Alive = {}
    \/ /\ met'.uid = met.uid /\ Stage' = Stage
       /\ Refs(met'.st.comas) = Refs(met.st.comas)
       /\ \/ Alive \subseteq Alive' /\ (Alive' \ Alive) \cap Refs(met.st.comas) = {}
          \/ Alive' \subseteq Alive
    \/ UNCHANGED LVars

\* They are Lifecycle's steps.
LEMMA LifeStep == LStep => [Life!Next]_(Life!vars)
BY DEF LStep, LVars, Life!Next, Life!vars, Life!Create, Life!Record, Life!Mark,
       Life!Drop, Life!Remove, Life!Born, Life!Die

\* Neither the Meteor nor a Coma's identity changes.
LEMMA LifeQuiet ==
    ASSUME UNCHANGED <<met, coma>> PROVE LStep
BY DEF LStep, LVars, Stage, Alive

\* Comas go, or get an owner.
LEMMA LifeDie ==
    ASSUME UNCHANGED met,
           \A n \in Namespaces : coma'[n].uid = coma[n].uid \/ coma'[n].uid = 0
    PROVE  LStep
<1>1. Alive' \subseteq Alive
  BY DEF Alive
<1> QED BY <1>1 DEF LStep, Stage

\* A live Meteor is deleted.
LEMMA LifeDelete ==
    ASSUME IInv, HeldMarked, met.live, met' = DeleteObject(met), UNCHANGED coma
    PROVE  LStep
<1>1. Alive' = Alive
  BY DEF Alive
<1>2. met'.st = met.st /\ met'.uid = met.uid
  BY IInvFacts, DeleteMarks
<1>3. CASE met.del
  BY <1>3, IInvFacts, DeleteMarks, LifeQuiet
<1>4. CASE ~met.del /\ met.fin
  <2>1. Stage = "live" /\ Stage' = "terminating"
    BY <1>4, IInvFacts, DeleteMarks DEF Stage
  <2> QED BY <1>1, <1>2, <2>1 DEF LStep
<1>5. CASE ~met.del /\ ~met.fin
  <2>1. Stage = "live" /\ Stage' = "absent"
    BY <1>5, IInvFacts, DeleteMarks DEF Stage
  <2>2. Refs(met.st.comas) = {}
    BY <1>5, NoMeteorFacts DEF IInv, ComasNeedFinalizer, HeldMarked
  <2> QED BY <1>1, <1>2, <2>1, <2>2 DEF LStep
<1> QED BY <1>3, <1>4, <1>5

\* The Meteor changes in what Lifecycle does not see.
LEMMA LifeUnseen ==
    ASSUME UNCHANGED coma, met'.live = met.live, met'.del = met.del,
           met'.uid = met.uid, met'.st.comas = met.st.comas
    PROVE  LStep
<1>1. Alive' = Alive /\ Stage' = Stage
  BY DEF Alive, Stage
<1> QED BY <1>1 DEF LStep, LVars

\* Every step of Reconcile is a step of Lifecycle or none.
LEMMA LifeWorker == IInv /\ CopyMarked /\ HeldMarked /\ Worker => LStep
<1> SUFFICES ASSUME IInv, CopyMarked, HeldMarked, Worker PROVE LStep
  OBVIOUS
<1> USE DEF apiVars, cacheVars, Goto
<1>1. CASE NoShowerStatus
  <2>1. CASE UNCHANGED met
    BY <1>1, <2>1, LifeQuiet DEF NoShowerStatus
  <2>2. CASE CanUpdate(w) /\ met' = WithStatus(met, w.st)
    <3>1. w.st.comas = met.st.comas
      BY <1>1, <2>2 DEF NoShowerStatus, CanUpdate, IInv, CopyCoherent, BeforeComas
    <3> QED BY <1>1, <2>2, <3>1, IInvFacts, WithStatusType, LifeUnseen DEF NoShowerStatus
  <2> QED BY <1>1, <2>1, <2>2 DEF NoShowerStatus
<1>2. CASE DeleteExpired
  BY <1>2, LifeQuiet, LifeDelete DEF DeleteExpired
<1>3. CASE AddFinalizer
  <2>1. CASE UNCHANGED met
    BY <1>3, <2>1, LifeQuiet DEF AddFinalizer
  <2>2. CASE met' = [met EXCEPT !.fin = TRUE, !.owned = w.owned, !.rv = met.rv + 1]
    <3>1. /\ met'.live = met.live /\ met'.del = met.del /\ met'.uid = met.uid
          /\ met'.st = met.st
      BY <2>2, IInvFacts DEF MeteorType
    <3> QED BY <1>3, <3>1, LifeUnseen DEF AddFinalizer
  <2> QED BY <1>3, <2>1, <2>2 DEF AddFinalizer
<1>4. CASE DeleteComa
  <2>1. CASE UNCHANGED coma
    BY <1>4, <2>1, LifeQuiet DEF DeleteComa
  <2>2. CASE coma' = [coma EXCEPT ![w.st.comas[idx].ns] = NoComa]
    <3>1. coma \in [Namespaces -> ComaType]
      BY DEF IInv, TypeOK
    <3>2. \A n \in Namespaces : coma'[n].uid = coma[n].uid \/ coma'[n].uid = 0
      BY <2>2, <3>1 DEF NoComa, ComaType
    <3> QED BY <1>4, <3>2, LifeDie DEF DeleteComa
  <2> QED BY <1>4, <2>1, <2>2 DEF DeleteComa
<1>5. CASE RemoveFinalizer
  <2>1. CASE UNCHANGED met
    BY <1>5, <2>1, LifeQuiet DEF RemoveFinalizer
  <2>2. CASE /\ CanUpdate(w)
             /\ met' = [met EXCEPT !.fin = FALSE, !.live = met.held, !.rv = met.rv + 1]
    <3>1. pc = "finalize" /\ idx > Len(w.st.comas)
      BY <1>5 DEF RemoveFinalizer
    <3>2. w.st.comas = met.st.comas /\ met.live /\ met.del
      BY <2>2, <3>1 DEF CanUpdate, IInv, CopyCoherent, CopyMarked, BeforeComas
    <3>3. \A ref \in Refs(met.st.comas) : ~ComaExists(ref)
      <4>1. \A i \in DOMAIN w.st.comas : i < idx
        <5>1. idx \in Nat /\ w.st.comas \in Seq(ComaRef)
          BY IInvFacts DEF IInv, TypeOK
        <5> QED BY <3>1, <5>1
      <4> QED BY <3>1, <3>2, <4>1 DEF IInv, DeletedSoFar, Refs
    <3>4. Refs(met.st.comas) \cap Alive = {}
      BY <3>3 DEF Alive, ComaExists
    <3>5. /\ met'.st = met.st /\ met'.uid = met.uid /\ met'.del = met.del
          /\ met'.live = met.held
      BY <2>2, IInvFacts DEF MeteorType
    <3>6. /\ Alive' = Alive /\ Stage = "terminating"
          /\ Stage' = IF met.held THEN "terminating" ELSE "absent"
      BY <1>5, <3>2, <3>5 DEF RemoveFinalizer, Alive, Stage
    <3> QED BY <3>4, <3>5, <3>6 DEF LStep, LVars
  <2> QED BY <1>5, <2>1, <2>2 DEF RemoveFinalizer
<1>6. CASE CreateComa
  <2>1. CASE UNCHANGED coma
    BY <1>6, <2>1, LifeQuiet DEF CreateComa
  <2>2. CASE /\ coma[Service].uid = 0
             /\ coma' = [coma EXCEPT ![Service] = [uid |-> uids + 1, owner |-> 0]]
    <3>1. Service \in Namespaces /\ coma \in [Namespaces -> ComaType]
      BY <1>6, ServiceType DEF CreateComa, IInv, TypeOK
    <3>2. /\ \A n \in Namespaces \ {Service} : coma'[n].uid = coma[n].uid
          /\ coma'[Service].uid = uids + 1
      BY <2>2, <3>1
    <3>3. Alive \subseteq Alive'
      BY <2>2, <3>1, <3>2 DEF Alive
    <3>4. \A ref \in Alive' \ Alive : ref.uid = uids + 1
      BY <3>1, <3>2 DEF Alive
    <3>5. (Alive' \ Alive) \cap Refs(met.st.comas) = {}
      BY <3>4, IInvFacts
    <3>6. UNCHANGED met
      BY <1>6 DEF CreateComa
    <3> QED BY <3>3, <3>5, <3>6 DEF LStep, Stage
  <2> QED BY <1>6, <2>1, <2>2 DEF CreateComa
<1>7. CASE AdoptComa
  <2>1. Service \in Namespaces /\ UNCHANGED met
    BY <1>7, ServiceType DEF AdoptComa, IInv
  <2>2. coma' = [coma EXCEPT ![Service].owner = w.uid] \/ UNCHANGED coma
    BY <1>7 DEF AdoptComa
  <2> QED BY <2>1, <2>2, ComaGoes, LifeDie, LifeQuiet
<1>8. CASE UpdateStatusNow
  <2>1. CASE UNCHANGED met
    BY <1>8, <2>1, LifeQuiet DEF UpdateStatusNow
  <2>2. CASE CanUpdate(w) /\ met' = WithStatus(met, w.st)
    <3>1. pc \in AfterFinalizer
      BY <1>8 DEF UpdateStatusNow, AfterFinalizer
    <3>2. /\ Refs(met.st.comas) \subseteq Refs(w.st.comas)
          /\ met.live /\ ~met.del
      BY <2>2, <3>1 DEF CanUpdate, IInv, CopyCoherent, CopyMarked
    <3>3. /\ met'.st = w.st /\ met'.uid = met.uid /\ met'.live = met.live
          /\ met'.del = met.del
      BY <2>2, IInvFacts, WithStatusType
    <3>4. Stage = "live" /\ Stage' = Stage /\ Alive' = Alive
      BY <1>8, <3>2, <3>3 DEF UpdateStatusNow, Stage, Alive
    <3> QED BY <3>2, <3>3, <3>4 DEF LStep
  <2> QED BY <1>8, <2>1, <2>2 DEF UpdateStatusNow
<1>9. CASE ReconcileNothing \/ Reconcile \/ BeginFinalize \/ NothingToFinalize \/ Panic
            \/ NextService \/ GetComaFails \/ CreatePipelineRun \/ GetPipelineRunFails
            \/ ReportPipelineRun \/ PipelinesDone
  BY <1>9, LifeQuiet DEF ReconcileNothing, Reconcile, BeginFinalize, NothingToFinalize,
        Panic, NextService, GetComaFails, CreatePipelineRun, GetPipelineRunFails, ReportPipelineRun, PipelinesDone
<1> QED BY <1>1, <1>2, <1>3, <1>4, <1>5, <1>6, <1>7, <1>8, <1>9 DEF Worker

\* So is every step at all.
LEMMA LifeNext == IInv /\ CopyMarked /\ HeldMarked /\ [Next]_vars => LStep
<1> SUFFICES ASSUME IInv, CopyMarked, HeldMarked, [Next]_vars PROVE LStep
  OBVIOUS
<1> USE DEF apiVars, cacheVars, opVars
<1>1. CASE Worker
  BY <1>1, LifeWorker
<1>2. CASE \/ Manager \/ Tick \/ UNCHANGED vars
           \/ \E n \in ShowerNames : ChangeShower(n)
           \/ \E p \in PipelineNames :
                 CollectPipelineRun(p) \/ TektonStep(p) \/ PrunePipelineRun(p)
  BY <1>2, LifeQuiet
     DEF Manager, SyncMeteor, OtherMeteor, Crash, Restart, SyncShower, SyncPipelineRun,
         SyncComa, Tick, ChangeShower, CollectPipelineRun, TektonStep, PrunePipelineRun, vars
<1>3. ASSUME NEW ns \in Namespaces, LoseComa(ns) PROVE LStep
  BY <1>3, ComaGoes, LifeDie DEF LoseComa
<1>4. CASE UserDelete \/ CollectMeteor
  <2>1. CASE met.live /\ met' = DeleteObject(met) /\ UNCHANGED coma
    BY <2>1, LifeDelete
  <2>2. CASE /\ met.live /\ ~met.del /\ UNCHANGED coma
             /\ met' = [met EXCEPT !.del = TRUE, !.held = TRUE, !.rv = met.rv + 1]
    <3>1. met'.live /\ met'.del /\ met'.uid = met.uid /\ met'.st = met.st
      BY <2>2, IInvFacts DEF MeteorType
    <3>2. Stage = "live" /\ Stage' = "terminating" /\ Alive' = Alive
      BY <2>2, <3>1 DEF Stage, Alive
    <3> QED BY <3>1, <3>2 DEF LStep
  <2> QED BY <1>4, <2>1, <2>2 DEF UserDelete, CollectMeteor
<1>7. CASE ReleaseMeteor
  <2>1. /\ met.live /\ met.del /\ met.held /\ UNCHANGED coma
        /\ met'.live = met.fin /\ met'.del = met.del /\ met'.uid = met.uid
        /\ met'.st = met.st
    BY <1>7, IInvFacts DEF ReleaseMeteor, MeteorType
  <2>2. CASE met.fin
    BY <2>1, <2>2, LifeUnseen
  <2>3. CASE ~met.fin
    <3>1. Refs(met.st.comas) \cap Alive = {}
      BY <2>1, <2>3 DEF IInv, GoneMeansComasGone, ComaExists, Alive
    <3>2. Stage = "terminating" /\ Stage' = "absent" /\ Alive' = Alive
      BY <2>1, <2>3 DEF Stage, Alive
    <3> QED BY <2>1, <3>1, <3>2 DEF LStep
  <2> QED BY <2>2, <2>3
<1>5. CASE UserEdit
  <2>1. /\ met'.live = met.live /\ met'.del = met.del /\ met'.uid = met.uid
        /\ met'.st = met.st
    BY <1>5, IInvFacts DEF UserEdit, MeteorType
  <2> QED BY <1>5, <2>1, LifeUnseen DEF UserEdit
<1>6. CASE UserCreate
  <2>1. /\ met'.live /\ ~met'.del /\ met'.uid = met.uid + 1
        /\ met'.st.comas = <<>> /\ ~met.live /\ UNCHANGED coma
    <3>1. ~met.live /\ UNCHANGED coma
      BY <1>6 DEF UserCreate
    <3>2. PICK t \in TTLs, l \in Selectors :
            met' = [NoMeteor EXCEPT !.live = TRUE, !.uid = met.uid + 1,
                                    !.rv = met.rv + 1, !.created = clock, !.ttl = t,
                                    !.sel = l]
      BY <1>6 DEF UserCreate
    <3>3. met'.live /\ ~met'.del /\ met'.uid = met.uid + 1 /\ met'.st = NoMeteor.st
      BY <3>2 DEF NoMeteor
    <3>4. NoMeteor.st.comas = <<>>
      BY DEF NoMeteor, EmptyStatus
    <3> QED BY <3>1, <3>3, <3>4
  <2>2. Stage = "absent" /\ Stage' = "live" /\ Alive' = Alive
    BY <2>1 DEF Stage, Alive
  <2> QED BY <2>1, <2>2, NoMeteorFacts DEF LStep
<1> QED BY <1>1, <1>2, <1>3, <1>4, <1>5, <1>6, <1>7 DEF Next, Cluster

\* The initial states of Meteor are initial states of Lifecycle.
LEMMA LifeInit == Init => CopyMarked /\ HeldMarked /\ Life!Init
<1> SUFFICES ASSUME Init PROVE CopyMarked /\ HeldMarked /\ Life!Init
  OBVIOUS
<1>1. CopyMarked /\ HeldMarked
  BY DEF Init, CopyMarked, HeldMarked, BeforeComas, AfterFinalizer, NoMeteor
<1>2. ~met.live /\ met.uid = 0 /\ Refs(met.st.comas) = {}
  BY NoMeteorFacts DEF Init, NoMeteor
<1>3. Alive = {}
  BY DEF Init, Alive, NoComa
<1> QED BY <1>1, <1>2, <1>3 DEF Life!Init, Stage

\* Meteor implements Lifecycle, for all pipelines, namespaces, Showers, TTLs
\* and bounds: a Meteor is marked before it goes (unless it never listed a
\* Coma), lists none once it is marked, and goes after the ones it listed.
THEOREM MeteorImplementsLifecycle == Spec => ImplementsLifecycle
<1>1. IInv /\ CopyMarked /\ HeldMarked /\ [Next]_vars => [Life!Next]_(Life!vars)
  BY LifeNext, LifeStep
<1> QED BY <1>1, InvInit, InvNext, MarkedNext, HeldNext, LifeInit, PTL
        DEF Spec, ImplementsLifecycle, Life!Spec
=============================================================================
