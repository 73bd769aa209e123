--------------------------- MODULE MetricsProofs ----------------------------
(***************************************************************************)
(* A proof about MeteorMetrics, for every value of the constants: in the   *)
(* first life of a Meteor's name the gauge shows one phase at most.        *)
(***************************************************************************)
EXTENDS MeteorMetrics, MeteorOutcomes, FiniteSetTheorems

-----------------------------------------------------------------------------
(* The inductive invariant *)

Phase(m) == AggregatePhase(m.st.conds)

\* A phase that m stores or that its conditions give.
Explains(m, x) == m.live => x \in {m.st.phase, Phase(m)}

\* What the gauge shows, or will show before this reconcile is over.
Due == gauge \cup (IF pc \in Reconciling THEN {w.st.phase} ELSE {})

\* The status that the Meteor has now is the cached one, or the refreshed phase
\* of the cached one was stored meanwhile.
Follows ==
    cmet.live /\ met.live =>
        \/ met.st.phase = Phase(cmet)
        \/ met.st.phase = cmet.st.phase /\ Phase(met) = Phase(cmet)

\* A copy that can still be written shows what the conditions give, in the
\* cache as on the API server.
Refreshed ==
    /\ pc \in Reconciling /\ w.rv = met.rv =>
          /\ cmet.live => w.st.phase = Phase(cmet)
          /\ met.live  => w.st.phase = Phase(met)
    /\ pc = "noshower" => w.st.phase = Phase(w)

GaugeInv ==
    FirstOwner =>
        /\ \A x, y \in Due : x = y
        /\ met.uid = 0 => gauge = {}
        /\ \A x \in Due : Explains(cmet, x) /\ Explains(met, x)
        /\ Follows /\ Refreshed

-----------------------------------------------------------------------------
(* Lemmas *)

\* The refresh makes the phase the one of the conditions.
LEMMA ObservedPhase ==
    ASSUME NEW m \in MeteorType
    PROVE  Observed(m).st.phase = Phase(m) /\ Observed(m).st.conds = m.st.conds
<1> DEFINE ph == AggregatePhase(m.st.conds)
           ex == IF m.ttl # 0 THEN GetExpirationTimestamp(m) ELSE m.st.exp
<1>1. Observed(m) = [m EXCEPT !.st = [m.st EXCEPT !.phase = ph, !.exp = ex]]
  BY DEF Observed
<1>2. m.st \in StatusType /\ ph = Phase(m)
  BY DEF MeteorType, Phase
<1> HIDE DEF ph, ex
<1> QED BY <1>1, <1>2 DEF MeteorType, StatusType

\* Reporting a run leaves the phase of the copy alone.
LEMMA ReportedPhase ==
    ASSUME NEW st \in StatusType, NEW p \in PipelineNames,
           NEW run \in RunStates \ {"absent"}
    PROVE  Reported(st, p, run).phase = st.phase
<1> DEFINE conded == IF run = "new" THEN st ELSE SetCondition(st, RunCondition(p, run))
<1>1. run # "new" => RunCondition(p, run) \in Cond
  BY ConditionType DEF RunCondition, RunStates, ConditionStatuses, Reasons
<1>2. conded \in StatusType
  BY <1>1, SetConditionType
<1>3. conded.phase = st.phase
  BY DEF SetCondition, StatusType
<1>4. \/ Reported(st, p, run) = [conded EXCEPT !.running = @ \ {p}, !.ready[p] = "True",
                                             !.succeeded = @ \cup {p}]
      \/ Reported(st, p, run) = [conded EXCEPT !.running = @ \ {p}, !.failed = @ \cup {p}]
      \/ Reported(st, p, run) = [conded EXCEPT !.running = @ \cup {p}]
  BY DEF Reported, RunStates
<1> HIDE DEF conded
<1>5. /\ [conded EXCEPT !.running = @ \ {p}, !.ready[p] = "True",
                       !.succeeded = @ \cup {p}].phase = st.phase
      /\ [conded EXCEPT !.running = @ \ {p}, !.failed = @ \cup {p}].phase = st.phase
      /\ [conded EXCEPT !.running = @ \cup {p}].phase = st.phase
  BY <1>2, <1>3 DEF StatusType
<1> QED BY <1>4, <1>5

\* The gauge shows nothing but what is due.
LEMMA DueFacts ==
    /\ gauge \subseteq Due
    /\ pc \in Reconciling => w.st.phase \in Due
BY DEF Due

\* The gauge moves when a reconcile begins and when its first status write is
\* over; a process that ends leaves nothing of it.
LEMMA MeasureKeeps ==
    ASSUME Measure, pc # "idle" \/ pc' \notin {"noshower", "ttl"},
           pc # "noshower" \/ pc' # "ttl"
    PROVE  gauge' \subseteq gauge
BY DEF Measure

\* The status stays what it is, and the copy goes on or is dropped.
LEMMA GaugeStays ==
    ASSUME GaugeInv, UidsOrdered, gauge' \subseteq Due, UNCHANGED cmet,
           met'.uid = met.uid, met'.live => met.live, met'.st = met.st,
           pc' \in Reconciling =>
               /\ pc \in Reconciling /\ w'.st.phase = w.st.phase
               /\ w'.rv = met'.rv => w.rv = met.rv,
           pc' = "noshower" => pc = "noshower" /\ w' = w,
           met.uid \in Nat, w.uid \in Nat
    PROVE  GaugeInv'
<1> SUFFICES ASSUME FirstOwner' PROVE GaugeInv'
  BY DEF GaugeInv
<1>1. FirstOwner
  BY DEF FirstOwner
<1>2. Due' \subseteq Due
  BY DueFacts DEF Due
<1>3. \A x, y \in Due' : x = y
  BY <1>1, <1>2 DEF GaugeInv
<1>4. met'.uid = 0 => gauge' = {}
  <2>1. met.uid = 0 => pc \notin Reconciling
    BY DEF UidsOrdered
  <2> QED BY <1>1, <2>1 DEF GaugeInv, Due
<1>5. \A x \in Due' : Explains(cmet, x)' /\ Explains(met, x)'
  BY <1>1, <1>2 DEF GaugeInv, Explains, Phase
<1>6. Follows' /\ Refreshed'
  BY <1>1 DEF GaugeInv, Follows, Refreshed, Phase
<1> QED BY <1>3, <1>4, <1>5, <1>6 DEF GaugeInv

\* The status of the copy is stored.
LEMMA GaugeWritten ==
    ASSUME GaugeInv, UidsOrdered, gauge' \subseteq Due, UNCHANGED cmet,
           pc \in Reconciling, w.rv = met.rv, met.live, met.uid \in Nat, w.uid \in Nat,
           met'.uid = met.uid, met'.st = w.st,
           pc' \in Reconciling => w'.st.phase = w.st.phase /\ w.st.phase = Phase(w),
           pc' # "noshower"
    PROVE  GaugeInv'
<1> SUFFICES ASSUME FirstOwner' PROVE GaugeInv'
  BY DEF GaugeInv
<1>1. FirstOwner
  BY DEF FirstOwner
<1>2. Due' \subseteq Due
  BY DueFacts DEF Due
<1>3. \A x, y \in Due' : x = y
  BY <1>1, <1>2 DEF GaugeInv
<1>4. met'.uid # 0
  BY DEF UidsOrdered
<1>5. \A x \in Due' : x = w.st.phase
  BY <1>1, <1>2, DueFacts DEF GaugeInv
<1>6. \A x \in Due' : Explains(cmet, x)' /\ Explains(met, x)'
  BY <1>1, <1>2, <1>5 DEF GaugeInv, Explains, Phase
<1>7. Follows' /\ Refreshed'
  BY <1>1 DEF GaugeInv, Follows, Refreshed, Phase
<1> QED BY <1>3, <1>4, <1>6, <1>7 DEF GaugeInv

\* The cache takes the Meteor over.
LEMMA GaugeSynced ==
    ASSUME GaugeInv, gauge' \subseteq gauge, cmet' = met, UNCHANGED met,
           UNCHANGED <<pc, w>> \/ pc' = "idle"
    PROVE  GaugeInv'
<1> SUFFICES ASSUME FirstOwner' PROVE GaugeInv'
  BY DEF GaugeInv
<1>1. FirstOwner
  BY DEF FirstOwner
<1>2. "idle" \notin Reconciling
  BY DEF Reconciling, BeforeComas, AfterFinalizer
<1>3. Due' \subseteq Due
  BY <1>2 DEF Due
<1>4. \A x, y \in Due' : x = y
  BY <1>1, <1>3 DEF GaugeInv
<1>5. \A x \in Due' : Explains(cmet, x)' /\ Explains(met, x)'
  BY <1>1, <1>3 DEF GaugeInv, Explains, Phase
<1>6. Follows' /\ Refreshed'
  BY <1>1, <1>2 DEF GaugeInv, Follows, Refreshed, Phase
<1>7. met'.uid = 0 => gauge' = {}
  BY <1>1 DEF GaugeInv
<1> QED BY <1>4, <1>5, <1>6, <1>7 DEF GaugeInv

-----------------------------------------------------------------------------
(* The steps *)

LEMMA GaugeWorker == IInv /\ UidsOrdered /\ GaugeInv /\ Worker /\ Measure => GaugeInv'
<1> SUFFICES ASSUME IInv, UidsOrdered, GaugeInv, Worker, Measure PROVE GaugeInv'
  OBVIOUS
<1> USE DEF apiVars, cacheVars, Goto
<1>a. /\ w \in MeteorType /\ cmet \in MeteorType /\ met \in MeteorType
      /\ w.st \in StatusType /\ cmet.st \in StatusType
      /\ met.uid \in Nat /\ w.uid \in Nat /\ met.rv \in Nat /\ w.rv \in Nat /\ w.rv <= met.rv
  BY DEF IInv, TypeOK, MeteorType, CopyCoherent
<1>b. \A l \in {"idle", "down", "panicked"} : l \notin Reconciling /\ l # "noshower"
  BY DEF Reconciling, BeforeComas, AfterFinalizer
<1>c. gauge \subseteq Due /\ (pc \in Reconciling => w.st.phase \in Due)
  BY DueFacts
<1>1. CASE ReconcileNothing
  <2>1. pc' = "idle" /\ UNCHANGED <<met, cmet, w>>
    BY <1>1 DEF ReconcileNothing
  <2>2. gauge' \subseteq gauge
    BY <2>1, MeasureKeeps
  <2> QED BY <1>a, <1>b, <1>c, <2>1, <2>2, GaugeStays
<1>2. CASE Reconcile
  <2>1. /\ cmet.live /\ pc = "idle" /\ UNCHANGED <<met, cmet>>
        /\ \/ pc' = "ttl" /\ w' = Controlled(Observed(cmet), rshower')
           \/ pc' = "noshower" /\ w' = Observed(cmet)
    BY <1>2 DEF Reconcile
  <2>2. w'.st = Observed(cmet).st /\ w'.rv = cmet.rv
    BY <1>a, <2>1, ObservedType, ControlledUid
  <2>3. w'.st.phase = Phase(cmet) /\ Phase(w)' = Phase(cmet)
    BY <1>a, <2>2, ObservedPhase DEF Phase
  <2>4. gauge' \subseteq (gauge \ {cmet.st.phase}) \cup {Phase(cmet)}
    BY <2>1, <2>3 DEF Measure, MetricsBefore, MetricsAfter
  <2> SUFFICES ASSUME FirstOwner' PROVE GaugeInv'
    BY DEF GaugeInv
  <2>5. FirstOwner
    BY <2>1 DEF FirstOwner
  <2>6. \A x \in Due' : x = Phase(cmet)
    <3>1. \A x \in gauge : x \in {cmet.st.phase, Phase(cmet)}
      BY <1>c, <2>1, <2>5 DEF GaugeInv, Explains
    <3> QED BY <2>3, <2>4, <3>1 DEF Due
  <2>7. \A x \in Due' : Explains(cmet, x)' /\ Explains(met, x)'
    BY <2>1, <2>5, <2>6 DEF GaugeInv, Follows, Explains, Phase
  <2>8. Follows'
    BY <2>1, <2>5 DEF GaugeInv, Follows, Phase
  <2>9. Refreshed'
    BY <2>1, <2>2, <2>3 DEF Refreshed, IInv, CacheCoherent, Phase
  <2>10. met'.uid # 0
    BY <1>a, <2>1 DEF UidsOrdered, IInv, TypeOK, MeteorType
  <2> QED BY <2>6, <2>7, <2>8, <2>9, <2>10 DEF GaugeInv
<1>3. CASE NoShowerStatus
  <2>1. pc = "noshower" /\ pc' = "ttl" /\ UNCHANGED cmet /\ pc \in Reconciling
    BY <1>3 DEF NoShowerStatus, Reconciling, BeforeComas
  <2>2. w'.st = w.st
    BY <1>3, <1>a DEF NoShowerStatus, MeteorType
  <2>3. gauge' = gauge \cup {w.st.phase}
    BY <2>1, <2>2 DEF Measure, MetricsAfter
  <2>4. gauge' \subseteq Due
    BY <1>c, <2>1, <2>3
  <2>5. CASE CanUpdate(w) /\ met' = WithStatus(met, w.st)
    <3>1. met'.uid = met.uid /\ met'.st = w.st
      BY <1>a, <2>5, WithStatusType
    <3>2. FirstOwner => w.st.phase = Phase(w)
      BY <2>1 DEF GaugeInv, Refreshed
    <3>3. CASE FirstOwner
      BY <1>a, <2>1, <2>2, <2>4, <2>5, <3>1, <3>2, <3>3, GaugeWritten DEF CanUpdate
    <3>4. CASE ~FirstOwner
      BY <3>1, <3>4 DEF GaugeInv, FirstOwner
    <3> QED BY <3>3, <3>4
  <2>6. CASE UNCHANGED <<met, w>>
    BY <1>a, <2>1, <2>4, <2>6, GaugeStays
  <2> QED BY <1>3, <2>5, <2>6 DEF NoShowerStatus
<1>4. CASE DeleteExpired
  <2>1. pc = "ttl" /\ pc' = "idle" /\ UNCHANGED cmet
    BY <1>4 DEF DeleteExpired, Return
  <2>2. met'.uid = met.uid /\ (met'.live => met.live) /\ met'.st = met.st
    BY <1>4, <1>a, DeleteObjectType DEF DeleteExpired
  <2>3. gauge' \subseteq gauge
    BY <2>1, MeasureKeeps
  <2> QED BY <1>a, <1>b, <1>c, <2>1, <2>2, <2>3, GaugeStays
<1>5. CASE AddFinalizer
  <2>1. pc = "ttl" /\ pc' # "noshower" /\ UNCHANGED cmet /\ pc' # "ttl" /\ pc \in Reconciling
    BY <1>5 DEF AddFinalizer, Return, Reconciling, BeforeComas
  <2>2. met'.uid = met.uid /\ met'.live = met.live /\ met'.st = met.st
    BY <1>5, <1>a DEF AddFinalizer, MeteorType
  <2>3. \/ pc' = "idle"
        \/ w' = w /\ met' = met
        \/ w.rv = met.rv /\ w' = [w EXCEPT !.fin = TRUE, !.rv = met'.rv, !.st = Answered(w.st)]
    BY <1>5 DEF AddFinalizer, Return, CanUpdate
  <2>4. pc' \in Reconciling => w'.st.phase = w.st.phase /\ (w'.rv = met'.rv => w.rv = met.rv)
    <3>1. Answered(w.st).phase = w.st.phase
      BY <1>a DEF Answered, StatusType
    <3> QED BY <1>a, <1>b, <2>3, <3>1 DEF MeteorType
  <2>5. gauge' \subseteq gauge
    BY <2>1, MeasureKeeps
  <2> QED BY <1>a, <1>c, <2>1, <2>2, <2>4, <2>5, GaugeStays
<1>6. CASE BeginFinalize \/ NothingToFinalize \/ Panic \/ NextService \/ PipelinesDone
           \/ DeleteComa \/ CreateComa \/ GetComaFails
  <2>1. /\ UNCHANGED <<met, cmet>> /\ pc \in Reconciling /\ pc # "noshower"
        /\ pc' \notin {"noshower", "ttl"}
    BY <1>6 DEF BeginFinalize, NothingToFinalize, Panic, NextService, PipelinesDone, DeleteComa,
                CreateComa, GetComaFails, AtService, Return, Reconciling, BeforeComas, AfterFinalizer
  <2>2. w' = w \/ pc' \in {"idle", "panicked"}
    BY <1>6 DEF BeginFinalize, NothingToFinalize, Panic, NextService, PipelinesDone, DeleteComa,
                CreateComa, GetComaFails, Return
  <2>3. gauge' \subseteq gauge
    BY <2>1, MeasureKeeps
  <2> QED BY <1>a, <1>b, <1>c, <2>1, <2>2, <2>3, GaugeStays
<1>7. CASE RemoveFinalizer
  <2>1. pc = "finalize" /\ pc' = "idle" /\ UNCHANGED cmet
    BY <1>7 DEF RemoveFinalizer, Return
  <2>2. met'.uid = met.uid /\ (met'.live => met.live) /\ met'.st = met.st
    BY <1>7, <1>a DEF RemoveFinalizer, CanUpdate, MeteorType
  <2>3. gauge' \subseteq gauge
    BY <2>1, MeasureKeeps
  <2> QED BY <1>a, <1>b, <1>c, <2>1, <2>2, <2>3, GaugeStays
<1>8. CASE AdoptComa \/ CreatePipelineRun \/ GetPipelineRunFails \/ ReportPipelineRun
  <2>1. /\ UNCHANGED <<met, cmet>> /\ pc \in {"coma", "pipe"}
        /\ pc' \notin {"noshower", "ttl"}
    BY <1>8 DEF AdoptComa, CreatePipelineRun, GetPipelineRunFails, ReportPipelineRun,
                AtService, AtPipeline
  <2>2. w'.st.phase = w.st.phase /\ w'.rv = w.rv
    <3>1. CASE AdoptComa
      BY <1>a, <3>1 DEF AdoptComa, MeteorType, StatusType
    <3>2. CASE CreatePipelineRun \/ GetPipelineRunFails
      <4>1. Pipeline \in PipelineNames
        BY <3>2, PipelineType DEF IInv, CreatePipelineRun, GetPipelineRunFails
      <4>2. Entered(w.st) \in StatusType
        BY <1>a, <4>1, EnteredType
      <4>3. Entered(w.st).phase = w.st.phase
        BY <1>a DEF Entered, StatusType
      <4>4. \A c : SetCondition(Entered(w.st), c).phase = w.st.phase
        BY <4>2, <4>3 DEF SetCondition, StatusType
      <4>5. \E st : w' = [w EXCEPT !.st = st] /\ st.phase = w.st.phase
        BY <3>2, <4>3, <4>4 DEF CreatePipelineRun, GetPipelineRunFails
      <4> QED BY <1>a, <4>5 DEF MeteorType
    <3>3. CASE ReportPipelineRun
      <4>1. Pipeline \in PipelineNames
        BY <3>3, PipelineType DEF IInv, ReportPipelineRun
      <4>2. Entered(w.st) \in StatusType
        BY <1>a, <4>1, EnteredType
      <4>3. Entered(w.st).phase = w.st.phase
        BY <1>a DEF Entered, StatusType
      <4>4. cpr[Pipeline].st \in RunStates \ {"absent"}
        BY <3>3, <4>1 DEF ReportPipelineRun, IInv, TypeOK, RunType
      <4>5. Reported(Entered(w.st), Pipeline, cpr[Pipeline].st).phase = w.st.phase
        BY <4>1, <4>2, <4>3, <4>4, ReportedPhase
      <4>6. \E st : w' = [w EXCEPT !.st = st] /\ st.phase = w.st.phase
        BY <3>3, <4>5 DEF ReportPipelineRun
      <4> QED BY <1>a, <4>6 DEF MeteorType
    <3> QED BY <1>8, <3>1, <3>2, <3>3
  <2>3. gauge' \subseteq gauge /\ pc \in Reconciling
    BY <2>1, MeasureKeeps DEF Reconciling, AfterFinalizer
  <2> QED BY <1>a, <1>c, <2>1, <2>2, <2>3, GaugeStays
<1>9. CASE UpdateStatusNow
  <2>1. pc = "status" /\ pc' = "idle" /\ UNCHANGED cmet /\ pc \in Reconciling
    BY <1>9 DEF UpdateStatusNow, Return, Reconciling, AfterFinalizer
  <2>2. gauge' \subseteq gauge
    BY <2>1, MeasureKeeps
  <2>3. CASE CanUpdate(w) /\ met' = WithStatus(met, w.st)
    <3>1. met'.uid = met.uid /\ met'.st = w.st
      BY <1>a, <2>3, WithStatusType
    <3> QED BY <1>a, <1>b, <1>c, <2>1, <2>2, <2>3, <3>1, GaugeWritten DEF CanUpdate
  <2>4. CASE met' = met
    BY <1>a, <1>b, <1>c, <2>1, <2>2, <2>4, GaugeStays
  <2> QED BY <1>9, <2>3, <2>4 DEF UpdateStatusNow
<1> QED BY <1>1, <1>2, <1>3, <1>4, <1>5, <1>6, <1>7, <1>8, <1>9 DEF Worker

LEMMA GaugeManager == IInv /\ UidsOrdered /\ GaugeInv /\ Manager /\ Measure => GaugeInv'
<1> SUFFICES ASSUME IInv, UidsOrdered, GaugeInv, Manager, Measure PROVE GaugeInv'
  OBVIOUS
<1> USE DEF apiVars, cacheVars, opVars, Goto
<1>a. met.uid \in Nat /\ w.uid \in Nat
  BY DEF IInv, TypeOK, MeteorType
<1>b. \A l \in {"idle", "down"} : l \notin Reconciling /\ l # "noshower"
  BY DEF Reconciling, BeforeComas, AfterFinalizer
<1>1. CASE SyncMeteor \/ Restart
  <2>1. cmet' = met /\ UNCHANGED met /\ (UNCHANGED <<pc, w>> \/ pc' = "idle")
    BY <1>1 DEF SyncMeteor, Restart
  <2>2. gauge' \subseteq gauge
    BY <2>1, MeasureKeeps
  <2> QED BY <2>1, <2>2, GaugeSynced
<1>2. CASE ~(SyncMeteor \/ Restart)
  <2>1. UNCHANGED <<met, cmet, w, pc>> \/ (pc' = "down" /\ UNCHANGED <<met, cmet>>)
    BY <1>2 DEF Manager, OtherMeteor, Crash, SyncShower, SyncPipelineRun, SyncComa
  <2>2. gauge' \subseteq gauge
    BY <2>1, MeasureKeeps
  <2> QED BY <1>a, <1>b, <2>1, <2>2, DueFacts, GaugeStays
<1> QED BY <1>1, <1>2

LEMMA GaugeCluster == IInv /\ UidsOrdered /\ GaugeInv /\ Cluster /\ Measure => GaugeInv'
<1> SUFFICES ASSUME IInv, UidsOrdered, GaugeInv, Cluster, Measure PROVE GaugeInv'
  OBVIOUS
<1> USE DEF apiVars, cacheVars, opVars
<1>a. /\ met \in MeteorType /\ met.uid \in Nat /\ w.uid \in Nat /\ cmet.uid \in Nat
      /\ met.rv \in Nat /\ w.rv \in Nat /\ w.rv <= met.rv
  BY DEF IInv, TypeOK, MeteorType, CopyCoherent
<1>b. UNCHANGED <<cmet, pc, w>>
  BY DEF Cluster, UserCreate, UserDelete, UserEdit, CollectMeteor, ReleaseMeteor, Tick,
         ChangeShower, LoseComa, CollectPipelineRun, TektonStep, PrunePipelineRun
<1>c. gauge' \subseteq gauge
  BY <1>b, MeasureKeeps
<1>1. CASE UserCreate
  <2> SUFFICES ASSUME FirstOwner' PROVE GaugeInv'
    BY DEF GaugeInv
  <2>1. /\ ~met.live /\ met'.uid = met.uid + 1 /\ met'.st = EmptyStatus
        /\ met'.rv = met.rv + 1
    BY <1>1 DEF UserCreate, NoMeteor
  <2>2. met.uid = 0 /\ FirstOwner
    BY <1>a, <2>1 DEF FirstOwner
  <2>3. ~cmet.live /\ pc \notin Reconciling
    BY <1>a, <2>2 DEF UidsOrdered
  <2>4. Due' = {}
    BY <1>b, <1>c, <2>2, <2>3 DEF GaugeInv, Due
  <2>5. pc # "noshower"
    BY <2>3 DEF Reconciling, BeforeComas
  <2> QED BY <1>a, <1>b, <2>1, <2>2, <2>3, <2>4, <2>5
       DEF GaugeInv, Follows, Refreshed, Due
<1>2. CASE ~UserCreate
  <2>1. met'.uid = met.uid /\ (met'.live => met.live) /\ met'.st = met.st
        /\ (w.rv = met'.rv => w.rv = met.rv)
    <3>1. CASE UserDelete \/ CollectMeteor \/ ReleaseMeteor
      <4>1. \/ met' = DeleteObject(met)
            \/ met' = [met EXCEPT !.del = TRUE, !.held = TRUE, !.rv = @ + 1]
            \/ met' = [met EXCEPT !.held = FALSE, !.live = met.fin, !.rv = @ + 1]
        BY <3>1 DEF UserDelete, CollectMeteor, ReleaseMeteor
      <4>2. /\ met'.uid = met.uid /\ met'.st = met.st
            /\ met' = met \/ met'.rv = met.rv + 1
        BY <1>a, <4>1, DeleteObjectType DEF MeteorType
      <4>3. met.live
        BY <3>1 DEF UserDelete, CollectMeteor, ReleaseMeteor
      <4> QED BY <1>a, <4>2, <4>3
    <3>2. CASE UserEdit
      BY <1>a, <3>2 DEF UserEdit, MeteorType
    <3>3. CASE UNCHANGED met
      BY <3>3
    <3> QED BY <1>2, <3>1, <3>2, <3>3
         DEF Cluster, Tick, ChangeShower, LoseComa, CollectPipelineRun, TektonStep,
             PrunePipelineRun
  <2> QED BY <1>a, <1>b, <1>c, <2>1, DueFacts, GaugeStays
<1> QED BY <1>1, <1>2

LEMMA GaugeNext ==
    IInv /\ OutcomesInv /\ GaugeInv /\ [MetricsNext]_<<vars, gauge>> => GaugeInv'
<1> SUFFICES ASSUME IInv, OutcomesInv, GaugeInv, [MetricsNext]_<<vars, gauge>>
             PROVE  GaugeInv'
  OBVIOUS
<1>1. UidsOrdered
  BY DEF OutcomesInv
<1>2. CASE UNCHANGED <<vars, gauge>>
  BY <1>2 DEF vars, apiVars, cacheVars, opVars, GaugeInv, FirstOwner, Due, Explains,
              Phase, Follows, Refreshed
<1> QED BY <1>1, <1>2, GaugeWorker, GaugeManager, GaugeCluster DEF MetricsNext, Next

LEMMA GaugeInit == MetricsInit => GaugeInv
<1> SUFFICES ASSUME MetricsInit PROVE GaugeInv
  OBVIOUS
<1>1. met = NoMeteor /\ cmet = NoMeteor /\ w = NoMeteor /\ pc = "idle" /\ gauge = {}
  BY DEF MetricsInit, Init
<1>2. "idle" \notin Reconciling /\ ~NoMeteor.live
  BY DEF Reconciling, BeforeComas, AfterFinalizer, NoMeteor
<1> QED BY <1>1, <1>2 DEF GaugeInv, Due, Follows, Refreshed

-----------------------------------------------------------------------------
(* The theorem *)

\* One phase at most is at 1 until the name of the Meteor is used again, for all
\* pipelines, faults, crashes and edits: over stale caches and refused status
\* writes, what a reconcile takes off the gauge is what the last one put on it
\* (MetricsBeforeReconcile, MetricsAfterReconcile).  A Meteor that is gone
\* leaves its phase behind, so a second one of its name adds another.
THEOREM GaugeShowsOne == MetricsSpec => [](FirstOwner => OnePhase)
<1>1. GaugeInv => (FirstOwner => OnePhase)
  <2> SUFFICES ASSUME \A x, y \in gauge : x = y PROVE Cardinality(gauge) <= 1
    BY DueFacts DEF GaugeInv, OnePhase
  <2>1. CASE gauge = {}
    BY <2>1, FS_EmptySet
  <2>2. ASSUME NEW x \in gauge PROVE Cardinality(gauge) <= 1
    <3>1. gauge = {x}
      BY <2>2
    <3> QED BY <3>1, FS_Singleton
  <2> QED BY <2>1, <2>2
<1>2. MetricsInit => IInv /\ HeldMarked /\ OutcomesInv
  BY InvInit, LifeInit, OutcomesInit DEF MetricsInit
<1>3. IInv => TypeOK
  BY DEF IInv
<1>4. [MetricsNext]_<<vars, gauge>> => [Next]_vars
  BY DEF MetricsNext
<1> QED BY <1>1, <1>2, <1>3, <1>4, InvNext, HeldNext, OutcomesNext, GaugeInit, GaugeNext, PTL
     DEF MetricsSpec
=============================================================================
