--------------------------- MODULE MeteorOutcomes ---------------------------
(***************************************************************************)
(* A proof about Meteor, for every value of the constants: until a run is  *)
(* pruned or the Meteor's name is used again, its status says of each      *)
(* build what became of that build, as long as the Meteor is not deleted.  *)
(***************************************************************************)
EXTENDS MeteorRefinement

-----------------------------------------------------------------------------
(* The inductive invariant *)

\* What takes a run away from a Meteor that stays: a pruner, and the garbage
\* collector while the runs there are those of a predecessor of the same name.
Unpruned   == left["prunes"] = Limits["prunes"]
FirstOwner == met.uid <= 1

Stays == met.live /\ ~met.del

\* No Meteor is created, and no deletion taken back.
NoneComes == (met'.live => met.live) /\ (Stays' => Stays)

FirstLife == Unpruned /\ FirstOwner /\ (Stays \/ met.uid = 0)

\* A status, whoever holds it, is in no advance of the operator's cache.
Agrees(st) ==
    \A p \in PipelineNames :
        /\ st.ready[p] = "True" => p \in st.succeeded
        /\ p \in st.succeeded => cpr[p].st = "succeeded" /\ p \notin st.running
        /\ p \in st.failed => cpr[p].st \in {"completed", "failed"} /\ p \notin st.running

\* A run that ended stays, and is the Meteor's.
RunsStay ==
    \A p \in PipelineNames :
        /\ cpr[p].st \in Finished => pr[p].st = cpr[p].st
        /\ pr[p].st # "absent" => met.live /\ pr[p].owner = met.uid

Reconciling == BeforeComas \cup AfterFinalizer

\* The copies are of this incarnation or of an earlier one.
UidsOrdered ==
    /\ cmet.uid <= met.uid /\ w.uid <= met.uid
    /\ met.live => met.uid # 0
    /\ cmet.live => cmet.uid # 0
    /\ pc \in Reconciling => w.uid # 0
    /\ left["prunes"] <= Limits["prunes"]

OutcomesInv ==
    /\ UidsOrdered
    /\ FirstLife => Agrees(met.st) /\ Agrees(cmet.st) /\ Agrees(w.st) /\ RunsStay

-----------------------------------------------------------------------------
(* Lemmas *)

\* A status that claims no more than another one.
Claims(a, b) ==
    /\ a.succeeded = b.succeeded /\ a.failed = b.failed /\ a.running = b.running
    /\ \A p \in PipelineNames : a.ready[p] = "True" => b.ready[p] = "True"

\* An empty status claims nothing.
LEMMA EmptyAgrees == Agrees(EmptyStatus) /\ NoMeteor.st = EmptyStatus /\ NoMeteor.uid = 0
BY DEF Agrees, EmptyStatus, NoMeteor

\* Entering a pipeline, or setting a condition, claims nothing.
LEMMA EnteredClaims ==
    ASSUME NEW st \in StatusType, Pipeline \in PipelineNames
    PROVE  Claims(Entered(st), st)
BY DEF Entered, Claims, StatusType

LEMMA ConditionClaims ==
    ASSUME NEW st \in StatusType, NEW c
    PROVE  Claims(SetCondition(st, c), st)
BY DEF SetCondition, Claims, StatusType

LEMMA ClaimsTransitive ==
    ASSUME NEW a, NEW b, NEW c, Claims(a, b), Claims(b, c)
    PROVE  Claims(a, c)
BY DEF Claims

\* Refreshing the copy changes neither stages nor Ready.
LEMMA ObservedClaims ==
    ASSUME NEW m \in MeteorType
    PROVE  Claims(Observed(m).st, m.st) /\ Observed(m).uid = m.uid
<1> DEFINE ph == AggregatePhase(m.st.conds)
           ex == IF m.ttl # 0 THEN GetExpirationTimestamp(m) ELSE m.st.exp
<1>1. Observed(m) = [m EXCEPT !.st = [m.st EXCEPT !.phase = ph, !.exp = ex]]
  BY DEF Observed
<1>2. m.st \in StatusType
  BY DEF MeteorType
<1> HIDE DEF ph, ex
<1> QED BY <1>1, <1>2 DEF Claims, MeteorType, StatusType

\* The controller reference changes neither status nor uid nor version.
LEMMA ControlledUid ==
    ASSUME NEW m \in MeteorType, NEW s
    PROVE  /\ Controlled(m, s).st = m.st /\ Controlled(m, s).uid = m.uid
           /\ Controlled(m, s).rv = m.rv
BY DEF Controlled, MeteorType

\* A disturbance of another kind prunes nothing.
LEMMA SpendKeeps ==
    ASSUME left \in [Kinds -> Nat], NEW k \in Kinds \ {"prunes", "any"}, Spend(k)
    PROVE  left'["prunes"] = left["prunes"]
BY DEF Spend, Kinds

LEMMA FaultKeeps ==
    ASSUME left \in [Kinds -> Nat], NEW reason, NoFault \/ Fault \/ FailsIf(reason)
    PROVE  left'["prunes"] = left["prunes"]
<1>1. "faults" \in Kinds \ {"prunes", "any"}
  BY DEF Kinds
<1> QED BY <1>1, SpendKeeps DEF FailsIf, NoFault, Fault

\* A deletion leaves no Meteor that stays.
LEMMA DeleteObjectStays ==
    ASSUME NEW m \in MeteorType, m.live
    PROVE  ~(DeleteObject(m).live /\ ~DeleteObject(m).del)
<1>1. CASE m.del
  BY <1>1 DEF DeleteObject
<1>2. CASE ~m.del
  <2>1. DeleteObject(m).live = m.fin /\ DeleteObject(m).del = m.fin
    BY <1>2 DEF DeleteObject, MeteorType
  <2> QED BY <2>1
<1> QED BY <1>1, <1>2

\* The runs and what the operator knows of them stay, and every status is one
\* that somebody held before, or claims no more.
LEMMA Bystander ==
    ASSUME TypeOK, OutcomesInv, UNCHANGED <<pr, cpr>>,
           left'["prunes"] = left["prunes"],
           met'.uid = met.uid, NoneComes, met'.st \in {met.st, w.st},
           cmet' \in {cmet, met},
           \E st \in {w.st, cmet.st, EmptyStatus} : Claims(w'.st, st),
           w'.uid \in {w.uid, cmet.uid, 0},
           pc' \in Reconciling =>
               (\/ pc \in Reconciling /\ w'.uid = w.uid
                \/ cmet.live /\ w'.uid = cmet.uid)
    PROVE  OutcomesInv'
<1>0. met.uid \in Nat /\ cmet.uid \in Nat /\ w.uid \in Nat
  BY DEF TypeOK, MeteorType
<1>1. UidsOrdered'
  BY <1>0 DEF NoneComes, OutcomesInv, UidsOrdered
<1>2. ASSUME FirstLife'
      PROVE  /\ Agrees(met.st)' /\ Agrees(cmet.st)' /\ Agrees(w.st)'
             /\ RunsStay'
  <2>1. FirstLife
    BY <1>2 DEF NoneComes, FirstLife, Unpruned, FirstOwner
  <2>2. Agrees(met.st) /\ Agrees(cmet.st) /\ Agrees(w.st) /\ Agrees(EmptyStatus) /\ RunsStay
    BY <2>1, EmptyAgrees DEF OutcomesInv
  <2>3. ASSUME NEW a, NEW b, Claims(a, b), Agrees(b) PROVE Agrees(a)
    BY <2>3 DEF Claims, Agrees
  <2>4. Agrees(w'.st) /\ Agrees(met'.st) /\ Agrees(cmet'.st)
    BY <2>2, <2>3
  <2>5. Agrees(met.st)' /\ Agrees(cmet.st)' /\ Agrees(w.st)'
    BY <2>4 DEF Agrees
  <2>6. RunsStay'
    BY <1>2, <2>2 DEF RunsStay, FirstLife, Stays, OutcomesInv, UidsOrdered
  <2> QED BY <2>5, <2>6
<1> QED BY <1>1, <1>2 DEF OutcomesInv

\* The worker goes on with its copy, or stops.
LEMMA WorkerGoesOn ==
    ASSUME TypeOK, OutcomesInv, UNCHANGED <<pr, cpr, cmet>>,
           left'["prunes"] = left["prunes"],
           met'.uid = met.uid, NoneComes, met'.st \in {met.st, w.st},
           \/ pc \in Reconciling /\ w'.uid = w.uid /\ Claims(w'.st, w.st)
           \/ pc' \notin Reconciling /\ w' = NoMeteor
    PROVE  OutcomesInv'
<1>1. Claims(EmptyStatus, EmptyStatus)
  BY DEF Claims
<1> QED BY <1>1, Bystander, EmptyAgrees

-----------------------------------------------------------------------------
(* The steps *)

LEMMA OutcomesWorker == TypeOK /\ OutcomesInv /\ Worker => OutcomesInv'
<1> SUFFICES ASSUME TypeOK, OutcomesInv, Worker PROVE OutcomesInv'
  OBVIOUS
<1> USE DEF apiVars, cacheVars, Goto
<1>a. left \in [Kinds -> Nat] /\ w \in MeteorType /\ cmet \in MeteorType
      /\ met \in MeteorType /\ w.st \in StatusType
  BY DEF TypeOK, MeteorType
<1>b. \A st : Claims(st, st)
  BY DEF Claims
<1>c. \A l \in {"idle", "down", "panicked"} : l \notin Reconciling
  BY DEF Reconciling, BeforeComas, AfterFinalizer
<1>1. CASE ReconcileNothing
  <2>1. left'["prunes"] = left["prunes"]
    BY <1>1, <1>a, FaultKeeps DEF ReconcileNothing
  <2>2. pc' \notin Reconciling
    BY <1>1, <1>c DEF ReconcileNothing
  <2> QED BY <1>1, <1>b, <2>1, <2>2, Bystander DEF ReconcileNothing, NoneComes, Stays
<1>2. CASE Reconcile
  <2>1. left'["prunes"] = left["prunes"]
    BY <1>2, <1>a, FaultKeeps DEF Reconcile, findOwnerShower
  <2>2. /\ cmet.live
        /\ w' = Observed(cmet) \/ w' = Controlled(Observed(cmet), rshower')
    BY <1>2 DEF Reconcile
  <2>3. Claims(w'.st, cmet.st) /\ w'.uid = cmet.uid
    BY <1>a, <2>2, ObservedType, ObservedClaims, ControlledUid
  <2>4. UNCHANGED <<pr, cpr, met, cmet>>
    BY <1>2 DEF Reconcile
  <2> QED BY <2>1, <2>2, <2>3, <2>4, Bystander DEF NoneComes, Stays
<1>3. CASE NoShowerStatus
  <2>1. left'["prunes"] = left["prunes"]
    BY <1>3, <1>a, FaultKeeps DEF NoShowerStatus
  <2>2. met'.uid = met.uid /\ NoneComes /\ met'.st \in {met.st, w.st}
    BY <1>3, <1>a, WithStatusType DEF NoShowerStatus, NoneComes, Stays
  <2>3. w'.uid = w.uid /\ w'.st = w.st
    BY <1>3, <1>a DEF NoShowerStatus, MeteorType
  <2>4. UNCHANGED <<pr, cpr, cmet>> /\ pc \in Reconciling
    BY <1>3 DEF NoShowerStatus, Reconciling, BeforeComas
  <2> QED BY <1>b, <2>1, <2>2, <2>3, <2>4, WorkerGoesOn
<1>4. CASE DeleteExpired
  <2>1. left'["prunes"] = left["prunes"]
    BY <1>4, <1>a, FaultKeeps DEF DeleteExpired
  <2>2. met'.uid = met.uid /\ NoneComes /\ met'.st = met.st
    BY <1>4, <1>a, DeleteObjectType, DeleteObjectStays DEF DeleteExpired, NoneComes, Stays
  <2>3. pc' = "idle" /\ w' = NoMeteor /\ UNCHANGED <<pr, cpr, cmet>>
    BY <1>4 DEF DeleteExpired, Return
  <2> QED BY <1>c, <2>1, <2>2, <2>3, WorkerGoesOn
<1>5. CASE AddFinalizer
  <2>1. left'["prunes"] = left["prunes"]
    BY <1>5, <1>a, FaultKeeps DEF AddFinalizer, NoFault
  <2>2. met'.uid = met.uid /\ NoneComes /\ met'.st = met.st
    BY <1>5, <1>a DEF AddFinalizer, NoneComes, Stays, MeteorType
  <2>3. \/ pc' = "idle" /\ w' = NoMeteor
        \/ w'.uid = w.uid /\ Claims(w'.st, w.st)
    <3>1. Claims(Answered(w.st), w.st)
      BY <1>a DEF Answered, Claims, StatusType
    <3>2. CASE w' = [w EXCEPT !.fin = TRUE, !.rv = met'.rv, !.st = Answered(w.st)]
      BY <1>a, <3>1, <3>2 DEF MeteorType
    <3> QED BY <1>5, <1>b, <3>2 DEF AddFinalizer, Return
  <2>4. UNCHANGED <<pr, cpr, cmet>> /\ pc \in Reconciling
    BY <1>5 DEF AddFinalizer, Reconciling, BeforeComas
  <2> QED BY <1>c, <2>1, <2>2, <2>3, <2>4, WorkerGoesOn
<1>6. CASE BeginFinalize \/ NothingToFinalize \/ Panic \/ NextService \/ PipelinesDone
  <2>1. UNCHANGED <<left, pr, cpr, cmet, met>> /\ pc \in Reconciling
    BY <1>6 DEF BeginFinalize, NothingToFinalize, Panic, NextService, PipelinesDone, Reconciling, BeforeComas,
                AfterFinalizer
  <2>2. \/ w' = w
        \/ pc' \in {"idle", "panicked"} /\ w' = NoMeteor
    BY <1>6 DEF BeginFinalize, NothingToFinalize, Return, Panic, NextService, PipelinesDone
  <2> QED BY <1>b, <1>c, <2>1, <2>2, WorkerGoesOn DEF NoneComes, Stays
<1>7. CASE DeleteComa
  <2>1. left'["prunes"] = left["prunes"]
    BY <1>7, <1>a, FaultKeeps DEF DeleteComa
  <2>2. UNCHANGED <<pr, cpr, cmet, met>> /\ pc \in Reconciling
    BY <1>7 DEF DeleteComa, Reconciling, BeforeComas
  <2>3. w' = w \/ (pc' = "idle" /\ w' = NoMeteor)
    BY <1>7 DEF DeleteComa, Return
  <2> QED BY <1>b, <1>c, <2>1, <2>2, <2>3, WorkerGoesOn DEF NoneComes, Stays
<1>8. CASE RemoveFinalizer
  <2>1. left'["prunes"] = left["prunes"]
    BY <1>8, <1>a, FaultKeeps DEF RemoveFinalizer
  <2>2. met'.uid = met.uid /\ NoneComes /\ met'.st = met.st
    BY <1>8, <1>a DEF RemoveFinalizer, CanUpdate, NoneComes, Stays, MeteorType
  <2>3. pc' = "idle" /\ w' = NoMeteor /\ UNCHANGED <<pr, cpr, cmet>>
    BY <1>8 DEF RemoveFinalizer, Return
  <2> QED BY <1>c, <2>1, <2>2, <2>3, WorkerGoesOn
<1>9. CASE CreateComa \/ GetComaFails
  <2>1. left'["prunes"] = left["prunes"]
    BY <1>9, <1>a, FaultKeeps DEF CreateComa, GetComaFails
  <2>2. UNCHANGED <<pr, cpr, cmet, met, w>> /\ pc \in Reconciling
    BY <1>9 DEF CreateComa, GetComaFails, AtService, Reconciling, AfterFinalizer
  <2> QED BY <1>b, <2>1, <2>2, WorkerGoesOn DEF NoneComes, Stays
<1>10. CASE AdoptComa
  <2>1. left'["prunes"] = left["prunes"]
    BY <1>10, <1>a, FaultKeeps DEF AdoptComa
  <2>2. w'.uid = w.uid /\ Claims(w'.st, w.st)
    BY <1>10, <1>a DEF AdoptComa, Claims, MeteorType, StatusType
  <2>3. UNCHANGED <<pr, cpr, cmet, met>> /\ pc \in Reconciling
    BY <1>10 DEF AdoptComa, AtService, Reconciling, AfterFinalizer
  <2> QED BY <2>1, <2>2, <2>3, WorkerGoesOn DEF NoneComes, Stays
<1>11. CASE GetPipelineRunFails
  <2>1. left'["prunes"] = left["prunes"]
    BY <1>11, <1>a, FaultKeeps DEF GetPipelineRunFails
  <2>2. Pipeline \in PipelineNames
    BY <1>11, PipelineType DEF GetPipelineRunFails
  <2>3. w'.uid = w.uid /\ Claims(w'.st, w.st)
    <3>1. Entered(w.st) \in StatusType
      BY <1>a, <2>2, EnteredType
    <3>2. \A c : Claims(SetCondition(Entered(w.st), c), w.st)
      BY <1>a, <2>2, <3>1, EnteredClaims, ConditionClaims, ClaimsTransitive
    <3> QED BY <1>11, <1>a, <3>2 DEF GetPipelineRunFails, MeteorType
  <2>4. UNCHANGED <<pr, cpr, cmet, met>> /\ pc \in Reconciling
    BY <1>11 DEF GetPipelineRunFails, AtPipeline, Reconciling, AfterFinalizer
  <2> QED BY <2>1, <2>3, <2>4, WorkerGoesOn DEF NoneComes, Stays
<1>12. CASE UpdateStatusNow
  <2>1. left'["prunes"] = left["prunes"]
    BY <1>12, <1>a, FaultKeeps DEF UpdateStatusNow
  <2>2. met'.uid = met.uid /\ NoneComes /\ met'.st \in {met.st, w.st}
    BY <1>12, <1>a, WithStatusType DEF UpdateStatusNow, NoneComes, Stays
  <2>3. pc' = "idle" /\ w' = NoMeteor /\ UNCHANGED <<pr, cpr, cmet>>
    BY <1>12 DEF UpdateStatusNow, Return
  <2> QED BY <1>c, <2>1, <2>2, <2>3, WorkerGoesOn
<1>13. CASE CreatePipelineRun
  <2>1. left'["prunes"] = left["prunes"]
    BY <1>13, <1>a, FaultKeeps DEF CreatePipelineRun
  <2>2. Pipeline \in PipelineNames
    BY <1>13, PipelineType DEF CreatePipelineRun
  <2>3. w'.uid = w.uid /\ Claims(w'.st, w.st)
    <3>1. Entered(w.st) \in StatusType /\ Claims(Entered(w.st), w.st)
      BY <1>a, <2>2, EnteredType, EnteredClaims
    <3>2. \A c : Claims(SetCondition(Entered(w.st), c), w.st)
      BY <3>1, ConditionClaims, ClaimsTransitive
    <3>3. \E st : w' = [w EXCEPT !.st = st] /\ Claims(st, w.st)
      BY <1>13, <3>1, <3>2 DEF CreatePipelineRun
    <3> QED BY <1>a, <3>3 DEF MeteorType
  <2>4. UNCHANGED <<cpr, cmet, met>> /\ pc \in Reconciling
    BY <1>13 DEF CreatePipelineRun, AtPipeline, Reconciling, AfterFinalizer
  <2>5. CASE pr' = pr
    BY <2>1, <2>3, <2>4, <2>5, WorkerGoesOn DEF NoneComes, Stays
  <2>6. CASE /\ pr[Pipeline].st = "absent"
             /\ pr' = [pr EXCEPT ![Pipeline] = [st |-> "new", owner |-> w.uid,
                                                refs |-> Refs(w.st.comas)]]
    <3>1. UidsOrdered'
      BY <2>1, <2>3, <2>4 DEF OutcomesInv, UidsOrdered
    <3>2. ASSUME FirstLife'
          PROVE  /\ Agrees(met.st)' /\ Agrees(cmet.st)' /\ Agrees(w.st)'
                 /\ RunsStay'
      <4>1. FirstLife
        BY <2>1, <2>4, <3>2 DEF FirstLife, Stays, Unpruned, FirstOwner
      <4>2. Agrees(met.st) /\ Agrees(cmet.st) /\ Agrees(w.st) /\ RunsStay
        BY <4>1 DEF OutcomesInv
      <4>3. w.uid # 0 /\ w.uid <= met.uid /\ met.uid <= 1 /\ w.uid \in Nat /\ met.uid \in Nat
        BY <1>a, <2>4, <4>1 DEF OutcomesInv, UidsOrdered, FirstLife, Stays, FirstOwner, MeteorType
      <4>4. met.live /\ w.uid = met.uid
        BY <4>1, <4>3 DEF FirstLife, Stays
      <4>5. RunsStay'
        <5>1. cpr[Pipeline].st = "absent"
          BY <1>13 DEF CreatePipelineRun
        <5>2. ASSUME NEW p \in PipelineNames
              PROVE  /\ cpr[p].st \in Finished => pr'[p].st = cpr[p].st
                     /\ pr'[p].st # "absent" => met.live /\ pr'[p].owner = met.uid
          <6>1. CASE p = Pipeline
            BY <2>2, <2>6, <4>4, <5>1, <6>1 DEF TypeOK, Finished
          <6>2. CASE p # Pipeline
            BY <2>6, <4>2, <6>2 DEF RunsStay, TypeOK
          <6> QED BY <6>1, <6>2
        <5> QED BY <2>4, <5>2 DEF RunsStay
      <4>6. Agrees(met.st)' /\ Agrees(cmet.st)' /\ Agrees(w.st)'
        BY <2>3, <2>4, <4>2 DEF Agrees, Claims
      <4> QED BY <4>5, <4>6
    <3> QED BY <3>1, <3>2 DEF OutcomesInv
  <2> QED BY <1>13, <2>5, <2>6 DEF CreatePipelineRun
<1>14. CASE ReportPipelineRun
  <2> DEFINE run == cpr[Pipeline].st
             st  == Entered(w.st)
             conded == IF run = "new" THEN st ELSE SetCondition(st, RunCondition(Pipeline, run))
             new == Reported(st, Pipeline, run)
  <2>1. Pipeline \in PipelineNames
    BY <1>14, PipelineType DEF ReportPipelineRun
  <2>2. UNCHANGED <<pr, cpr, cmet, met, left>> /\ pc \in Reconciling
        /\ w' = [w EXCEPT !.st = new] /\ run # "absent"
    BY <1>14 DEF ReportPipelineRun, AtPipeline, Reconciling, AfterFinalizer
  <2>3. w'.uid = w.uid /\ w'.st = new
    BY <1>a, <2>2 DEF MeteorType
  <2>4. st \in StatusType /\ Claims(conded, w.st) /\ conded \in StatusType
    <3>1. st \in StatusType /\ Claims(st, w.st)
      BY <1>a, <2>1, EnteredType, EnteredClaims
    <3>2. \A c : Claims(SetCondition(st, c), w.st)
      BY <3>1, ConditionClaims, ClaimsTransitive
    <3>3. run \in RunStates
      BY <2>1 DEF TypeOK, RunType
    <3>4. run # "new" => RunCondition(Pipeline, run) \in Cond
      BY <2>1, <2>2, <3>3, ConditionType
         DEF RunCondition, RunStates, ConditionStatuses, Reasons
    <3> QED BY <3>1, <3>2, <3>4, SetConditionType
  <2>5. UidsOrdered'
    BY <2>2, <2>3 DEF OutcomesInv, UidsOrdered, Reconciling
  <2>6. ASSUME FirstLife'
        PROVE  /\ Agrees(met.st)' /\ Agrees(cmet.st)' /\ Agrees(w.st)'
               /\ RunsStay'
    <3>1. FirstLife
      BY <2>2, <2>6 DEF FirstLife, Stays, Unpruned, FirstOwner
    <3>2. Agrees(met.st) /\ Agrees(cmet.st) /\ Agrees(w.st) /\ RunsStay
      BY <3>1 DEF OutcomesInv
    <3>3. Agrees(conded)
      BY <2>4, <3>2 DEF Claims, Agrees
    <3>4. Agrees(new)
      <4>1. run \in RunStates
        BY <2>1 DEF TypeOK, RunType
      <4>2. new = CASE run = "succeeded" ->
                         [conded EXCEPT !.running = @ \ {Pipeline},
                                        !.ready[Pipeline] = "True",
                                        !.succeeded = @ \cup {Pipeline}]
                    [] run \in {"completed", "failed"} ->
                         [conded EXCEPT !.running = @ \ {Pipeline},
                                        !.failed = @ \cup {Pipeline}]
                    [] run \in {"new", "running"} ->
                         [conded EXCEPT !.running = @ \cup {Pipeline}]
        BY DEF Reported
      <4>3. /\ run = cpr[Pipeline].st /\ run \in RunStates /\ run # "absent"
            /\ conded \in StatusType /\ Agrees(conded)
        BY <2>2, <2>4, <3>3, <4>1
      <4> HIDE DEF conded, new, st, run
      <4>4. CASE run = "succeeded"
        <5>1. new = [conded EXCEPT !.running = @ \ {Pipeline},
                                   !.ready[Pipeline] = "True",
                                   !.succeeded = @ \cup {Pipeline}]
          BY <4>2, <4>4
        <5>2. /\ new.running = conded.running \ {Pipeline} /\ new.failed = conded.failed
              /\ new.succeeded = conded.succeeded \cup {Pipeline}
              /\ new.ready = [conded.ready EXCEPT ![Pipeline] = "True"]
          BY <4>3, <5>1 DEF StatusType
        <5> QED BY <2>1, <4>3, <4>4, <5>2 DEF Agrees, StatusType
      <4>5. CASE run \in {"completed", "failed"}
        <5>1. new = [conded EXCEPT !.running = @ \ {Pipeline},
                                   !.failed = @ \cup {Pipeline}]
          BY <4>2, <4>5
        <5>2. /\ new.running = conded.running \ {Pipeline}
              /\ new.failed = conded.failed \cup {Pipeline}
              /\ new.succeeded = conded.succeeded /\ new.ready = conded.ready
          BY <4>3, <5>1 DEF StatusType
        <5> QED BY <2>1, <4>3, <4>5, <5>2 DEF Agrees
      <4>6. CASE run \in {"new", "running"}
        <5>1. new = [conded EXCEPT !.running = @ \cup {Pipeline}]
          BY <4>2, <4>6
        <5>2. /\ new.running = conded.running \cup {Pipeline} /\ new.failed = conded.failed
              /\ new.succeeded = conded.succeeded /\ new.ready = conded.ready
          BY <4>3, <5>1 DEF StatusType
        <5> QED BY <2>1, <4>3, <4>6, <5>2 DEF Agrees
      <4> QED BY <4>3, <4>4, <4>5, <4>6 DEF RunStates
    <3> QED BY <2>2, <2>3, <3>2, <3>4 DEF Agrees, RunsStay
  <2> QED BY <2>5, <2>6 DEF OutcomesInv
<1> QED BY <1>1, <1>2, <1>3, <1>4, <1>5, <1>6, <1>7, <1>8, <1>9, <1>10, <1>11, <1>12,
           <1>13, <1>14 DEF Worker

\* A step that the runs, and what the operator knows of them, take no part in.
LEMMA OutcomesCalm ==
    ASSUME TypeOK, OutcomesInv, UNCHANGED <<pr, cpr>>,
           left'["prunes"] = left["prunes"],
           met'.uid = met.uid, NoneComes, met'.st = met.st,
           cmet' \in {cmet, met},
           \/ UNCHANGED <<pc, w>>
           \/ pc' \in {"idle", "down"} /\ w' = NoMeteor
    PROVE  OutcomesInv'
<1>1. \A st : Claims(st, st)
  BY DEF Claims
<1>2. \A l \in {"idle", "down"} : l \notin Reconciling
  BY DEF Reconciling, BeforeComas, AfterFinalizer
<1> QED BY <1>1, <1>2, Bystander, EmptyAgrees

\* The operator learns the state of some runs.
LEMMA OutcomesLearnt ==
    ASSUME TypeOK, OutcomesInv, UNCHANGED <<pr, met, left>>,
           \A p \in PipelineNames : cpr'[p] \in {cpr[p], pr[p]},
           cmet' \in {cmet, met},
           \/ UNCHANGED <<pc, w>>
           \/ pc' = "idle" /\ w' = NoMeteor
    PROVE  OutcomesInv'
<1>0. met.uid \in Nat /\ cmet.uid \in Nat /\ w.uid \in Nat
  BY DEF TypeOK, MeteorType
<1>1. UidsOrdered'
  BY <1>0, EmptyAgrees DEF OutcomesInv, UidsOrdered, Reconciling, BeforeComas, AfterFinalizer
<1>2. ASSUME FirstLife'
      PROVE  /\ Agrees(met.st)' /\ Agrees(cmet.st)' /\ Agrees(w.st)'
             /\ RunsStay'
  <2>1. FirstLife
    BY <1>2 DEF FirstLife, Stays, Unpruned, FirstOwner
  <2>2. Agrees(met.st) /\ Agrees(cmet.st) /\ Agrees(w.st) /\ RunsStay
    BY <2>1 DEF OutcomesInv
  <2>3. \A p \in PipelineNames : cpr[p].st \in Finished => cpr'[p].st = cpr[p].st
    BY <2>2 DEF RunsStay
  <2>4. ASSUME NEW st, Agrees(st)
        PROVE  \A p \in PipelineNames :
                 /\ st.ready[p] = "True" => p \in st.succeeded
                 /\ p \in st.succeeded => cpr'[p].st = "succeeded" /\ p \notin st.running
                 /\ p \in st.failed => cpr'[p].st \in {"completed", "failed"}
                                       /\ p \notin st.running
    BY <2>3, <2>4 DEF Agrees, Finished
  <2>5. /\ met'.st = met.st /\ cmet'.st \in {cmet.st, met.st}
        /\ w'.st \in {w.st, EmptyStatus}
    BY EmptyAgrees
  <2>6. Agrees(met.st)' /\ Agrees(cmet.st)' /\ Agrees(w.st)'
    BY <2>2, <2>4, <2>5, EmptyAgrees DEF Agrees
  <2>7. RunsStay'
    BY <2>2 DEF RunsStay
  <2> QED BY <2>6, <2>7
<1> QED BY <1>1, <1>2 DEF OutcomesInv

LEMMA OutcomesManager == TypeOK /\ OutcomesInv /\ Manager => OutcomesInv'
<1> SUFFICES ASSUME TypeOK, OutcomesInv, Manager PROVE OutcomesInv'
  OBVIOUS
<1> USE DEF apiVars, cacheVars, opVars, Goto
<1>a. left \in [Kinds -> Nat]
  BY DEF TypeOK
<1>1. CASE SyncMeteor
  BY <1>1, OutcomesCalm DEF SyncMeteor, NoneComes, Stays
<1>2. CASE OtherMeteor
  <2>1. left'["prunes"] = left["prunes"]
    BY <1>2, <1>a, SpendKeeps DEF OtherMeteor, Kinds
  <2> QED BY <1>2, <2>1, OutcomesCalm DEF OtherMeteor, NoneComes, Stays
<1>3. CASE Crash
  <2>1. left'["prunes"] = left["prunes"]
    BY <1>3, <1>a, SpendKeeps DEF Crash, Kinds
  <2> QED BY <1>3, <2>1, OutcomesCalm DEF Crash, NoneComes, Stays
<1>4. CASE Restart
  BY <1>4, OutcomesLearnt DEF Restart
<1>5. ASSUME NEW n \in ShowerNames, SyncShower(n) PROVE OutcomesInv'
  BY <1>5, OutcomesCalm DEF SyncShower, NoneComes, Stays
<1>6. ASSUME NEW p \in PipelineNames, SyncPipelineRun(p) PROVE OutcomesInv'
  <2>1. \A q \in PipelineNames : cpr'[q] \in {cpr[q], pr[q]}
    BY <1>6 DEF SyncPipelineRun, TypeOK
  <2> QED BY <1>6, <2>1, OutcomesLearnt DEF SyncPipelineRun
<1>7. ASSUME NEW ns \in Namespaces, SyncComa(ns) PROVE OutcomesInv'
  BY <1>7, OutcomesCalm DEF SyncComa, NoneComes, Stays
<1> QED BY <1>1, <1>2, <1>3, <1>4, <1>5, <1>6, <1>7 DEF Manager

LEMMA OutcomesCluster == TypeOK /\ HeldMarked /\ OutcomesInv /\ Cluster => OutcomesInv'
<1> SUFFICES ASSUME TypeOK, HeldMarked, OutcomesInv, Cluster PROVE OutcomesInv'
  OBVIOUS
<1> USE DEF apiVars, cacheVars, opVars
<1>a. left \in [Kinds -> Nat] /\ met \in MeteorType
  BY DEF TypeOK
<1>b. met.uid \in Nat /\ cmet.uid \in Nat /\ w.uid \in Nat
  BY DEF TypeOK, MeteorType
<1>1. CASE UserCreate
  <2>1. /\ met'.live /\ met'.uid = met.uid + 1 /\ met'.st = EmptyStatus /\ ~met.live
        /\ UNCHANGED <<pr, cpr, cmet, pc, w, left>>
    BY <1>1 DEF UserCreate, NoMeteor
  <2>2. UidsOrdered'
    BY <1>b, <2>1 DEF OutcomesInv, UidsOrdered
  <2>3. ASSUME FirstLife'
        PROVE  /\ Agrees(met.st)' /\ Agrees(cmet.st)' /\ Agrees(w.st)'
               /\ RunsStay'
    <3>1. FirstLife
      BY <1>b, <2>1, <2>3 DEF FirstLife, Stays, Unpruned, FirstOwner
    <3>2. Agrees(cmet.st) /\ Agrees(w.st) /\ RunsStay
      BY <3>1 DEF OutcomesInv
    <3>3. RunsStay'
      BY <2>1, <3>2 DEF RunsStay
    <3> QED BY <2>1, <3>2, <3>3, EmptyAgrees DEF Agrees
  <2> QED BY <2>2, <2>3 DEF OutcomesInv
<1>2. CASE UserDelete \/ CollectMeteor \/ ReleaseMeteor
  <2>1. left'["prunes"] = left["prunes"]
    BY <1>2, <1>a, SpendKeeps DEF UserDelete, CollectMeteor, ReleaseMeteor, Kinds
  <2>2. \/ met' = DeleteObject(met)
        \/ met' = [met EXCEPT !.del = TRUE, !.held = TRUE, !.rv = @ + 1]
        \/ met.del /\ met' = [met EXCEPT !.held = FALSE, !.live = met.fin, !.rv = @ + 1]
    BY <1>2 DEF UserDelete, CollectMeteor, ReleaseMeteor
  <2>3. met.live
    BY <1>2 DEF UserDelete, CollectMeteor, ReleaseMeteor
  <2>4. met'.uid = met.uid /\ met'.st = met.st
    BY <1>a, <2>2, DeleteObjectType DEF MeteorType
  <2>5. ~Stays'
    <3>1. CASE met' = DeleteObject(met)
      BY <1>a, <2>3, <3>1, DeleteObjectStays DEF Stays
    <3>2. CASE met' # DeleteObject(met)
      BY <1>a, <2>2, <3>2 DEF Stays, MeteorType
    <3> QED BY <3>1, <3>2
  <2> QED BY <1>2, <2>1, <2>3, <2>4, <2>5, OutcomesCalm
       DEF UserDelete, CollectMeteor, ReleaseMeteor, NoneComes
<1>3. CASE UserEdit
  <2>1. left'["prunes"] = left["prunes"]
    BY <1>3, <1>a, SpendKeeps DEF UserEdit, Kinds
  <2>2. met'.uid = met.uid /\ NoneComes /\ met'.st = met.st
    BY <1>3, <1>a DEF UserEdit, NoneComes, Stays, MeteorType
  <2> QED BY <1>3, <2>1, <2>2, OutcomesCalm DEF UserEdit
<1>4. CASE Tick
  BY <1>4, OutcomesCalm DEF Tick, NoneComes, Stays
<1>5. ASSUME NEW n \in ShowerNames, ChangeShower(n) PROVE OutcomesInv'
  <2>1. left'["prunes"] = left["prunes"]
    BY <1>5, <1>a, SpendKeeps DEF ChangeShower, Kinds
  <2> QED BY <1>5, <2>1, OutcomesCalm DEF ChangeShower, NoneComes, Stays
<1>6. ASSUME NEW ns \in Namespaces, LoseComa(ns) PROVE OutcomesInv'
  <2>1. left'["prunes"] = left["prunes"]
    BY <1>6, <1>a, SpendKeeps DEF LoseComa, Kinds
  <2> QED BY <1>6, <2>1, OutcomesCalm DEF LoseComa, NoneComes, Stays
<1>7. ASSUME NEW p \in PipelineNames, CollectPipelineRun(p) PROVE OutcomesInv'
  <2>1. /\ pr[p].st # "absent" /\ (met.live /\ met.uid = pr[p].owner => met.del)
        /\ UNCHANGED <<cpr, met, cmet, pc, w, left>>
    BY <1>7 DEF CollectPipelineRun, HeldMarked
  <2>2. ~FirstLife
    <3>1. SUFFICES ASSUME FirstLife PROVE FALSE
      OBVIOUS
    <3>2. met.live /\ pr[p].owner = met.uid /\ met.uid # 0
      BY <2>1, <3>1 DEF OutcomesInv, UidsOrdered, RunsStay
    <3> QED BY <2>1, <3>1, <3>2 DEF FirstLife, Stays
  <2> QED BY <2>1, <2>2
       DEF OutcomesInv, UidsOrdered, FirstLife, Stays, Unpruned, FirstOwner
<1>8. ASSUME NEW p \in PipelineNames, TektonStep(p) PROVE OutcomesInv'
  <2>1. /\ pr[p].st \in {"new", "running"}
        /\ UNCHANGED <<cpr, met, cmet, pc, w, left>>
    BY <1>8 DEF TektonStep
  <2>2. PICK s : pr' = [pr EXCEPT ![p].st = s]
    BY <1>8 DEF TektonStep
  <2>3. ASSUME FirstLife, NEW q \in PipelineNames
        PROVE  /\ cpr[q].st \in Finished => pr'[q].st = cpr[q].st
               /\ pr'[q].st # "absent" => met.live /\ pr'[q].owner = met.uid
    <3>1. RunsStay
      BY <2>3 DEF OutcomesInv
    <3>2. CASE q = p
      <4>1. pr'[q].owner = pr[q].owner
        BY <2>2, <3>2 DEF TypeOK, RunType
      <4>2. cpr[q].st \notin Finished
        BY <2>1, <3>1, <3>2 DEF RunsStay, Finished
      <4> QED BY <2>1, <3>1, <3>2, <4>1, <4>2 DEF RunsStay
    <3>3. CASE q # p
      BY <2>2, <3>1, <3>3 DEF RunsStay, TypeOK
    <3> QED BY <3>2, <3>3
  <2>4. FirstLife => RunsStay'
    BY <2>1, <2>3 DEF RunsStay
  <2> QED BY <2>1, <2>4
       DEF OutcomesInv, UidsOrdered, FirstLife, Stays, Unpruned, FirstOwner, Agrees
<1>9. ASSUME NEW p \in PipelineNames, PrunePipelineRun(p) PROVE OutcomesInv'
  <2>1. UNCHANGED <<cpr, met, cmet, pc, w>> /\ left'["prunes"] = left["prunes"] - 1
    BY <1>9, <1>a DEF PrunePipelineRun, Spend, Kinds
  <2>2. left["prunes"] \in Nat /\ Limits["prunes"] \in Nat
    BY <1>a, BoundsAssumption DEF Kinds
  <2>3. left'["prunes"] < Limits["prunes"]
    BY <2>1, <2>2 DEF OutcomesInv, UidsOrdered
  <2>4. ~Unpruned'
    BY <2>1, <2>2, <2>3 DEF Unpruned
  <2> QED BY <2>1, <2>2, <2>3, <2>4 DEF OutcomesInv, UidsOrdered, FirstLife
<1> QED BY <1>1, <1>2, <1>3, <1>4, <1>5, <1>6, <1>7, <1>8, <1>9 DEF Cluster

LEMMA OutcomesInit == Init => OutcomesInv
<1> SUFFICES ASSUME Init PROVE OutcomesInv
  OBVIOUS
<1>1. /\ met = NoMeteor /\ cmet = NoMeteor /\ w = NoMeteor /\ pc = "idle" /\ left = Limits
      /\ pr = [p \in PipelineNames |-> NoRun] /\ cpr = pr
  BY DEF Init
<1>2. UidsOrdered
  <2>1. Limits["prunes"] \in Nat
    BY BoundsAssumption DEF Kinds
  <2>2. NoMeteor.uid = 0 /\ ~NoMeteor.live
    BY DEF NoMeteor
  <2> QED BY <1>1, <2>1, <2>2 DEF UidsOrdered, Reconciling, BeforeComas, AfterFinalizer
<1>3. RunsStay
  BY <1>1 DEF RunsStay, NoRun, Finished
<1> QED BY <1>1, <1>2, <1>3, EmptyAgrees DEF OutcomesInv

LEMMA OutcomesNext == TypeOK /\ HeldMarked /\ OutcomesInv /\ [Next]_vars => OutcomesInv'
<1> SUFFICES ASSUME TypeOK, HeldMarked, OutcomesInv, [Next]_vars PROVE OutcomesInv'
  OBVIOUS
<1>1. CASE UNCHANGED vars
  BY <1>1, OutcomesCalm DEF NoneComes, Stays, vars, apiVars, cacheVars, opVars
<1> QED BY <1>1, OutcomesWorker, OutcomesManager, OutcomesCluster DEF Next

-----------------------------------------------------------------------------
(* The theorem *)

\* Until a run of the Meteor is pruned, and in the first life of its name, Ready
\* and the Succeeded stage speak of a run that ended with the reason Succeeded,
\* the Failed stage of one that ended with another reason, Completed included,
\* and none of them of a run that is listed as running as well: over lost
\* writes, stale caches, crashes and edits (ReconcilePipelineRun,
\* UpdateStatusNow).  The conditions are needed: a run that is gone is built
\* again, and may end otherwise.
THEOREM OutcomesFollowRuns == Spec => [](Unpruned /\ FirstOwner => OutcomesTrue)
<1>1. OutcomesInv => (Unpruned /\ FirstOwner => OutcomesTrue)
  <2> SUFFICES ASSUME OutcomesInv, Unpruned, FirstOwner, met.live, ~met.del
               PROVE  OutcomesTrue
    BY DEF OutcomesTrue
  <2>1. Agrees(met.st) /\ RunsStay
    BY DEF OutcomesInv, FirstLife, Stays
  <2> QED BY <2>1 DEF OutcomesTrue, Agrees, RunsStay, Finished
<1>2. IInv => TypeOK
  BY DEF IInv
<1> QED BY <1>1, <1>2, OutcomesInit, OutcomesNext, InvInit, InvNext, LifeInit, HeldNext, PTL
        DEF Spec
=============================================================================
