-------------------------- MODULE CREStatusProofs --------------------------
(***************************************************************************)
(* Proofs about CRE for every set of specs and every bound: its type       *)
(* invariant, and what the phase Succeeded is worth, across edits, lost    *)
(* status writes, stale caches, crashes and incarnations.                  *)
(***************************************************************************)
EXTENDS CREProofs

-----------------------------------------------------------------------------
(* The inductive invariants *)

\* What a copy says of builds is true of the runs there have been.
Backed(rs, c) ==
    c.live =>
        /\ \A t \in ReadyTypes : IsTrue(c.st.conds, t) => Built(rs, c, PipelineOf(t))
        /\ c.st.phase = "Succeeded" => \E t \in ReadyTypes : Built(rs, c, PipelineOf(t))

\* A reading c of the resource m is no newer than it, and of its generation and
\* spec when the versions are the same.
Coherent(m, c) ==
    c.live =>
        /\ c.rv <= m.rv
        /\ c.rv = m.rv => m.live /\ c.uid = m.uid /\ c.gen = m.gen /\ c.spec = m.spec

\* A copy of a resource that is there names a run.
Named(c) == c.live => c.gen \in 1..MaxGen /\ c.spec \in Specs

Readings ==
    /\ Coherent(cre, ccre) /\ Coherent(cre, w)
    /\ Named(cre) /\ Named(ccre) /\ Named(w)
    /\ pc \in {"pipe", "status"} <=> w.live

TypeInv == TypeOK /\ Readings

\* Once a run has won it has won whatever becomes of it; the first of its name
\* has won only while it is there as succeeded.  What the cache has as
\* succeeded has won.
History ==
    \A n \in RunNames :
        /\ pr[n].st = "succeeded" => pr[n].won
        /\ pr[n].won /\ ~pr[n].again => pr[n].st = "succeeded"
        /\ cpr[n].st = "succeeded" => pr[n].won

StatusInv == TypeInv /\ History /\ Backed(pr, cre) /\ Backed(pr, ccre) /\ Backed(pr, w)

\* What a copy of the first generation calls ready the cache has as succeeded,
\* as long as nobody took the run away.
Seen(rs, crs, c) ==
    (/\ c.live /\ c.gen = 1 /\ ~rs[RunName(c)].again
     /\ c.st.phase = "Succeeded" \/ \E t \in ReadyTypes : IsTrue(c.st.conds, t))
        => crs[RunName(c)].st = "succeeded"

\* The conditions that a write of the copy c stores over a phase Succeeded give
\* that phase again.
Keeps(rs, m, c) ==
    (/\ c.live /\ c.gen = 1 /\ c.rv = m.rv /\ ~rs[RunName(c)].again
     /\ m.st.phase = "Succeeded")
        => AggregatePhase(c.st.conds) = "Succeeded"

FinalInv ==
    /\ StatusInv
    /\ Seen(pr, cpr, cre) /\ Seen(pr, cpr, ccre) /\ Seen(pr, cpr, w)
    /\ cre.st.phase = "Succeeded" => AggregatePhase(cre.st.conds) = "Succeeded"
    /\ Keeps(pr, cre, ccre) /\ Keeps(pr, cre, w)

-----------------------------------------------------------------------------
(* Conditions and phase *)

CondsType == [Types -> CondType]

LEMMA SetTyped ==
    ASSUME NEW conds \in CondsType, NEW t \in Types, NEW s \in {"True", "False"},
           NEW r \in Reasons
    PROVE  Set(conds, t, s, r) \in CondsType
BY DEF Set, CondsType, CondType

LEMMA NoCondsTyped == NoConds \in CondsType
BY DEF NoConds, NoCond, CondsType, CondType, Reasons

LEMMA CompletedTyped ==
    ASSUME NEW conds \in CondsType
    PROVE  Completed(conds) \in CondsType
<1>1. Set(conds, "PipelineRunCompleted", "True", "PipelineRunCompleted") \in CondsType
  BY SetTyped DEF Types, Reasons
<1>2. NoCond \in CondType
  BY DEF NoCond, CondType, Reasons
<1> QED BY <1>1, <1>2 DEF Completed, CondsType

\* Recording a creation.
LEMMA CreatedTyped ==
    ASSUME NEW conds \in CondsType, NEW err \in Reasons
    PROVE  /\ Created(conds) \in CondsType /\ CreateFailed(conds, err) \in CondsType
           /\ \A t \in ReadyTypes :
                 /\ IsTrue(Created(conds), t) <=> IsTrue(conds, t)
                 /\ IsTrue(CreateFailed(conds, err), t) <=> IsTrue(conds, t)
<1>1. {"ErrorPipelineRunCreate", "PipelineRunCreated"} \subseteq Types
  BY DEF Types
<1>2. \A cs \in CondsType : Created(cs) \in CondsType
  BY <1>1, SetTyped DEF Created, Reasons
<1>3. Set(conds, "ErrorPipelineRunCreate", "True", err) \in CondsType
  BY <1>1, SetTyped
<1>4. CreateFailed(conds, err) \in CondsType
  BY <1>2, <1>3 DEF CreateFailed
<1>5. ASSUME NEW t \in ReadyTypes
      PROVE  /\ IsTrue(Created(conds), t) <=> IsTrue(conds, t)
             /\ IsTrue(CreateFailed(conds, err), t) <=> IsTrue(conds, t)
  <2>1. t \in Types
    BY DEF ReadyTypes, Types
  <2> QED BY <1>1, <1>3, <2>1 DEF Created, CreateFailed, Set, IsTrue, CondsType, ReadyTypes
<1> QED BY <1>2, <1>4, <1>5

\* A condition with another type, whatever its status, leaves the ready ones.
LEMMA SetOther ==
    ASSUME NEW conds \in CondsType, NEW t \in Types, NEW s, NEW r,
           NEW u \in Types, u # t
    PROVE  IsTrue(Set(conds, t, s, r), u) <=> IsTrue(conds, u)
BY DEF Set, IsTrue, CondsType

LEMMA SetSame ==
    ASSUME NEW conds \in CondsType, NEW t \in Types, NEW s, NEW r
    PROVE  IsTrue(Set(conds, t, s, r), t) <=> s = "True"
BY DEF Set, IsTrue, CondsType

LEMMA CompletedReady ==
    ASSUME NEW conds \in CondsType, NEW t \in Types \ {"PipelineRunCompleted", "PipelineRunCreated"}
    PROVE  IsTrue(Completed(conds), t) <=> IsTrue(conds, t)
BY DEF Completed, Set, IsTrue, CondsType, Types

Pipelines == {"import", "package-list", "gitrepo"}

\* Reporting a run keeps the conditions typed, and makes ready only what a
\* success of this pipeline makes so.
LEMMA ReportedTyped ==
    ASSUME NEW conds \in CondsType, NEW p \in Pipelines,
           NEW run \in {"new", "running", "succeeded", "failed"}
    PROVE  /\ Reported(conds, p, run) \in CondsType
           /\ \A t \in ReadyTypes :
                 IsTrue(Reported(conds, p, run), t) =>
                     IsTrue(conds, t) \/ (run = "succeeded" /\ p = PipelineOf(t))
<1>1. CASE run \in {"new", "running"}
  BY <1>1 DEF Reported
<1>2. Completed(conds) \in CondsType
  BY CompletedTyped
<1>3. ReadyTypes \subseteq Types \ {"PipelineRunCompleted", "PipelineRunCreated", "ErrorBuildingImage"}
      /\ "ErrorBuildingImage" \in Types
  BY DEF ReadyTypes, Types
<1>4. \A t \in ReadyTypes : IsTrue(Completed(conds), t) <=> IsTrue(conds, t)
  BY <1>3, CompletedReady
<1>5. CASE run = "succeeded"
  <2>1. Reported(conds, p, run) = Succeeded(conds, p)
    BY <1>5 DEF Reported
  <2>2. CASE p = "gitrepo"
    BY <1>2, <1>4, <2>1, <2>2 DEF Succeeded
  <2>3. ASSUME NEW r \in ReadyTypes, p = PipelineOf(r)
        PROVE  /\ Reported(conds, p, run) \in CondsType
               /\ \A t \in ReadyTypes :
                     IsTrue(Reported(conds, p, run), t) => IsTrue(conds, t) \/ t = r
    <3>1. Reported(conds, p, run) = Set(Completed(conds), r, "True", r)
      BY <2>1, <2>3 DEF Succeeded, PipelineOf, ReadyTypes
    <3>2. r \in Reasons
      BY DEF ReadyTypes, Reasons
    <3>3. Reported(conds, p, run) \in CondsType
      BY <1>2, <1>3, <3>1, <3>2, SetTyped
    <3>4. ASSUME NEW t \in ReadyTypes, t # r, IsTrue(Reported(conds, p, run), t)
          PROVE  IsTrue(conds, t)
      BY <1>2, <1>3, <1>4, <3>1, <3>4, SetOther
    <3> QED BY <3>3, <3>4
  <2>4. p = "gitrepo" \/ \E r \in ReadyTypes : p = PipelineOf(r)
    BY DEF Pipelines, ReadyTypes, PipelineOf
  <2> QED BY <1>5, <2>2, <2>3, <2>4
<1>6. CASE run = "failed"
  <2>1. Reported(conds, p, run) = Failed(conds, p)
    BY <1>6 DEF Reported
  <2>2. CASE p = "gitrepo"
    <3>1. Reported(conds, p, run) =
              Set(Completed(conds), "ErrorBuildingImage", "True", "ErrorBuildingImage")
      BY <2>1, <2>2 DEF Failed
    <3>2. Reported(conds, p, run) \in CondsType
      BY <1>2, <1>3, <3>1, SetTyped DEF Reasons
    <3>3. ASSUME NEW t \in ReadyTypes, IsTrue(Reported(conds, p, run), t)
          PROVE  IsTrue(conds, t)
      <4>1. t # "ErrorBuildingImage" /\ t \in Types
        BY <1>3
      <4> QED BY <1>2, <1>3, <1>4, <3>1, <3>3, <4>1, SetOther
    <3> QED BY <3>2, <3>3
  <2>3. ASSUME NEW r \in ReadyTypes, NEW m \in Reasons,
               Reported(conds, p, run) = Set(Completed(conds), r, "False", m)
        PROVE  /\ Reported(conds, p, run) \in CondsType
               /\ \A t \in ReadyTypes :
                     IsTrue(Reported(conds, p, run), t) => IsTrue(conds, t)
    <3>1. Reported(conds, p, run) \in CondsType
      BY <1>2, <1>3, <2>3, SetTyped
    <3>2. ASSUME NEW t \in ReadyTypes, IsTrue(Reported(conds, p, run), t)
          PROVE  IsTrue(conds, t)
      <4>1. t # r
        BY <1>2, <1>3, <2>3, <3>2, SetSame
      <4> QED BY <1>2, <1>3, <1>4, <2>3, <3>2, <4>1, SetOther
    <3> QED BY <3>1, <3>2
  <2>4. p = "gitrepo" \/ \E r \in ReadyTypes, m \in Reasons :
            Reported(conds, p, run) = Set(Completed(conds), r, "False", m)
    BY <2>1 DEF Pipelines, ReadyTypes, Failed, Reasons
  <2> QED BY <2>2, <2>3, <2>4
<1> QED BY <1>1, <1>5, <1>6

\* Phase Succeeded is read off a ready condition.
LEMMA PhaseReady ==
    ASSUME NEW conds, AggregatePhase(conds) = "Succeeded"
    PROVE  \E t \in ReadyTypes : IsTrue(conds, t)
BY DEF AggregatePhase, ReadyTypes

LEMMA PhaseTyped ==
    ASSUME NEW conds
    PROVE  AggregatePhase(conds) \in {"Pending", "Running", "Succeeded", "Failed"}
BY DEF AggregatePhase

\* Neither a Get that fails nor another look at the run that succeeded takes the
\* phase Succeeded back.
LEMMA PhaseKept ==
    ASSUME NEW conds \in CondsType, AggregatePhase(conds) = "Succeeded"
    PROVE  /\ AggregatePhase(Set(conds, "GenericPipelineError", "True",
                                 "PipelineRunGenericError")) = "Succeeded"
           /\ \A p \in Pipelines : AggregatePhase(Reported(conds, p, "succeeded")) = "Succeeded"
<1> DEFINE Fine(cs) ==
        /\ ~IsTrue(cs, "ErrorPipelineRunCreate") /\ ~IsTrue(cs, "PipelineRunCreated")
        /\ IsTrue(cs, "PipelineRunCompleted")
        /\ \E t \in ReadyTypes : IsTrue(cs, t)
<1>1. Fine(conds)
  BY PhaseReady DEF AggregatePhase
<1>2. ASSUME NEW cs \in CondsType, Fine(cs) PROVE AggregatePhase(cs) = "Succeeded"
  <2>1. cs # NoConds
    BY <1>2 DEF NoConds, NoCond, IsTrue, Types
  <2> QED BY <1>2, <2>1 DEF AggregatePhase, ReadyTypes
<1>3. {"GenericPipelineError", "PipelineRunCompleted", "ErrorPipelineRunCreate",
       "PipelineRunCreated"} \cup ReadyTypes \subseteq Types
  BY DEF Types, ReadyTypes
<1>4. ASSUME NEW t \in {"GenericPipelineError"} \cup ReadyTypes, NEW m \in Reasons,
             NEW cs \in CondsType, Fine(cs)
      PROVE  Set(cs, t, "True", m) \in CondsType /\ Fine(Set(cs, t, "True", m))
  <2>1. Set(cs, t, "True", m) \in CondsType
    BY <1>3, SetTyped
  <2>2. \A u \in Types : IsTrue(cs, u) => IsTrue(Set(cs, t, "True", m), u)
    BY <1>3, SetOther, SetSame
  <2>3. \A u \in {"ErrorPipelineRunCreate", "PipelineRunCreated"} :
            ~IsTrue(Set(cs, t, "True", m), u)
    <3>1. \A u \in {"ErrorPipelineRunCreate", "PipelineRunCreated"} : u # t
      BY DEF ReadyTypes
    <3> QED BY <1>3, <1>4, <3>1, SetOther
  <2> QED BY <1>3, <1>4, <2>1, <2>2, <2>3
<1>5. Completed(conds) \in CondsType /\ Fine(Completed(conds))
  <2>1. Completed(conds) \in CondsType
    BY CompletedTyped
  <2>2. \A t \in ReadyTypes \cup {"ErrorPipelineRunCreate"} :
            IsTrue(Completed(conds), t) <=> IsTrue(conds, t)
    <3>1. \A t \in ReadyTypes \cup {"ErrorPipelineRunCreate"} :
              t \in Types \ {"PipelineRunCompleted", "PipelineRunCreated"}
      BY <1>3 DEF ReadyTypes
    <3> QED BY <3>1, CompletedReady
  <2>3. IsTrue(Completed(conds), "PipelineRunCompleted")
        /\ ~IsTrue(Completed(conds), "PipelineRunCreated")
    BY <1>3 DEF Completed, Set, IsTrue, NoCond, CondsType
  <2> QED BY <1>1, <2>1, <2>2, <2>3
<1>6. ASSUME NEW p \in Pipelines
      PROVE  AggregatePhase(Reported(conds, p, "succeeded")) = "Succeeded"
  <2>1. \/ Reported(conds, p, "succeeded") = Completed(conds)
        \/ \E t \in ReadyTypes :
              Reported(conds, p, "succeeded") = Set(Completed(conds), t, "True", t)
    BY DEF Reported, Succeeded, Pipelines, ReadyTypes
  <2>2. \A t \in ReadyTypes : t \in Reasons
    BY DEF ReadyTypes, Reasons
  <2> HIDE DEF Fine
  <2> QED BY <1>2, <1>4, <1>5, <2>1, <2>2
<1>7. "PipelineRunGenericError" \in Reasons
  BY DEF Reasons
<1> HIDE DEF Fine
<1> QED BY <1>1, <1>2, <1>4, <1>6, <1>7

-----------------------------------------------------------------------------
(* Types and readings *)

SameReading(a, b) ==
    a.live = b.live /\ a.uid = b.uid /\ a.rv = b.rv /\ a.gen = b.gen /\ a.spec = b.spec

LEMMA EmptyTyped == NoCRE \in CREType /\ ~NoCRE.live /\ EmptyStatus \in StatusType
<1>1. EmptyStatus \in StatusType
  BY NoCondsTyped DEF EmptyStatus, StatusType, CondsType
<1> QED BY <1>1 DEF NoCRE, CREType

\* What changes of the resource, or a copy, does to its type and reading.
LEMMA StatusTyped ==
    ASSUME NEW c \in CREType, NEW st \in StatusType
    PROVE  LET k == [c EXCEPT !.st = st] IN
           k \in CREType /\ SameReading(k, c) /\ k.st = st /\ k.del = c.del
BY DEF CREType, SameReading

LEMMA StoredTyped ==
    ASSUME NEW c \in CREType, NEW st \in StatusType
    PROVE  LET k == [c EXCEPT !.st = st, !.rv = @ + 1] IN
           /\ k \in CREType /\ k.rv = c.rv + 1 /\ k.st = st
           /\ k.live = c.live /\ k.uid = c.uid /\ k.gen = c.gen /\ k.spec = c.spec
<1>1. c.rv \in Nat /\ c.rv + 1 \in Nat
  BY DEF CREType
<1>2. \A r \in Nat :
          LET k == [c EXCEPT !.st = st, !.rv = r] IN
          /\ k \in CREType /\ k.rv = r /\ k.st = st
          /\ k.live = c.live /\ k.uid = c.uid /\ k.gen = c.gen /\ k.spec = c.spec
  BY DEF CREType
<1> QED BY <1>1, <1>2

\* The status written, and the copy whose conditions a step replaced.
LEMMA NewStatusTyped ==
    ASSUME w \in CREType
    PROVE  /\ NewStatus \in StatusType /\ NewStatus.conds = w.st.conds
           /\ NewStatus.phase = AggregatePhase(w.st.conds)
<1> DEFINE ph == AggregatePhase(w.st.conds)
<1>1. ph \in {"", "Pending", "Running", "Succeeded", "Failed"}
  BY PhaseTyped
<1>2. w.st \in StatusType /\ w.gen \in Nat
  BY DEF CREType
<1> HIDE DEF ph
<1>3. LET k == [w.st EXCEPT !.obs = w.gen, !.phase = ph] IN
      k \in StatusType /\ k.conds = w.st.conds /\ k.phase = ph
  BY <1>1, <1>2 DEF StatusType
<1> QED BY <1>3 DEF NewStatus, ph

LEMMA CondsTyped ==
    ASSUME w \in CREType, w.live, Named(w), NEW conds \in CondsType, WithConds(conds)
    PROVE  /\ w' \in CREType /\ SameReading(w', w)
           /\ w'.st.conds = conds /\ w'.st.phase = w.st.phase
<1>1. w.st \in StatusType
  BY DEF CREType
<1>2. RunName(w) \in RunNames
  BY DEF Named, RunName, RunNames
<1>3. Entered(w.st) \in StatusType /\ Entered(w.st).phase = w.st.phase
  BY <1>1, <1>2 DEF Entered, StatusType
<1>4. LET k == [Entered(w.st) EXCEPT !.conds = conds] IN
      k \in StatusType /\ k.conds = conds /\ k.phase = w.st.phase
  BY <1>3 DEF StatusType, CondsType
<1> QED BY <1>4, StatusTyped DEF WithConds

\* Every disturbance leaves a budget.
LEMMA SpendTyped ==
    ASSUME left \in Nat, NEW k \in Kinds, Spend(k)
    PROVE  left' \in Nat
BY BoundsAssumption DEF Spend

LEMMA FaultTyped ==
    ASSUME left \in Nat, NEW reason, NoFault \/ Fault \/ FailsIf(reason)
    PROVE  left' \in Nat
BY SpendTyped DEF NoFault, Fault, FailsIf, Kinds

\* The copies stay readings: the resource gets a new version with every change,
\* the cache follows it, the worker's copy comes from the cache.
LEMMA ReadingsKept ==
    ASSUME TypeInv, TypeOK',
           cre' = cre \/ (cre'.rv > cre.rv /\ Named(cre')),
           ccre' = ccre \/ (ccre' = cre /\ cre' = cre),
           ~w'.live \/ SameReading(w', w) \/ SameReading(w', ccre),
           pc' \in {"pipe", "status"} <=> w'.live
    PROVE  Readings'
<1>1. /\ cre.rv \in Nat /\ ccre.rv \in Nat /\ w.rv \in Nat
      /\ cre'.rv \in Nat /\ ccre'.rv \in Nat /\ w'.rv \in Nat
  BY DEF TypeInv, TypeOK, CREType
<1>2. Coherent(cre, ccre) /\ Coherent(cre, w) /\ Named(cre) /\ Named(ccre) /\ Named(w)
  BY DEF TypeInv, Readings
<1>3. Coherent(cre', ccre) /\ Coherent(cre', w)
  BY <1>1, <1>2 DEF Coherent
<1>4. Coherent(cre', ccre') /\ Named(ccre') /\ Named(cre')
  BY <1>1, <1>2, <1>3 DEF Coherent
<1>5. Coherent(cre', w') /\ Named(w')
  BY <1>2, <1>3 DEF Coherent, Named, SameReading
<1> QED BY <1>4, <1>5 DEF Readings, Coherent, Named

-----------------------------------------------------------------------------
(* Types and readings, step by step *)

LEMMA RunTyped ==
    ASSUME pr \in [RunNames -> RunType], NEW n \in RunNames, NEW run \in RunType,
           Put(n, run)
    PROVE  pr' \in [RunNames -> RunType]
BY DEF Put

LEMMA TypeInit == Init => TypeInv
<1> SUFFICES ASSUME Init PROVE TypeInv
  OBVIOUS
<1>1. NoRun \in RunType
  BY DEF NoRun, RunType
<1>2. TypeOK
  BY <1>1, EmptyTyped, BoundsAssumption DEF Init, TypeOK
<1>3. Readings
  BY EmptyTyped DEF Init, Readings, Coherent, Named
<1> QED BY <1>2, <1>3 DEF TypeInv

LEMMA TypeWorker ==
    ASSUME TypeInv, Worker
    PROVE  TypeInv'
<1> USE DEF TypeInv
<1>a. /\ cre \in CREType /\ ccre \in CREType /\ w \in CREType
      /\ left \in Nat /\ pr \in [RunNames -> RunType] /\ cpr \in [RunNames -> RunType]
  BY DEF TypeOK
<1>b. Named(w) /\ (pc \in {"pipe", "status"} <=> w.live)
  BY DEF Readings
<1>1. CASE ReconcileNothing
  <2>1. left' \in Nat
    BY <1>1, <1>a, FaultTyped DEF ReconcileNothing
  <2>2. TypeOK'
    BY <1>1, <2>1 DEF ReconcileNothing, TypeOK, runs
  <2> QED BY <1>1, <1>b, <2>2, ReadingsKept DEF ReconcileNothing, SameReading
<1>2. CASE Reconcile
  <2>1. TypeOK'
    BY <1>2 DEF Reconcile, TypeOK, runs
  <2> QED BY <1>2, <2>1, ReadingsKept DEF Reconcile, SameReading
<1>3. ASSUME NEW conds \in CondsType, WithConds(conds), w.live,
             left' \in Nat, pr' \in [RunNames -> RunType], news' \subseteq RunNames,
             pc' = "status", UNCHANGED <<cre, ccre, cpr, queue>>
      PROVE  TypeInv'
  <2>1. w' \in CREType /\ SameReading(w', w)
    BY <1>3, <1>a, <1>b, CondsTyped
  <2>2. TypeOK'
    BY <1>3, <2>1 DEF TypeOK
  <2>3. w'.live
    BY <1>3, <2>1 DEF SameReading
  <2> QED BY <1>3, <2>1, <2>2, <2>3, ReadingsKept
<1>4. CASE CreatePipelineRun
  <2> DEFINE n == RunName(w)
  <2>1. w.live /\ n \in RunNames /\ w.st.conds \in CondsType
    BY <1>4, <1>a, <1>b DEF CreatePipelineRun, Named, RunName, RunNames, CREType,
                            StatusType, CondsType
  <2>2. left' \in Nat
    BY <1>4, <1>a, FaultTyped DEF CreatePipelineRun
  <2>3. \E conds \in CondsType : WithConds(conds)
    <3>1. {"AlreadyExists", "InternalError"} \subseteq Reasons
      BY DEF Reasons
    <3> QED BY <1>4, <2>1, <3>1, CreatedTyped DEF CreatePipelineRun
  <2>4. pr' \in [RunNames -> RunType] /\ news' \subseteq RunNames
    <3>1. CASE UNCHANGED runs
      BY <3>1, <1>a DEF runs, TypeOK
    <3>2. CASE Put(n, [pr[n] EXCEPT !.st = "new", !.owner = w.uid,
                                    !.params = params(w.spec)])
      <4>1. w.spec \in SpecType /\ w.uid \in Nat
        BY <1>a, <1>b, <2>1, SpecsAssumption DEF Named, CREType
      <4>2. params(w.spec) \subseteq ParamNames
        BY <4>1, ParamsType
      <4>3. [pr[n] EXCEPT !.st = "new", !.owner = w.uid, !.params = params(w.spec)]
                \in RunType
        BY <1>a, <2>1, <4>1, <4>2 DEF RunType
      <4>4. pr' \in [RunNames -> RunType]
        BY <1>a, <2>1, <3>2, <4>3, RunTyped
      <4> QED BY <2>1, <3>2, <4>4 DEF Put, TypeOK
    <3> QED BY <1>4, <3>1, <3>2 DEF CreatePipelineRun
  <2> QED BY <1>4, <1>3, <2>1, <2>2, <2>3, <2>4 DEF CreatePipelineRun
<1>5. CASE GetPipelineRunFails
  <2>1. w.live /\ w.st.conds \in CondsType
    BY <1>5, <1>a, <1>b DEF GetPipelineRunFails, CREType, StatusType, CondsType
  <2>2. left' \in Nat
    BY <1>5, <1>a, FaultTyped DEF GetPipelineRunFails
  <2>3. \E conds \in CondsType : WithConds(conds)
    <3>1. "PipelineRunGenericError" \in Reasons /\ "GenericPipelineError" \in Types
      BY DEF Reasons, Types
    <3> QED BY <1>5, <2>1, <3>1, SetTyped DEF GetPipelineRunFails
  <2> QED BY <1>5, <1>3, <2>1, <2>2, <2>3 DEF GetPipelineRunFails, runs, TypeOK
<1>6. CASE ReportPipelineRun
  <2>1. w.live /\ w.st.conds \in CondsType
    BY <1>6, <1>a, <1>b DEF ReportPipelineRun, CREType, StatusType, CondsType
  <2>2. \E conds \in CondsType : WithConds(conds)
    <3>1. w.spec \in SpecType /\ RunName(w) \in RunNames
      BY <1>b, <2>1, SpecsAssumption DEF Named, RunName, RunNames
    <3>2. build_types[w.spec.bt] \in Pipelines
      BY <3>1 DEF SpecType, build_types, Pipelines
    <3>3. cpr[RunName(w)].st \in {"new", "running", "succeeded", "failed"}
      BY <1>6, <1>a, <3>1 DEF ReportPipelineRun, RunType
    <3> QED BY <1>6, <2>1, <3>2, <3>3, ReportedTyped DEF ReportPipelineRun
  <2> QED BY <1>6, <1>3, <2>1, <2>2 DEF ReportPipelineRun, runs, TypeOK
<1>7. CASE UpdateStatus
  <2>1. left' \in Nat
    BY <1>7, <1>a, FaultTyped DEF UpdateStatus
  <2>2. cre' = cre \/ (cre' \in CREType /\ cre'.rv > cre.rv /\ Named(cre'))
    <3>1. NewStatus \in StatusType
      BY <1>a, NewStatusTyped
    <3>2. CASE cre' = [cre EXCEPT !.st = NewStatus, !.rv = @ + 1]
      <4>1. /\ cre' \in CREType /\ cre'.rv = cre.rv + 1
            /\ cre'.live = cre.live /\ cre'.gen = cre.gen /\ cre'.spec = cre.spec
        BY <1>a, <3>1, <3>2, StoredTyped
      <4> QED BY <1>a, <4>1 DEF Readings, Named, CREType
    <3> QED BY <1>7, <3>2 DEF UpdateStatus
  <2>3. w' = NoCRE /\ pc' = "idle" /\ queue' \in BOOLEAN /\ UNCHANGED <<ccre, cpr, runs>>
    BY <1>7 DEF UpdateStatus, Return, TypeOK
  <2>4. TypeOK'
    BY <2>1, <2>2, <2>3, EmptyTyped DEF TypeOK, runs
  <2> QED BY <2>2, <2>3, <2>4, EmptyTyped, ReadingsKept
<1> QED BY <1>1, <1>2, <1>4, <1>5, <1>6, <1>7 DEF Worker

LEMMA TypeManager ==
    ASSUME TypeInv, Manager
    PROVE  TypeInv'
<1> USE DEF TypeInv
<1>b. pc \in {"pipe", "status"} <=> w.live
  BY DEF Readings
<1>1. CASE SyncCRE
  <2>1. TypeOK'
    BY <1>1 DEF SyncCRE, TypeOK, runs
  <2> QED BY <1>1, <1>b, <2>1, ReadingsKept DEF SyncCRE, SameReading
<1>2. CASE Crash
  <2>1. left' \in Nat
    BY <1>2, SpendTyped DEF Crash, TypeOK, Kinds
  <2>2. TypeOK'
    BY <1>2, <2>1, EmptyTyped DEF Crash, TypeOK, runs
  <2> QED BY <1>2, <2>2, EmptyTyped, ReadingsKept DEF Crash
<1>3. CASE Restart
  <2>1. TypeOK'
    BY <1>3 DEF Restart, TypeOK, CREType
  <2> QED BY <1>3, <1>b, <2>1, ReadingsKept DEF Restart
<1>4. ASSUME NEW n \in RunNames, SyncRun(n) PROVE TypeInv'
  <2>1. TypeOK'
    BY <1>4 DEF SyncRun, TypeOK
  <2> QED BY <1>4, <1>b, <2>1, ReadingsKept DEF SyncRun, SameReading
<1> QED BY <1>1, <1>2, <1>3, <1>4 DEF Manager

\* What a user, or the garbage collector, makes of the resource: it is new, it
\* is edited, or it goes.
Submitted ==
    \E s \in Specs :
        cre' = [NoCRE EXCEPT !.live = TRUE, !.uid = cre.uid + 1, !.rv = cre.rv + 1,
                             !.gen = 1, !.spec = s]
Modified ==
    \E s \in Specs, g \in 1..MaxGen :
        /\ cre.live /\ cre.gen <= g
        /\ g = 1 \/ ~Switches => s.bt = cre.spec.bt
        /\ cre' = [cre EXCEPT !.spec = s, !.rv = @ + 1, !.gen = g]
Leaves ==
    \E l \in BOOLEAN, d \in BOOLEAN :
        /\ l => cre.live
        /\ cre' = [cre EXCEPT !.live = l, !.del = d, !.rv = @ + 1]

\* What Tekton, a pruner or the garbage collector makes of a run.
Proceeds(n) ==
    \E s \in {"running", "succeeded", "failed"}, b \in BOOLEAN :
        /\ pr[n].st \in {"new", "running"} /\ (b <=> pr[n].won \/ s = "succeeded")
        /\ Put(n, [pr[n] EXCEPT !.st = s, !.won = b])

LEMMA SubmittedTyped ==
    ASSUME cre \in CREType, Submitted
    PROVE  /\ cre' \in CREType /\ cre'.rv = cre.rv + 1 /\ cre'.uid = cre.uid + 1
           /\ cre'.live /\ cre'.gen = 1 /\ cre'.spec \in Specs /\ cre'.st = EmptyStatus
<1>1. PICK s \in Specs :
          cre' = [NoCRE EXCEPT !.live = TRUE, !.uid = cre.uid + 1, !.rv = cre.rv + 1,
                               !.gen = 1, !.spec = s]
  BY DEF Submitted
<1>2. cre.rv + 1 \in Nat /\ cre.uid + 1 \in Nat
  BY DEF CREType
<1>3. \A u \in Nat, r \in Nat :
          LET k == [NoCRE EXCEPT !.live = TRUE, !.uid = u, !.rv = r,
                                 !.gen = 1, !.spec = s] IN
          /\ k \in CREType /\ k.rv = r /\ k.gen = 1 /\ k.spec = s /\ k.live
          /\ k.uid = u /\ k.st = EmptyStatus
  BY EmptyTyped DEF CREType, NoCRE
<1> QED BY <1>1, <1>2, <1>3

LEMMA ModifiedTyped ==
    ASSUME cre \in CREType, Modified
    PROVE  /\ cre' \in CREType /\ cre'.rv = cre.rv + 1 /\ cre'.uid = cre.uid
           /\ cre.live /\ cre'.live /\ cre'.st = cre.st
           /\ cre'.gen \in 1..MaxGen /\ cre'.spec \in Specs /\ cre.gen <= cre'.gen
           /\ cre'.gen = 1 \/ ~Switches => cre'.spec.bt = cre.spec.bt
<1>1. PICK s \in Specs, g \in 1..MaxGen :
          /\ cre.live /\ cre.gen <= g
          /\ g = 1 \/ ~Switches => s.bt = cre.spec.bt
          /\ cre' = [cre EXCEPT !.spec = s, !.rv = @ + 1, !.gen = g]
  BY DEF Modified
<1>2. cre.rv \in Nat /\ cre.rv + 1 \in Nat /\ g \in Nat
  BY BoundsAssumption DEF CREType
<1>3. \A r \in Nat, h \in Nat :
          LET k == [cre EXCEPT !.spec = s, !.rv = r, !.gen = h] IN
          /\ k \in CREType /\ k.rv = r /\ k.gen = h /\ k.spec = s
          /\ k.live = cre.live /\ k.uid = cre.uid /\ k.st = cre.st
  BY DEF CREType
<1> QED BY <1>1, <1>2, <1>3

LEMMA LeavesTyped ==
    ASSUME cre \in CREType, Leaves
    PROVE  /\ cre' \in CREType /\ cre'.rv = cre.rv + 1 /\ (cre'.live => cre.live)
           /\ cre'.uid = cre.uid /\ cre'.gen = cre.gen /\ cre'.spec = cre.spec
           /\ cre'.st = cre.st
<1>1. PICK l \in BOOLEAN, d \in BOOLEAN :
          /\ l => cre.live
          /\ cre' = [cre EXCEPT !.live = l, !.del = d, !.rv = @ + 1]
  BY DEF Leaves
<1>2. cre.rv \in Nat /\ cre.rv + 1 \in Nat
  BY DEF CREType
<1>3. \A r \in Nat :
          LET k == [cre EXCEPT !.live = l, !.del = d, !.rv = r] IN
          /\ k \in CREType /\ k.rv = r /\ k.live = l /\ k.st = cre.st
          /\ k.uid = cre.uid /\ k.gen = cre.gen /\ k.spec = cre.spec
  BY DEF CREType
<1> QED BY <1>1, <1>2, <1>3

LEMMA ClusterSteps ==
    ASSUME TypeInv, Cluster
    PROVE  /\ left' \in Nat /\ UNCHANGED <<ccre, cpr, opVars>>
           /\ \/ (Submitted \/ Modified \/ Leaves) /\ UNCHANGED runs
              \/ UNCHANGED cre /\ \E n \in RunNames : Proceeds(n) \/ Remove(n)
<1>a. cre \in CREType /\ left \in Nat /\ pr \in [RunNames -> RunType]
  BY DEF TypeInv, TypeOK
<1>1. CASE UserCreate
  BY <1>1, <1>a DEF UserCreate, Submitted
<1>2. CASE UserEdit
  <2>1. left' \in Nat
    BY <1>2, <1>a, SpendTyped DEF UserEdit, Kinds
  <2>2. Modified
    <3>1. PICK s \in Specs :
              /\ Switches \/ s.bt = cre.spec.bt
              /\ LET meta == s.bt = cre.spec.bt /\ s.fields = cre.spec.fields IN
                 /\ meta \/ cre.gen < MaxGen
                 /\ cre' = [cre EXCEPT !.spec = s, !.rv = @ + 1,
                                       !.gen = IF meta THEN @ ELSE @ + 1]
      BY <1>2 DEF UserEdit
    <3>2. cre.live /\ cre.gen \in 1..MaxGen
      BY <1>2 DEF UserEdit, TypeInv, Readings, Named
    <3> DEFINE meta == s.bt = cre.spec.bt /\ s.fields = cre.spec.fields
               g == IF meta THEN cre.gen ELSE cre.gen + 1
    <3>3. g \in 1..MaxGen /\ cre.gen <= g
      BY <3>1, <3>2, BoundsAssumption
    <3>4. g = 1 \/ ~Switches => s.bt = cre.spec.bt
      BY <3>1, <3>2
    <3>5. cre' = [cre EXCEPT !.spec = s, !.rv = @ + 1, !.gen = g]
      BY <3>1
    <3> HIDE DEF g, meta
    <3> QED BY <3>2, <3>3, <3>4, <3>5 DEF Modified
  <2> QED BY <1>2, <2>1, <2>2 DEF UserEdit
<1>3. ASSUME \/ cre.live /\ cre' = [cre EXCEPT !.live = FALSE, !.rv = @ + 1]
             \/ cre.live /\ cre' = [cre EXCEPT !.del = TRUE, !.rv = @ + 1]
      PROVE  Leaves
  <2>1. cre.live \in BOOLEAN /\ cre.del \in BOOLEAN
    BY <1>a DEF CREType
  <2>2. CASE cre' = [cre EXCEPT !.live = FALSE, !.rv = @ + 1]
    <3>1. cre' = [cre EXCEPT !.live = FALSE, !.del = cre.del, !.rv = @ + 1]
      BY <1>a, <2>2 DEF CREType
    <3> QED BY <2>1, <3>1 DEF Leaves
  <2>3. CASE cre.live /\ cre' = [cre EXCEPT !.del = TRUE, !.rv = @ + 1]
    <3>1. cre' = [cre EXCEPT !.live = cre.live, !.del = TRUE, !.rv = @ + 1]
      BY <1>a, <2>3 DEF CREType
    <3> QED BY <2>1, <2>3, <3>1 DEF Leaves
  <2> QED BY <1>3, <2>2, <2>3
<1>4. CASE UserDelete
  <2>1. left' \in Nat
    BY <1>4, <1>a, SpendTyped DEF UserDelete, Kinds
  <2> QED BY <1>3, <1>4, <2>1 DEF UserDelete
<1>5. CASE CollectCRE
  BY <1>3, <1>5, <1>a DEF CollectCRE
<1>6. ASSUME NEW n \in RunNames, CollectRun(n)
      PROVE  left' \in Nat /\ UNCHANGED <<cre, ccre, cpr, opVars>> /\ Remove(n)
  BY <1>6, <1>a DEF CollectRun
<1>7. ASSUME NEW n \in RunNames, PruneRun(n)
      PROVE  left' \in Nat /\ UNCHANGED <<cre, ccre, cpr, opVars>> /\ Remove(n)
  <2>1. left' \in Nat
    BY <1>7, <1>a, SpendTyped DEF PruneRun, Kinds
  <2> QED BY <1>7, <2>1 DEF PruneRun
<1>8. ASSUME NEW n \in RunNames, TektonStep(n)
      PROVE  left' \in Nat /\ UNCHANGED <<cre, ccre, cpr, opVars>> /\ Proceeds(n)
  <2>1. left' \in Nat /\ UNCHANGED <<cre, ccre, cpr, opVars>>
    BY <1>8, <1>a DEF TektonStep
  <2>2. CASE pr[n].st = "new"
    <3>1. PICK s \in {"running", "failed"} : Put(n, [pr[n] EXCEPT !.st = s])
      BY <1>8, <2>2 DEF TektonStep
    <3>2. pr[n] \in RunType /\ pr[n].won \in BOOLEAN
      BY <1>a DEF RunType
    <3>3. [pr[n] EXCEPT !.st = s] = [pr[n] EXCEPT !.st = s, !.won = pr[n].won]
      BY <3>2 DEF RunType
    <3>4. Put(n, [pr[n] EXCEPT !.st = s, !.won = pr[n].won])
      BY <3>1, <3>3
    <3>5. s \in {"running", "succeeded", "failed"} /\ s # "succeeded"
      OBVIOUS
    <3> QED BY <2>1, <2>2, <3>2, <3>4, <3>5 DEF Proceeds
  <2>3. CASE pr[n].st = "running"
    <3>1. PICK s \in {"succeeded", "failed"} :
              Put(n, [pr[n] EXCEPT !.st = s, !.won = @ \/ s = "succeeded"])
      BY <1>8, <2>3 DEF TektonStep
    <3>2. s \in {"running", "succeeded", "failed"}
          /\ (pr[n].won \/ s = "succeeded") \in BOOLEAN
      OBVIOUS
    <3> QED BY <2>1, <2>3, <3>1, <3>2 DEF Proceeds
  <2> QED BY <1>8, <2>1, <2>2, <2>3 DEF TektonStep
<1> QED BY <1>1, <1>2, <1>4, <1>5, <1>6, <1>7, <1>8
        DEF Cluster, UserCreate, UserEdit, UserDelete, CollectCRE

LEMMA TypeCluster ==
    ASSUME TypeInv, Cluster
    PROVE  TypeInv'
<1>0. cre \in CREType
  BY DEF TypeInv, TypeOK
<1>a. cre \in CREType /\ left' \in Nat /\ pr \in [RunNames -> RunType]
      /\ Named(cre) /\ (pc \in {"pipe", "status"} <=> w.live)
      /\ UNCHANGED <<ccre, cpr, opVars>>
  BY ClusterSteps DEF TypeInv, TypeOK, Readings
<1>1. ASSUME cre' \in CREType, cre'.rv > cre.rv, Named(cre'), UNCHANGED runs
      PROVE  TypeInv'
  <2>1. TypeOK'
    BY <1>1, <1>a DEF runs, opVars, TypeInv, TypeOK
  <2> QED BY <1>1, <1>a, <2>1, ReadingsKept DEF opVars, SameReading, TypeInv
<1>2. ASSUME UNCHANGED cre, NEW n \in RunNames, NEW run \in RunType, Put(n, run)
      PROVE  TypeInv'
  <2>1. TypeOK'
    BY <1>2, <1>a, RunTyped DEF Put, opVars, TypeInv, TypeOK
  <2> QED BY <1>2, <1>a, <2>1, ReadingsKept DEF opVars, SameReading, TypeInv
<1>3. CASE Submitted /\ UNCHANGED runs
  BY <1>0, <1>1, <1>3, SubmittedTyped, BoundsAssumption DEF Named, CREType
<1>4. CASE Modified /\ UNCHANGED runs
  BY <1>0, <1>1, <1>4, ModifiedTyped DEF Named, CREType
<1>5. CASE Leaves /\ UNCHANGED runs
  BY <1>0, <1>1, <1>5, <1>a, LeavesTyped DEF Named, CREType
<1>6. ASSUME UNCHANGED cre, NEW n \in RunNames, Proceeds(n) PROVE TypeInv'
  <2>1. PICK s \in {"running", "succeeded", "failed"}, b \in BOOLEAN :
            Put(n, [pr[n] EXCEPT !.st = s, !.won = b])
    BY <1>6 DEF Proceeds
  <2>2. [pr[n] EXCEPT !.st = s, !.won = b] \in RunType
    BY <1>a DEF RunType
  <2> QED BY <1>2, <1>6, <2>1, <2>2
<1>7. ASSUME UNCHANGED cre, NEW n \in RunNames, Remove(n) PROVE TypeInv'
  <2>1. [pr[n] EXCEPT !.st = "absent", !.params = {}, !.again = TRUE] \in RunType
    BY <1>a DEF RunType
  <2> QED BY <1>2, <1>7, <2>1 DEF Remove
<1> QED BY <1>3, <1>4, <1>5, <1>6, <1>7, ClusterSteps

LEMMA TypeNext == TypeInv /\ [Next]_vars => TypeInv'
<1>1. ASSUME TypeInv, UNCHANGED vars PROVE TypeInv'
  BY <1>1 DEF vars, runs, opVars, TypeInv, TypeOK, Readings, Coherent, Named
<1> QED BY <1>1, TypeWorker, TypeManager, TypeCluster DEF Next

\* Every reachable state is well typed: whatever copy a step starts from, it names
\* a run that there can be, and its conditions are ones the controller sets.
THEOREM CRETypeCorrect == Spec => []TypeOK
<1>1. TypeInv => TypeOK
  BY DEF TypeInv
<1> QED BY <1>1, TypeInit, TypeNext, PTL DEF Spec

-----------------------------------------------------------------------------
(* The runs there have been *)

\* What has been of a run stays so.
RunsGoOn ==
    \A n \in RunNames : (pr[n].won => pr'[n].won) /\ (pr[n].again => pr'[n].again)

LEMMA HistoryPut ==
    ASSUME TypeInv, History, UNCHANGED cpr,
           NEW n \in RunNames, NEW run \in RunType, Put(n, run),
           pr[n].won => run.won, pr[n].again => run.again,
           run.st = "succeeded" => run.won,
           run.won /\ ~run.again => run.st = "succeeded"
    PROVE  History' /\ RunsGoOn
<1>1. \A m \in RunNames : pr'[m] = IF m = n THEN run ELSE pr[m]
  BY DEF Put, TypeInv, TypeOK
<1> QED BY <1>1 DEF History, RunsGoOn

LEMMA HistoryNext ==
    ASSUME TypeInv, History, [Next]_vars
    PROVE  History' /\ RunsGoOn
<1>a. pr \in [RunNames -> RunType] /\ cpr \in [RunNames -> RunType] /\ w \in CREType
  BY DEF TypeInv, TypeOK
<1>1. ASSUME UNCHANGED pr, UNCHANGED cpr PROVE History' /\ RunsGoOn
  BY <1>1 DEF History, RunsGoOn
<1>2. CASE Worker
  <2>1. CASE CreatePipelineRun
    <3> DEFINE n == RunName(w)
    <3>1. w.live /\ n \in RunNames /\ w.spec \in SpecType /\ w.uid \in Nat
      BY <1>a, <2>1, SpecsAssumption
      DEF CreatePipelineRun, TypeInv, Readings, Named, RunName, RunNames, CREType
    <3>2. CASE UNCHANGED runs
      BY <1>1, <2>1, <3>2 DEF runs, CreatePipelineRun
    <3>3. CASE /\ pr[n].st = "absent"
               /\ Put(n, [pr[n] EXCEPT !.st = "new", !.owner = w.uid,
                                       !.params = params(w.spec)])
      <4> DEFINE run == [pr[n] EXCEPT !.st = "new", !.owner = w.uid,
                                      !.params = params(w.spec)]
      <4>1. params(w.spec) \subseteq ParamNames
        BY <3>1, ParamsType
      <4>2. /\ run \in RunType /\ run.won = pr[n].won /\ run.again = pr[n].again
            /\ run.st = "new"
        BY <1>a, <3>1, <4>1 DEF RunType
      <4>3. ~(pr[n].won /\ ~pr[n].again)
        BY <3>1, <3>3 DEF History
      <4>4. UNCHANGED cpr
        BY <2>1 DEF CreatePipelineRun
      <4> HIDE DEF run, n
      <4> QED BY <3>1, <3>3, <4>2, <4>3, <4>4, HistoryPut DEF run
    <3> QED BY <2>1, <3>2, <3>3 DEF CreatePipelineRun
  <2>2. ASSUME ~CreatePipelineRun PROVE UNCHANGED <<pr, cpr>>
    BY <1>2, <2>2 DEF Worker, ReconcileNothing, Reconcile, GetPipelineRunFails,
                      ReportPipelineRun, UpdateStatus, runs
  <2> QED BY <1>1, <2>1, <2>2
<1>3. CASE Manager
  <2>1. CASE SyncCRE \/ Crash
    BY <1>1, <2>1 DEF SyncCRE, Crash, runs
  <2>2. ASSUME UNCHANGED pr, cpr' \in [RunNames -> RunType],
               \A n \in RunNames : cpr'[n] \in {cpr[n], pr[n]}
        PROVE  History' /\ RunsGoOn
    BY <2>2 DEF History, RunsGoOn
  <2>3. CASE Restart
    BY <1>a, <2>2, <2>3 DEF Restart
  <2>4. ASSUME NEW n \in RunNames, SyncRun(n) PROVE History' /\ RunsGoOn
    BY <1>a, <2>2, <2>4 DEF SyncRun
  <2> QED BY <1>3, <2>1, <2>3, <2>4 DEF Manager
<1>4. CASE Cluster
  <2>1. UNCHANGED cpr
    BY <1>4, ClusterSteps
  <2>2. CASE UNCHANGED runs
    BY <1>1, <2>1, <2>2 DEF runs
  <2>3. ASSUME NEW n \in RunNames, Proceeds(n) PROVE History' /\ RunsGoOn
    <3>1. PICK s \in {"running", "succeeded", "failed"}, b \in BOOLEAN :
              /\ pr[n].st \in {"new", "running"} /\ (b <=> pr[n].won \/ s = "succeeded")
              /\ Put(n, [pr[n] EXCEPT !.st = s, !.won = b])
      BY <2>3 DEF Proceeds
    <3> DEFINE run == [pr[n] EXCEPT !.st = s, !.won = b]
    <3>2. /\ run \in RunType /\ run.st = s /\ run.again = pr[n].again
          /\ (run.won <=> pr[n].won \/ s = "succeeded")
      BY <1>a, <3>1 DEF RunType
    <3>3. pr[n].won => pr[n].again
      BY <3>1 DEF History
    <3>4. Put(n, run)
      BY <3>1
    <3> HIDE DEF run
    <3> QED BY <2>1, <3>2, <3>3, <3>4, HistoryPut
  <2>4. ASSUME NEW n \in RunNames, Remove(n) PROVE History' /\ RunsGoOn
    <3> DEFINE run == [pr[n] EXCEPT !.st = "absent", !.params = {}, !.again = TRUE]
    <3>1. run \in RunType /\ run.st = "absent" /\ run.again /\ run.won = pr[n].won
      BY <1>a DEF RunType
    <3>2. Put(n, run)
      BY <2>4 DEF Remove
    <3> HIDE DEF run
    <3> QED BY <2>1, <3>1, <3>2, HistoryPut
  <2> QED BY <1>4, <2>2, <2>3, <2>4, ClusterSteps
<1> QED BY <1>1, <1>2, <1>3, <1>4 DEF Next, vars, runs

-----------------------------------------------------------------------------
(* What statuses claim of builds *)

\* b is of a's resource, of its generation or a later one, and claims no more.
Inherits(b, a) ==
    b.live =>
        /\ a.live /\ a.gen <= b.gen
        /\ b.gen = 1 \/ ~Switches => b.spec.bt = a.spec.bt
        /\ \A t \in ReadyTypes : IsTrue(b.st.conds, t) => IsTrue(a.st.conds, t)
        /\ b.st.phase = "Succeeded" => a.st.phase = "Succeeded"

LEMMA BuiltLater ==
    ASSUME NEW r1, NEW r2, \A n \in RunNames : r1[n].won => r2[n].won,
           NEW a \in CREType, NEW b \in CREType, Named(a), a.live, a.gen <= b.gen,
           b.gen = 1 \/ ~Switches => b.spec.bt = a.spec.bt,
           NEW p, Built(r1, a, p)
    PROVE  Built(r2, b, p)
<1>1. a.gen \in Nat /\ b.gen \in Nat /\ a.gen >= 1
  BY BoundsAssumption DEF Named, CREType
<1>2. PICK g \in 1..a.gen : <<g, p>> \in RunNames /\ r1[<<g, p>>].won
  BY DEF Built
<1>3. g \in 1..b.gen /\ r2[<<g, p>>].won
  BY <1>1, <1>2
<1>4. b.gen = 1 => a.gen = 1
  BY <1>1
<1> QED BY <1>2, <1>3, <1>4 DEF Built

LEMMA BackedLater ==
    ASSUME NEW r1, NEW r2, \A n \in RunNames : r1[n].won => r2[n].won,
           NEW a \in CREType, NEW b \in CREType, Named(a), Inherits(b, a), Backed(r1, a)
    PROVE  Backed(r2, b)
BY BuiltLater DEF Backed, Inherits

\* The run a copy names has won: a build of its pipeline.
LEMMA NamedBuilt ==
    ASSUME NEW rs, NEW c \in CREType, c.live, Named(c), rs[RunName(c)].won
    PROVE  Built(rs, c, build_types[c.spec.bt])
<1>1. c.gen \in 1..c.gen /\ RunName(c) \in RunNames
  BY BoundsAssumption DEF Named, RunName, RunNames
<1> QED BY <1>1 DEF Built, RunName

\* Conditions that a step adds to the copy are backed as the run it saw is.
LEMMA CondsBacked ==
    ASSUME StatusInv, RunsGoOn, w.live, NEW conds \in CondsType, WithConds(conds),
           \A t \in ReadyTypes : IsTrue(conds, t) =>
               \/ IsTrue(w.st.conds, t)
               \/ /\ cpr[RunName(w)].st = "succeeded"
                  /\ build_types[w.spec.bt] = PipelineOf(t)
    PROVE  Backed(pr', w')
<1>1. w \in CREType /\ Named(w) /\ Backed(pr, w)
  BY DEF StatusInv, TypeInv, TypeOK, Readings
<1>2. /\ w' \in CREType /\ SameReading(w', w)
      /\ w'.st.conds = conds /\ w'.st.phase = w.st.phase
  BY <1>1, CondsTyped
<1>3. ASSUME NEW p, Built(pr, w, p) PROVE Built(pr', w', p)
  <2>1. w.gen <= w'.gen /\ w'.spec.bt = w.spec.bt
    BY <1>1, <1>2 DEF SameReading, CREType
  <2> QED BY <1>1, <1>2, <1>3, <2>1, BuiltLater DEF RunsGoOn
<1>4. cpr[RunName(w)].st = "succeeded" => Built(pr, w, build_types[w.spec.bt])
  <2>1. RunName(w) \in RunNames
    BY <1>1 DEF Named, RunName, RunNames
  <2> QED BY <1>1, <2>1, NamedBuilt DEF StatusInv, History
<1>5. \A t \in ReadyTypes : IsTrue(conds, t) => Built(pr, w, PipelineOf(t))
  BY <1>1, <1>4 DEF Backed
<1> QED BY <1>1, <1>2, <1>3, <1>5 DEF Backed

LEMMA StatusInit == Init => StatusInv
<1> SUFFICES ASSUME Init PROVE StatusInv
  OBVIOUS
<1>1. History
  BY DEF Init, History, NoRun
<1>2. Backed(pr, cre) /\ Backed(pr, ccre) /\ Backed(pr, w)
  BY EmptyTyped DEF Init, Backed
<1> QED BY <1>1, <1>2, TypeInit DEF StatusInv

\* Every copy is one there was, or claims no more than it.
LEMMA AllBacked ==
    ASSUME StatusInv, TypeInv', History', RunsGoOn,
           Inherits(cre', cre) \/ Backed(pr', cre'),
           ccre' = ccre \/ ccre' = cre,
           w' = w \/ w' = ccre \/ Backed(pr', w')
    PROVE  StatusInv'
<1>1. \A n \in RunNames : pr[n].won => pr'[n].won
  BY DEF RunsGoOn
<1>2. /\ cre \in CREType /\ ccre \in CREType /\ w \in CREType
      /\ Named(cre) /\ Named(ccre) /\ Named(w)
      /\ cre' \in CREType
  BY DEF StatusInv, TypeInv, TypeOK, Readings
<1>3. ASSUME NEW c \in CREType, Named(c), Backed(pr, c) PROVE Backed(pr', c)
  <2>1. Inherits(c, c)
    BY <1>3 DEF Inherits, CREType
  <2> QED BY <1>1, <1>3, <2>1, BackedLater
<1>4. Backed(pr', cre')
  BY <1>1, <1>2, BackedLater DEF StatusInv
<1>5. Backed(pr', ccre') /\ Backed(pr', w')
  BY <1>2, <1>3 DEF StatusInv
<1> QED BY <1>4, <1>5 DEF StatusInv, Backed, Built

\* A status that is written claims what the copy's conditions do.
LEMMA WrittenBacked ==
    ASSUME StatusInv, pc = "status", cre.live, cre.rv = w.rv,
           cre' = [cre EXCEPT !.st = NewStatus, !.rv = @ + 1]
    PROVE  Backed(pr, cre')
<1>1. /\ cre \in CREType /\ w \in CREType /\ w.live /\ Coherent(cre, w) /\ Named(w)
      /\ Backed(pr, w)
  BY DEF StatusInv, TypeInv, TypeOK, Readings
<1>2. NewStatus \in StatusType /\ NewStatus.conds = w.st.conds
      /\ NewStatus.phase = AggregatePhase(w.st.conds)
  BY <1>1, NewStatusTyped
<1>3. cre' \in CREType /\ cre'.st = NewStatus /\ cre'.gen = cre.gen /\ cre'.spec = cre.spec
  BY <1>1, <1>2, StoredTyped
<1>4. w.gen = cre.gen /\ w.spec = cre.spec
  BY <1>1 DEF Coherent
<1>5. \A p : Built(pr, w, p) => Built(pr, cre', p)
  BY <1>3, <1>4 DEF Built
<1>6. \A t \in ReadyTypes : IsTrue(w.st.conds, t) => Built(pr, w, PipelineOf(t))
  BY <1>1 DEF Backed
<1>7. cre'.st.phase = "Succeeded" => \E t \in ReadyTypes : IsTrue(w.st.conds, t)
  BY <1>2, <1>3, PhaseReady
<1> QED BY <1>2, <1>3, <1>5, <1>6, <1>7 DEF Backed

\* The steps at which the copy gets conditions.
Looks == CreatePipelineRun \/ GetPipelineRunFails \/ ReportPipelineRun

\* They leave everything but the runs, and give conditions whose ready ones were
\* true before or come from a run the cache has as succeeded.
LEMMA LooksConds ==
    ASSUME TypeInv, Looks
    PROVE  /\ w.live /\ RunName(w) \in RunNames /\ UNCHANGED <<cre, ccre, cpr>>
           /\ pc = "pipe" /\ pc' = "status"
           /\ \E conds \in CondsType :
                 /\ WithConds(conds)
                 /\ \A t \in ReadyTypes : IsTrue(conds, t) =>
                       \/ IsTrue(w.st.conds, t)
                       \/ /\ cpr[RunName(w)].st = "succeeded"
                          /\ build_types[w.spec.bt] = PipelineOf(t)
                 /\ (/\ cpr[RunName(w)].st = "succeeded"
                     /\ AggregatePhase(w.st.conds) = "Succeeded")
                        => AggregatePhase(conds) = "Succeeded"
<1>1. /\ w.live /\ RunName(w) \in RunNames /\ w.st.conds \in CondsType
      /\ w.spec \in SpecType
  BY SpecsAssumption
  DEF Looks, CreatePipelineRun, GetPipelineRunFails, ReportPipelineRun, TypeInv, TypeOK,
      Readings, Named, RunName, RunNames, CREType, StatusType, CondsType
<1>2. UNCHANGED <<cre, ccre, cpr>> /\ pc = "pipe" /\ pc' = "status"
  BY DEF Looks, CreatePipelineRun, GetPipelineRunFails, ReportPipelineRun
<1>3. CASE CreatePipelineRun
  <2>1. {"AlreadyExists", "InternalError"} \subseteq Reasons
    BY DEF Reasons
  <2> DEFINE Same(cs) == cs \in CondsType /\ \A t \in ReadyTypes : IsTrue(cs, t) <=> IsTrue(w.st.conds, t)
  <2>a. \A err \in Reasons : Same(CreateFailed(w.st.conds, err))
    BY <1>1, CreatedTyped
  <2>b. Same(Created(w.st.conds))
    BY <1>1, <2>1, CreatedTyped
  <2>2. PICK conds \in CondsType : WithConds(conds) /\ Same(conds)
    <3> HIDE DEF Same
    <3>1. \/ WithConds(Created(w.st.conds))
          \/ WithConds(CreateFailed(w.st.conds, "AlreadyExists"))
          \/ WithConds(CreateFailed(w.st.conds, "InternalError"))
      BY <1>3 DEF CreatePipelineRun
    <3>2. \A cs : Same(cs) => cs \in CondsType
      BY DEF Same
    <3> QED BY <2>1, <2>a, <2>b, <3>1, <3>2
  <2>3. cpr[RunName(w)].st # "succeeded"
    BY <1>3 DEF CreatePipelineRun
  <2> QED BY <1>1, <1>2, <2>2, <2>3
<1>4. CASE GetPipelineRunFails
  <2> DEFINE conds == Set(w.st.conds, "GenericPipelineError", "True",
                          "PipelineRunGenericError")
  <2>1. "PipelineRunGenericError" \in Reasons /\ "GenericPipelineError" \in Types
    BY DEF Reasons, Types
  <2>2. conds \in CondsType
    BY <1>1, <2>1, SetTyped
  <2>3. \A t \in ReadyTypes : IsTrue(conds, t) <=> IsTrue(w.st.conds, t)
    <3>1. \A t \in ReadyTypes : t \in Types /\ t # "GenericPipelineError"
      BY DEF ReadyTypes, Types
    <3> QED BY <1>1, <2>1, <3>1, SetOther
  <2>4. AggregatePhase(w.st.conds) = "Succeeded" => AggregatePhase(conds) = "Succeeded"
    BY <1>1, PhaseKept
  <2>5. WithConds(conds)
    BY <1>4 DEF GetPipelineRunFails
  <2> HIDE DEF conds
  <2> QED BY <1>1, <1>2, <2>2, <2>3, <2>4, <2>5
<1>5. CASE ReportPipelineRun
  <2> DEFINE p == build_types[w.spec.bt]
             run == cpr[RunName(w)].st
             conds == Reported(w.st.conds, p, run)
  <2>1. p \in Pipelines
    BY <1>1 DEF SpecType, build_types, Pipelines
  <2>2. run \in {"new", "running", "succeeded", "failed"}
    BY <1>1, <1>5 DEF ReportPipelineRun, RunType, TypeInv, TypeOK
  <2>3. WithConds(conds)
    BY <1>5 DEF ReportPipelineRun
  <2> HIDE DEF p, run
  <2>4. /\ conds \in CondsType
        /\ \A t \in ReadyTypes :
              IsTrue(conds, t) => IsTrue(w.st.conds, t) \/ (run = "succeeded" /\ p = PipelineOf(t))
    BY <1>1, <2>1, <2>2, ReportedTyped
  <2>5. run = "succeeded" /\ AggregatePhase(w.st.conds) = "Succeeded"
            => AggregatePhase(conds) = "Succeeded"
    BY <1>1, <2>1, PhaseKept
  <2> HIDE DEF conds
  <2> QED BY <1>1, <1>2, <2>3, <2>4, <2>5 DEF p, run
<1> QED BY <1>3, <1>4, <1>5 DEF Looks

LEMMA StatusNext == StatusInv /\ [Next]_vars => StatusInv'
<1> SUFFICES ASSUME StatusInv, [Next]_vars PROVE StatusInv'
  OBVIOUS
<1>a. TypeInv' /\ History' /\ RunsGoOn
  BY TypeNext, HistoryNext DEF StatusInv
<1>b. cre \in CREType /\ Inherits(cre, cre)
  BY DEF StatusInv, TypeInv, TypeOK, Inherits, CREType
<1>c. Backed(pr', NoCRE)
  BY EmptyTyped DEF Backed
<1>1. CASE UNCHANGED vars
  BY <1>1, <1>a, <1>b, AllBacked DEF vars, opVars
<1>2. CASE Worker
  <2>1. CASE ReconcileNothing \/ Reconcile
    BY <1>a, <1>b, <2>1, AllBacked DEF ReconcileNothing, Reconcile
  <2>2. CASE Looks
    <3>1. Backed(pr', w')
      BY <1>a, <2>2, LooksConds, CondsBacked DEF StatusInv
    <3>2. UNCHANGED <<cre, ccre>>
      BY <2>2, LooksConds DEF StatusInv
    <3> QED BY <1>a, <1>b, <3>1, <3>2, AllBacked
  <2>3. CASE UpdateStatus
    <3>1. w' = NoCRE /\ UNCHANGED <<ccre, pr>>
      BY <2>3 DEF UpdateStatus, Return, runs
    <3>2. CASE cre' = cre
      BY <1>a, <1>b, <1>c, <3>1, <3>2, AllBacked
    <3>3. CASE cre' # cre
      <4>1. /\ pc = "status" /\ cre.live /\ cre.rv = w.rv
            /\ cre' = [cre EXCEPT !.st = NewStatus, !.rv = @ + 1]
        BY <2>3, <3>3 DEF UpdateStatus
      <4>2. Backed(pr', cre')
        BY <3>1, <4>1, WrittenBacked
      <4> QED BY <1>a, <1>c, <3>1, <4>2, AllBacked
    <3> QED BY <3>2, <3>3
  <2> QED BY <1>2, <2>1, <2>2, <2>3 DEF Worker, Looks
<1>3. CASE Manager
  <2>1. cre' = cre /\ ccre' \in {ccre, cre} /\ (w' = w \/ w' = NoCRE)
    BY <1>3 DEF Manager, SyncCRE, Crash, Restart, SyncRun
  <2> QED BY <1>a, <1>b, <1>c, <2>1, AllBacked
<1>4. CASE Cluster
  <2>1. UNCHANGED <<ccre, w>>
    BY <1>4, ClusterSteps DEF opVars, StatusInv
  <2>2. CASE Submitted
    <3>1. ~\E t \in ReadyTypes : IsTrue(NoConds, t)
      BY DEF ReadyTypes, IsTrue, NoConds, NoCond, Types
    <3>2. Backed(pr', cre')
      <4>1. EmptyStatus.conds = NoConds /\ EmptyStatus.phase # "Succeeded"
        BY DEF EmptyStatus
      <4>2. cre'.st = EmptyStatus
        BY <1>b, <2>2, SubmittedTyped
      <4> QED BY <3>1, <4>1, <4>2 DEF Backed
    <3> QED BY <1>a, <2>1, <3>2, AllBacked
  <2>3. CASE Modified \/ Leaves
    <3>1. Inherits(cre', cre)
      BY <1>b, <2>3, ModifiedTyped, LeavesTyped DEF Inherits, CREType
    <3> QED BY <1>a, <2>1, <3>1, AllBacked
  <2>4. CASE UNCHANGED cre
    BY <1>a, <1>b, <2>1, <2>4, AllBacked
  <2> QED BY <1>4, <2>2, <2>3, <2>4, ClusterSteps DEF StatusInv
<1> QED BY <1>1, <1>2, <1>3, <1>4 DEF Next

\* Of every generation, incarnation and history of failures: what is reported as
\* a success was built, if not for this generation then for an earlier one, and in
\* the pipeline of the spec in the first generation and unless edits change the
\* build type (AggregatePhase, reconcilePipelineRun).
THEOREM SuccessIsBacked == Spec => []SuccessWasBuilt
<1>1. StatusInv => SuccessWasBuilt
  BY DEF StatusInv, Backed, SuccessWasBuilt, ReadyTypes, PipelineOf
<1> QED BY <1>1, StatusInit, StatusNext, PTL DEF Spec

\* Until the first edit of the spec, phase Succeeded means that the run of the
\* resource's one generation succeeded; a failed Get, lost writes, stale copies
\* and earlier resources of the name do not change that (AggregatePhase).
THEOREM FirstSuccessIsBuilt ==
    Spec => [](cre.live /\ cre.gen = 1 /\ cre.st.phase = "Succeeded" => Run.won)
<1>1. StatusInv => (cre.live /\ cre.gen = 1 /\ cre.st.phase = "Succeeded" => Run.won)
  <2> SUFFICES ASSUME StatusInv, cre.gen = 1, cre.live, cre.st.phase = "Succeeded"
               PROVE  Run.won
    OBVIOUS
  <2>1. PICK p : Built(pr, cre, p)
    BY DEF StatusInv, Backed
  <2>2. \A g \in 1..cre.gen : g = cre.gen
    OBVIOUS
  <2> QED BY <2>1, <2>2 DEF Built, Run, RunName
<1> QED BY <1>1, StatusInit, StatusNext, PTL DEF Spec

-----------------------------------------------------------------------------
(* A success is final *)

LEMMA FinalInit == Init => FinalInv
<1> SUFFICES ASSUME Init PROVE FinalInv
  OBVIOUS
<1>1. /\ Seen(pr, cpr, cre) /\ Seen(pr, cpr, ccre) /\ Seen(pr, cpr, w)
      /\ Keeps(pr, cre, ccre) /\ Keeps(pr, cre, w)
  BY EmptyTyped DEF Init, Seen, Keeps
<1>2. cre.st.phase # "Succeeded"
  BY DEF Init, NoCRE, EmptyStatus
<1> QED BY <1>1, <1>2, StatusInit DEF FinalInv

\* What the cache has as succeeded it keeps so, unless somebody took the run away.
CacheGoesOn ==
    \A n \in RunNames :
        cpr[n].st = "succeeded" /\ ~pr'[n].again => cpr'[n].st = "succeeded"

LEMMA CacheNext ==
    ASSUME StatusInv, [Next]_vars
    PROVE  CacheGoesOn
<1>1. CASE UNCHANGED cpr
  BY <1>1 DEF CacheGoesOn
<1>2. CASE pr' = pr /\ \A n \in RunNames : cpr'[n] \in {cpr[n], pr[n]}
  BY <1>2 DEF CacheGoesOn, StatusInv, History
<1>3. CASE Worker
  BY <1>1, <1>3 DEF Worker, ReconcileNothing, Reconcile, CreatePipelineRun,
                    GetPipelineRunFails, ReportPipelineRun, UpdateStatus
<1>4. CASE Manager
  <2>1. CASE SyncCRE \/ Crash
    BY <1>1, <2>1 DEF SyncCRE, Crash
  <2>2. CASE Restart
    BY <1>2, <2>2 DEF Restart
  <2>3. ASSUME NEW n \in RunNames, SyncRun(n) PROVE CacheGoesOn
    BY <1>2, <2>3 DEF SyncRun, StatusInv, TypeInv, TypeOK
  <2> QED BY <1>4, <2>1, <2>2, <2>3 DEF Manager
<1>5. CASE Cluster
  BY <1>1, <1>5, ClusterSteps DEF StatusInv
<1> QED BY <1>1, <1>3, <1>4, <1>5 DEF Next, vars

LEMMA SeenLater ==
    ASSUME NEW r1, NEW r2, NEW c1, NEW c2,
           \A n \in RunNames : r1[n].again => r2[n].again,
           \A n \in RunNames :
               c1[n].st = "succeeded" /\ ~r2[n].again => c2[n].st = "succeeded",
           NEW a \in CREType, NEW b \in CREType, Named(a), Inherits(b, a), Seen(r1, c1, a)
    PROVE  Seen(r2, c2, b)
<1> SUFFICES ASSUME b.live, b.gen = 1, ~r2[RunName(b)].again,
                    b.st.phase = "Succeeded" \/ \E t \in ReadyTypes : IsTrue(b.st.conds, t)
             PROVE  c2[RunName(b)].st = "succeeded"
  BY DEF Seen
<1>1. a.live /\ a.gen <= 1 /\ b.spec.bt = a.spec.bt
  BY DEF Inherits
<1>2. a.gen = 1 /\ RunName(a) \in RunNames
  BY <1>1, BoundsAssumption DEF Named, RunName, RunNames
<1>3. RunName(b) = RunName(a)
  BY <1>1, <1>2 DEF RunName
<1>4. c1[RunName(a)].st = "succeeded"
  BY <1>1, <1>2, <1>3 DEF Seen, Inherits
<1> QED BY <1>2, <1>3, <1>4

\* How the copies go on, for both parts of the invariant.
LEMMA AllFinal ==
    ASSUME FinalInv, StatusInv', RunsGoOn, CacheGoesOn,
           Inherits(cre', cre) \/ Seen(pr', cpr', cre'),
           \/ cre' = cre
           \/ /\ cre'.rv > cre.rv
              /\ cre'.st.phase = "Succeeded" => AggregatePhase(cre'.st.conds) = "Succeeded",
           ccre' = ccre \/ (ccre' = cre /\ cre' = cre),
           \/ w' = w
           \/ w' = ccre /\ ccre' = ccre /\ cre' = cre
           \/ ~w'.live
           \/ Seen(pr', cpr', w') /\ Keeps(pr', cre', w')
    PROVE  FinalInv'
<1>0. \A n \in RunNames : pr[n].again => pr'[n].again
  BY DEF RunsGoOn
<1>1. /\ cre \in CREType /\ ccre \in CREType /\ w \in CREType
      /\ Named(cre) /\ Named(ccre) /\ Named(w) /\ cre' \in CREType
      /\ Coherent(cre, ccre) /\ Coherent(cre, w)
  BY DEF FinalInv, StatusInv, TypeInv, TypeOK, Readings
<1>2. ASSUME NEW c \in CREType, Named(c), Seen(pr, cpr, c) PROVE Seen(pr', cpr', c)
  <2>1. Inherits(c, c)
    BY <1>2 DEF Inherits, CREType
  <2> QED BY <1>0, <1>2, <2>1, SeenLater DEF CacheGoesOn
<1>3. Seen(pr', cpr', cre')
  BY <1>0, <1>1, SeenLater DEF FinalInv, CacheGoesOn
<1>4. Seen(pr', cpr', ccre')
  BY <1>1, <1>2 DEF FinalInv
<1>5. Seen(pr', cpr', w')
  <2>1. ~w'.live => Seen(pr', cpr', w')
    BY DEF Seen
  <2> QED BY <1>1, <1>2, <2>1 DEF FinalInv
<1>6. ASSUME NEW c \in CREType, Named(c), Coherent(cre, c), Keeps(pr, cre, c)
      PROVE  Keeps(pr', cre', c)
  <2>1. CASE cre' = cre
    <3>1. c.live => RunName(c) \in RunNames
      BY <1>6 DEF Named, RunName, RunNames
    <3> QED BY <1>0, <1>6, <2>1, <3>1 DEF Keeps
  <2>2. CASE cre'.rv > cre.rv
    <3>1. c.live => c.rv < cre'.rv /\ c.rv \in Nat
      BY <1>1, <1>6, <2>2 DEF Coherent, CREType
    <3> QED BY <1>1, <3>1 DEF Keeps, CREType
  <2> QED BY <2>1, <2>2
<1>7. Keeps(pr', cre', ccre')
  <2>1. CASE ccre' = ccre
    BY <1>1, <1>6, <2>1 DEF FinalInv
  <2>2. CASE ccre' = cre /\ cre' = cre
    BY <2>2 DEF FinalInv, Keeps
  <2> QED BY <2>1, <2>2
<1>8. Keeps(pr', cre', w')
  <2>1. ~w'.live => Keeps(pr', cre', w')
    BY DEF Keeps
  <2> QED BY <1>1, <1>6, <2>1 DEF FinalInv
<1>9. cre'.st.phase = "Succeeded" => AggregatePhase(cre'.st.conds) = "Succeeded"
  BY DEF FinalInv
<1> QED BY <1>3, <1>4, <1>5, <1>7, <1>8, <1>9 DEF FinalInv, Seen, Keeps

\* A status write over the copy's version stores what the copy has seen.
LEMMA WrittenSeen ==
    ASSUME FinalInv, pc = "status", cre.live, cre.rv = w.rv,
           cre' = [cre EXCEPT !.st = NewStatus, !.rv = @ + 1]
    PROVE  /\ Seen(pr, cpr, cre') /\ cre'.rv > cre.rv
           /\ cre'.st.phase = AggregatePhase(w.st.conds)
           /\ cre'.st.phase = AggregatePhase(cre'.st.conds)
           /\ w.live /\ w.gen = cre.gen /\ RunName(w) = RunName(cre)
<1>1. /\ cre \in CREType /\ w \in CREType /\ w.live /\ Coherent(cre, w)
  BY DEF FinalInv, StatusInv, TypeInv, TypeOK, Readings
<1>2. NewStatus \in StatusType /\ NewStatus.conds = w.st.conds
      /\ NewStatus.phase = AggregatePhase(w.st.conds)
  BY <1>1, NewStatusTyped
<1>3. /\ cre' \in CREType /\ cre'.st = NewStatus /\ cre'.gen = cre.gen
      /\ cre'.spec = cre.spec /\ cre'.rv = cre.rv + 1
  BY <1>1, <1>2, StoredTyped
<1>4. w.gen = cre.gen /\ w.spec = cre.spec
  BY <1>1 DEF Coherent
<1>5. RunName(cre') = RunName(w) /\ RunName(w) = RunName(cre)
  BY <1>3, <1>4 DEF RunName
<1>6. cre'.st.phase = "Succeeded" => \E t \in ReadyTypes : IsTrue(w.st.conds, t)
  BY <1>2, <1>3, PhaseReady
<1>7. Seen(pr, cpr, cre')
  BY <1>1, <1>2, <1>3, <1>4, <1>5, <1>6 DEF FinalInv, Seen
<1>8. cre'.rv > cre.rv
  BY <1>1, <1>3 DEF CREType
<1> QED BY <1>1, <1>2, <1>3, <1>4, <1>5, <1>7, <1>8

LEMMA LooksFinal ==
    ASSUME FinalInv, RunsGoOn, Looks
    PROVE  Seen(pr', cpr', w') /\ Keeps(pr', cre', w')
<1>1. PICK conds \in CondsType :
          /\ WithConds(conds)
          /\ \A t \in ReadyTypes : IsTrue(conds, t) =>
                \/ IsTrue(w.st.conds, t)
                \/ /\ cpr[RunName(w)].st = "succeeded"
                   /\ build_types[w.spec.bt] = PipelineOf(t)
          /\ (/\ cpr[RunName(w)].st = "succeeded"
              /\ AggregatePhase(w.st.conds) = "Succeeded")
                 => AggregatePhase(conds) = "Succeeded"
  BY LooksConds DEF FinalInv, StatusInv
<1>2. w.live /\ RunName(w) \in RunNames /\ UNCHANGED <<cre, ccre, cpr>>
  BY LooksConds DEF FinalInv, StatusInv
<1>3. w \in CREType /\ Named(w) /\ Coherent(cre, w)
  BY DEF FinalInv, StatusInv, TypeInv, TypeOK, Readings
<1>4. /\ w' \in CREType /\ SameReading(w', w)
      /\ w'.st.conds = conds /\ w'.st.phase = w.st.phase
  BY <1>1, <1>2, <1>3, CondsTyped
<1>5. RunName(w') = RunName(w) /\ (~pr'[RunName(w)].again => ~pr[RunName(w)].again)
  BY <1>2, <1>4 DEF SameReading, RunName, RunsGoOn
<1>6. Seen(pr', cpr', w')
  BY <1>1, <1>2, <1>4, <1>5 DEF FinalInv, Seen, SameReading
<1>7. Keeps(pr', cre', w')
  <2> SUFFICES ASSUME w.gen = 1, w.rv = cre.rv, ~pr'[RunName(w)].again,
                      cre.st.phase = "Succeeded"
               PROVE  AggregatePhase(conds) = "Succeeded"
    BY <1>2, <1>4, <1>5 DEF Keeps, SameReading
  <2>1. cre.live /\ cre.gen = 1 /\ RunName(cre) = RunName(w)
    BY <1>2, <1>3 DEF Coherent, RunName
  <2>2. cpr[RunName(w)].st = "succeeded"
    BY <1>5, <2>1 DEF FinalInv, Seen
  <2>3. AggregatePhase(w.st.conds) = "Succeeded"
    BY <1>2, <1>5 DEF FinalInv, Keeps
  <2> QED BY <1>1, <2>2, <2>3
<1> QED BY <1>6, <1>7

LEMMA FinalNext == FinalInv /\ [Next]_vars => FinalInv'
<1> SUFFICES ASSUME FinalInv, [Next]_vars PROVE FinalInv'
  OBVIOUS
<1>a. StatusInv' /\ RunsGoOn /\ CacheGoesOn
  BY StatusNext, HistoryNext, CacheNext DEF FinalInv, StatusInv
<1>b. cre \in CREType /\ cre' \in CREType /\ Inherits(cre, cre)
  BY <1>a DEF FinalInv, StatusInv, TypeInv, TypeOK, Inherits, CREType
<1>1. CASE UNCHANGED vars
  BY <1>1, <1>a, <1>b, AllFinal DEF vars, opVars
<1>2. CASE Worker
  <2>1. CASE ReconcileNothing \/ Reconcile
    BY <1>a, <1>b, <2>1, AllFinal DEF ReconcileNothing, Reconcile
  <2>2. CASE Looks
    <3>1. Seen(pr', cpr', w') /\ Keeps(pr', cre', w')
      BY <1>a, <2>2, LooksFinal
    <3>2. UNCHANGED <<cre, ccre>>
      BY <2>2, LooksConds DEF FinalInv, StatusInv
    <3> QED BY <1>a, <1>b, <3>1, <3>2, AllFinal
  <2>3. CASE UpdateStatus
    <3>1. w' = NoCRE /\ ~w'.live /\ UNCHANGED <<ccre, pr, cpr>>
      BY <2>3, EmptyTyped DEF UpdateStatus, Return, runs
    <3>2. CASE cre' = cre
      BY <1>a, <1>b, <3>1, <3>2, AllFinal
    <3>3. CASE cre' # cre
      <4>1. /\ pc = "status" /\ cre.live /\ cre.rv = w.rv
            /\ cre' = [cre EXCEPT !.st = NewStatus, !.rv = @ + 1]
        BY <2>3, <3>3 DEF UpdateStatus
      <4>2. /\ Seen(pr', cpr', cre') /\ cre'.rv > cre.rv
            /\ cre'.st.phase = AggregatePhase(cre'.st.conds)
        BY <3>1, <4>1, WrittenSeen
      <4> QED BY <1>a, <3>1, <4>2, AllFinal
    <3> QED BY <3>2, <3>3
  <2> QED BY <1>2, <2>1, <2>2, <2>3 DEF Worker, Looks
<1>3. CASE Manager
  <2>1. /\ cre' = cre /\ ccre' \in {ccre, cre}
        /\ w' = w \/ (w' = NoCRE /\ ~w'.live)
    BY <1>3, EmptyTyped DEF Manager, SyncCRE, Crash, Restart, SyncRun
  <2> QED BY <1>a, <1>b, <2>1, AllFinal
<1>4. CASE Cluster
  <2>1. UNCHANGED <<ccre, w>>
    BY <1>4, ClusterSteps DEF opVars, FinalInv, StatusInv
  <2>2. CASE Submitted
    <3>1. ~\E t \in ReadyTypes : IsTrue(NoConds, t)
      BY DEF ReadyTypes, IsTrue, NoConds, NoCond, Types
    <3>2. EmptyStatus.conds = NoConds /\ EmptyStatus.phase # "Succeeded"
      BY DEF EmptyStatus
    <3>3. cre'.st = EmptyStatus /\ cre'.rv > cre.rv
      BY <1>b, <2>2, SubmittedTyped DEF CREType
    <3>4. Seen(pr', cpr', cre') /\ cre'.st.phase # "Succeeded"
      BY <3>1, <3>2, <3>3 DEF Seen
    <3> QED BY <1>a, <2>1, <3>3, <3>4, AllFinal
  <2>3. CASE Modified \/ Leaves
    <3>1. Inherits(cre', cre) /\ cre'.rv > cre.rv /\ cre'.st = cre.st
      BY <1>b, <2>3, ModifiedTyped, LeavesTyped DEF Inherits, CREType
    <3>2. cre'.st.phase = "Succeeded" => AggregatePhase(cre'.st.conds) = "Succeeded"
      BY <3>1 DEF FinalInv
    <3> QED BY <1>a, <2>1, <3>1, <3>2, AllFinal
  <2>4. CASE UNCHANGED cre
    BY <1>a, <1>b, <2>1, <2>4, AllFinal
  <2> QED BY <1>4, <2>2, <2>3, <2>4, ClusterSteps DEF FinalInv, StatusInv
<1> QED BY <1>1, <1>2, <1>3, <1>4 DEF Next

\* In the first generation no step takes a success back while its run is there:
\* neither a late write of an old copy nor a reconcile that fails to see the run.
LEMMA FinalStep == FinalInv /\ [Next]_vars => KeepsSuccess
<1> SUFFICES ASSUME FinalInv, [Next]_vars, cre.gen = 1, cre.live,
                    cre.st.phase = "Succeeded", ~Run.again, cre'.uid = cre.uid
             PROVE  cre'.st.phase = "Succeeded"
  BY DEF KeepsSuccess, UpToDate, Stays
<1>a. cre \in CREType
  BY DEF FinalInv, StatusInv, TypeInv, TypeOK
<1>1. CASE UNCHANGED cre
  BY <1>1
<1>2. CASE UpdateStatus /\ cre' # cre
  <2>1. /\ pc = "status" /\ cre.live /\ cre.rv = w.rv
        /\ cre' = [cre EXCEPT !.st = NewStatus, !.rv = @ + 1]
    BY <1>2 DEF UpdateStatus
  <2>2. /\ cre'.st.phase = AggregatePhase(w.st.conds)
        /\ w.live /\ w.gen = 1 /\ RunName(w) = RunName(cre)
    BY <2>1, WrittenSeen
  <2> QED BY <2>1, <2>2 DEF FinalInv, Keeps, Run
<1>3. CASE Cluster
  <2>1. CASE Submitted
    <3>1. cre'.uid = cre.uid + 1 /\ cre.uid \in Nat
      BY <1>a, <2>1, SubmittedTyped DEF CREType
    <3> QED BY <3>1
  <2>2. CASE Modified \/ Leaves
    BY <1>a, <2>2, ModifiedTyped, LeavesTyped
  <2> QED BY <1>1, <1>3, <2>1, <2>2, ClusterSteps DEF FinalInv, StatusInv
<1>4. CASE Manager
  BY <1>1, <1>4 DEF Manager, SyncCRE, Crash, Restart, SyncRun
<1>5. CASE Worker /\ ~UpdateStatus
  BY <1>1, <1>5 DEF Worker, ReconcileNothing, Reconcile, CreatePipelineRun,
                    GetPipelineRunFails, ReportPipelineRun
<1> QED BY <1>1, <1>2, <1>3, <1>4, <1>5 DEF Next, vars

\* A build reported as a success stays one until the spec is edited, whatever is
\* stale, lost, crashes or is created again (Reconcile, reconcilePipelineRun).
THEOREM FirstSuccessIsFinal == Spec => SuccessIsFinal
<1>1. FinalInv /\ [Next]_vars => [KeepsSuccess]_vars
  BY FinalStep
<1> QED BY <1>1, FinalInit, FinalNext, PTL DEF Spec, SuccessIsFinal
=============================================================================
