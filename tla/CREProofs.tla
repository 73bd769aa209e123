----------------------------- MODULE CREProofs -----------------------------
(***************************************************************************)
(* A proof about CRE for every set of specs and every bound: with the      *)
(* webhook in front, the runs of a package list pass its rules.            *)
(***************************************************************************)
EXTENDS CRE, TLAPS

-----------------------------------------------------------------------------
(* The inductive invariant *)

\* A copy of the resource, whatever its status: a live one has a generation
\* and a spec that was admitted.
Fit(c) ==
    /\ c \in [live : BOOLEAN, uid : Nat, rv : Nat, gen : Nat, del : BOOLEAN,
              spec : Specs \cup {NoSpec}, st : {c.st}]
    /\ c.live => c.gen \in 1..MaxGen /\ c.spec \in Specs /\ Admitted(c.spec)

\* The resource, the cache and the worker's copy are fit, so that the spec a
\* run is created from was admitted however old the copy is.
CopiesFit ==
    /\ Fit(cre) /\ Fit(ccre) /\ Fit(w)
    /\ pc \in {"idle", "pipe", "status", "down"}
    /\ pc = "pipe" => w.live

RunsInv == CopiesFit /\ pr \in [RunNames -> RunType] /\ RunsValidated

-----------------------------------------------------------------------------
(* What a run is created with *)

\* What RunsValidated asks of one run.
Complete(n, ps) ==
    n[2] = "package-list" =>
        /\ "packages" \in ps
        /\ \/ "baseImage" \in ps
           \/ {"osVersion", "osName", "pythonVersion"} \subseteq ps

\* The parameters are the ones the pipelines know.
LEMMA ParamsType ==
    ASSUME NEW s \in SpecType
    PROVE  params(s) \subseteq ParamNames
<1>2. ASSUME NEW p \in Sources(s) PROVE p[1] \in ParamNames
  <2>1. CASE s.bt = "ImageImport"
    BY <1>2, <2>1 DEF Sources, ParamNames
  <2>2. CASE s.bt = "GitRepository"
    BY <1>2, <2>2 DEF Sources, ParamNames
  <2>3. CASE s.bt = "PackageList"
    BY <1>2, <2>3 DEF Sources, ParamNames
  <2> QED BY <2>1, <2>2, <2>3 DEF SpecType
<1> QED BY <1>2 DEF params, ParamNames

\* A package list's build type is the only one of that pipeline.
LEMMA PackageListBuilds ==
    ASSUME NEW s \in SpecType, build_types[s.bt] = "package-list"
    PROVE  s.bt = "PackageList"
BY DEF SpecType, build_types

\* What the webhook admits gives complete parameters
\* (ValidateCustomRuntimeEnvironment, reconcilePipelineRun).
LEMMA AdmittedComplete ==
    ASSUME Webhooks, NEW s \in SpecType, Admitted(s), NEW g
    PROVE  Complete(<<g, build_types[s.bt]>>, params(s))
<1>1. ValidateCustomRuntimeEnvironment(s)
  BY DEF Admitted
<1>3. ASSUME build_types[s.bt] = "package-list"
      PROVE  /\ "packages" \in params(s)
             /\ \/ "baseImage" \in params(s)
                \/ {"osVersion", "osName", "pythonVersion"} \subseteq params(s)
  <2>1. s.bt = "PackageList"
    BY <1>3, PackageListBuilds
  <2>2. ValidatePackageList(s)
    BY <1>1, <2>1 DEF ValidateCustomRuntimeEnvironment
  <2>3. ASSUME NEW p, NEW f \in s.fields, <<p, f>> \in Sources(s)
        PROVE  p \in params(s)
    <3>1. <<p, f>> \in {q \in Sources(s) : q[2] \in s.fields}
      BY <2>3
    <3> QED BY <3>1 DEF params
  <2>4. <<"packages", "packageVersions">> \in Sources(s)
    BY <2>1 DEF Sources
  <2>5. "packages" \in params(s)
    BY <2>2, <2>3, <2>4 DEF ValidatePackageList
  <2>6. CASE "baseImage" \in s.fields
    <3>1. <<"baseImage", "baseImage">> \in Sources(s)
      BY <2>1, <2>6 DEF Sources
    <3> QED BY <2>3, <2>5, <2>6, <3>1
  <2>7. CASE "baseImage" \notin s.fields
    <3>1. {"pythonVersion", "osName", "osVersion"} \subseteq s.fields
      BY <2>2, <2>7 DEF ValidatePackageList, isValid
    <3>2. \A p \in {"osVersion", "osName", "pythonVersion"} : <<p, p>> \in Sources(s)
      BY <2>1, <2>7 DEF Sources
    <3>3. {"osVersion", "osName", "pythonVersion"} \subseteq params(s)
      BY <2>3, <3>1, <3>2
    <3> QED BY <2>5, <3>3
  <2> QED BY <2>6, <2>7
<1> QED BY <1>3 DEF Complete

\* A copy that is fit keeps being so when its status changes.
LEMMA StatusFree ==
    ASSUME NEW c, Fit(c), NEW st
    PROVE  Fit([c EXCEPT !.st = st]) /\ [c EXCEPT !.st = st].live = c.live
BY DEF Fit

\* A live, fit copy names a run, and its spec is one users submit.
LEMMA NamesRun ==
    ASSUME NEW c, Fit(c), c.live
    PROVE  /\ RunName(c) \in RunNames /\ c.spec \in SpecType /\ Admitted(c.spec)
           /\ c.uid \in Nat
BY SpecsAssumption DEF Fit, RunName, RunNames

\* A fit copy stays so when its deletion, or its removal, begins: what a copy
\* that is live must have does not change.
LEMMA Deleted ==
    ASSUME NEW c, Fit(c), NEW l \in BOOLEAN, NEW d \in BOOLEAN, l => c.live
    PROVE  Fit([c EXCEPT !.live = l, !.del = d, !.rv = c.rv + 1])
<1> DEFINE n == [c EXCEPT !.live = l, !.del = d, !.rv = c.rv + 1]
<1>1. c \in [live : BOOLEAN, uid : Nat, rv : Nat, gen : Nat, del : BOOLEAN,
             spec : Specs \cup {NoSpec}, st : {c.st}]
  BY DEF Fit
<1>2. /\ n \in [live : BOOLEAN, uid : Nat, rv : Nat, gen : Nat, del : BOOLEAN,
                spec : Specs \cup {NoSpec}, st : {c.st}]
      /\ n.live = l /\ n.gen = c.gen /\ n.spec = c.spec /\ n.st = c.st
  <2>1. c.rv + 1 \in Nat
    BY <1>1
  <2>2. \A r \in Nat :
            LET k == [c EXCEPT !.live = l, !.del = d, !.rv = r] IN
            /\ k \in [live : BOOLEAN, uid : Nat, rv : Nat, gen : Nat, del : BOOLEAN,
                      spec : Specs \cup {NoSpec}, st : {c.st}]
            /\ k.live = l /\ k.gen = c.gen /\ k.spec = c.spec /\ k.st = c.st
    BY <1>1
  <2> QED BY <2>1, <2>2
<1> HIDE DEF n
<1>3. Fit(n)
  BY <1>2 DEF Fit
<1> QED BY <1>3 DEF n

\* An edit leaves a fit copy when what it submits was admitted.
LEMMA Edited ==
    ASSUME NEW c, Fit(c), NEW s \in Specs, NEW g \in 1..MaxGen, Admitted(s)
    PROVE  Fit([c EXCEPT !.spec = s, !.rv = c.rv + 1, !.gen = g])
<1> DEFINE n == [c EXCEPT !.spec = s, !.rv = c.rv + 1, !.gen = g]
<1>1. c \in [live : BOOLEAN, uid : Nat, rv : Nat, gen : Nat, del : BOOLEAN,
             spec : Specs \cup {NoSpec}, st : {c.st}]
  BY DEF Fit
<1>2. /\ n \in [live : BOOLEAN, uid : Nat, rv : Nat, gen : Nat, del : BOOLEAN,
                spec : Specs \cup {NoSpec}, st : {c.st}]
      /\ n.gen = g /\ n.spec = s /\ n.st = c.st
  <2>1. c.rv + 1 \in Nat /\ g \in Nat
    BY <1>1, BoundsAssumption
  <2>2. \A r \in Nat, h \in Nat :
            LET k == [c EXCEPT !.spec = s, !.rv = r, !.gen = h] IN
            /\ k \in [live : BOOLEAN, uid : Nat, rv : Nat, gen : Nat, del : BOOLEAN,
                      spec : Specs \cup {NoSpec}, st : {c.st}]
            /\ k.gen = h /\ k.spec = s /\ k.st = c.st
    BY <1>1
  <2> QED BY <2>1, <2>2
<1> HIDE DEF n
<1>3. Fit(n)
  BY <1>2 DEF Fit
<1> QED BY <1>3 DEF n

LEMMA NoCREFit == Fit(NoCRE)
BY DEF Fit, NoCRE

\* Replacing one run by one that is absent or complete keeps every run typed
\* and complete.
LEMMA PutComplete ==
    ASSUME pr \in [RunNames -> RunType], RunsValidated,
           NEW n \in RunNames, NEW run \in RunType, Put(n, run),
           run.st = "absent" \/ Complete(n, run.params)
    PROVE  pr' \in [RunNames -> RunType] /\ RunsValidated'
BY DEF Put, RunsValidated, Complete

-----------------------------------------------------------------------------
(* The steps *)

LEMMA InitRuns == Init => RunsInv
BY NoCREFit DEF Init, RunsInv, CopiesFit, RunsValidated, NoRun, NoCRE, RunType

LEMMA WorkerRuns ==
    ASSUME Webhooks, RunsInv, Worker
    PROVE  RunsInv'
<1> USE DEF RunsInv
<1>1. CASE ReconcileNothing
  BY <1>1 DEF ReconcileNothing, CopiesFit, RunsValidated, runs
<1>2. CASE Reconcile
  BY <1>2 DEF Reconcile, CopiesFit, RunsValidated, runs
<1>3. CASE CreatePipelineRun
  <2> DEFINE n == RunName(w)
  <2>1. /\ n \in RunNames /\ w.spec \in SpecType /\ Admitted(w.spec) /\ w.uid \in Nat
        /\ Fit(w) /\ w.live
    BY <1>3, NamesRun DEF CreatePipelineRun, CopiesFit
  <2>2. CopiesFit'
    BY <1>3, <2>1, StatusFree DEF CreatePipelineRun, CopiesFit, WithConds
  <2>3. ASSUME Put(n, [pr[n] EXCEPT !.st = "new", !.owner = w.uid,
                                    !.params = params(w.spec)])
        PROVE  pr' \in [RunNames -> RunType] /\ RunsValidated'
    <3> DEFINE run == [pr[n] EXCEPT !.st = "new", !.owner = w.uid,
                                    !.params = params(w.spec)]
    <3>1. params(w.spec) \subseteq ParamNames
      BY <2>1, ParamsType
    <3>2. run \in RunType /\ run.params = params(w.spec)
      BY <2>1, <3>1 DEF RunType
    <3>3. Complete(n, run.params)
      BY <2>1, <3>2, AdmittedComplete DEF RunName
    <3> HIDE DEF run, n
    <3> QED BY <2>1, <2>3, <3>2, <3>3, PutComplete DEF run
  <2>4. ASSUME UNCHANGED runs
        PROVE  pr' \in [RunNames -> RunType] /\ RunsValidated'
    BY <2>4 DEF runs, RunsValidated
  <2> QED BY <1>3, <2>2, <2>3, <2>4 DEF CreatePipelineRun
<1>4. CASE GetPipelineRunFails
  BY <1>4, StatusFree
  DEF GetPipelineRunFails, CopiesFit, RunsValidated, runs, WithConds
<1>5. CASE ReportPipelineRun
  BY <1>5, StatusFree
  DEF ReportPipelineRun, CopiesFit, RunsValidated, runs, WithConds
<1>6. CASE UpdateStatus
  <2>1. Fit(cre')
    <3>1. Fit(cre) /\ cre.live \in BOOLEAN
      BY DEF CopiesFit, Fit
    <3> DEFINE c == [cre EXCEPT !.st = NewStatus]
    <3>2. Fit(c) /\ c.live = cre.live
      BY <3>1, StatusFree
    <3>3. cre' = cre \/ cre' = [c EXCEPT !.rv = @ + 1]
      <4>1. [cre EXCEPT !.st = NewStatus, !.rv = @ + 1] = [c EXCEPT !.rv = @ + 1]
        BY <3>1 DEF Fit
      <4> QED BY <1>6, <4>1 DEF UpdateStatus
    <3> HIDE DEF c
    <3>4. CASE cre' = [c EXCEPT !.rv = @ + 1]
      <4>1. cre' = [c EXCEPT !.live = c.live, !.del = c.del, !.rv = @ + 1]
        BY <3>2, <3>4 DEF Fit
      <4>2. c.live \in BOOLEAN /\ c.del \in BOOLEAN
        BY <3>2 DEF Fit
      <4> QED BY <3>2, <4>1, <4>2, Deleted
    <3> QED BY <3>1, <3>3, <3>4
  <2>2. UNCHANGED <<ccre, runs>> /\ w' = NoCRE /\ pc' = "idle"
    BY <1>6 DEF UpdateStatus, Return
  <2> QED BY <2>1, <2>2, NoCREFit DEF CopiesFit, RunsValidated, runs
<1> QED BY <1>1, <1>2, <1>3, <1>4, <1>5, <1>6 DEF Worker

LEMMA ManagerRuns ==
    ASSUME RunsInv, Manager
    PROVE  RunsInv'
<1> USE DEF RunsInv
<1>1. CASE SyncCRE
  BY <1>1 DEF SyncCRE, CopiesFit, RunsValidated, runs
<1>2. CASE Crash
  BY <1>2, NoCREFit DEF Crash, CopiesFit, RunsValidated, runs
<1>3. CASE Restart
  BY <1>3 DEF Restart, CopiesFit, RunsValidated
<1>4. ASSUME NEW n \in RunNames, SyncRun(n) PROVE RunsInv'
  BY <1>4 DEF SyncRun, CopiesFit, RunsValidated
<1> QED BY <1>1, <1>2, <1>3, <1>4 DEF Manager

LEMMA ClusterRuns ==
    ASSUME RunsInv, Cluster
    PROVE  RunsInv'
<1> USE DEF RunsInv
<1>1. ASSUME Fit(cre'), UNCHANGED <<runs, ccre, cpr, opVars>>
      PROVE  RunsInv'
  BY <1>1 DEF runs, opVars, CopiesFit, RunsValidated
<1>2. ASSUME NEW n \in RunNames, NEW run \in RunType, Put(n, run),
             run.st = "absent" \/ (run.params = pr[n].params /\ pr[n].st # "absent"),
             UNCHANGED <<cre, ccre, cpr, opVars>>
      PROVE  RunsInv'
  <2>1. run.st = "absent" \/ Complete(n, run.params)
    BY <1>2 DEF RunsValidated, Complete
  <2>2. pr' \in [RunNames -> RunType] /\ RunsValidated'
    BY <1>2, <2>1, PutComplete
  <2> QED BY <1>2, <2>2 DEF opVars, CopiesFit
<1>3. ASSUME NEW n \in RunNames, Remove(n), UNCHANGED <<cre, ccre, cpr, opVars>>
      PROVE  RunsInv'
  <2> DEFINE run == [pr[n] EXCEPT !.st = "absent", !.params = {}, !.again = TRUE]
  <2>1. run \in RunType /\ run.st = "absent"
    BY DEF RunType
  <2> QED BY <1>2, <1>3, <2>1 DEF Remove
<1>4. CASE UserCreate
  <2>1. UNCHANGED <<runs, ccre, cpr, opVars>>
    BY <1>4 DEF UserCreate
  <2>2. Fit(cre')
    <3>1. PICK s \in Specs :
              /\ Admitted(s)
              /\ cre' = [NoCRE EXCEPT !.live = TRUE, !.uid = cre.uid + 1,
                                      !.rv = cre.rv + 1, !.gen = 1, !.spec = s]
      BY <1>4 DEF UserCreate
    <3>2. cre.uid \in Nat /\ cre.rv \in Nat
      BY DEF CopiesFit, Fit
    <3>3. cre.uid + 1 \in Nat /\ cre.rv + 1 \in Nat /\ 1 \in 1..MaxGen
      BY <3>2, BoundsAssumption
    <3>4. cre' = [live |-> TRUE, uid |-> cre.uid + 1, rv |-> cre.rv + 1, gen |-> 1,
                  del |-> FALSE, spec |-> s, st |-> EmptyStatus]
      BY <3>1 DEF NoCRE
    <3>5. \A u \in Nat, r \in Nat :
              LET c == [live |-> TRUE, uid |-> u, rv |-> r, gen |-> 1, del |-> FALSE,
                        spec |-> s, st |-> EmptyStatus] IN
              Fit(c)
      BY <3>1, <3>3 DEF Fit
    <3> QED BY <3>3, <3>4, <3>5
  <2> QED BY <1>1, <2>1, <2>2
<1>5. CASE UserEdit
  <2>1. UNCHANGED <<runs, ccre, cpr, opVars>>
    BY <1>5 DEF UserEdit
  <2>2. Fit(cre) /\ cre.live
    BY <1>5 DEF UserEdit, CopiesFit
  <2>3. PICK s \in Specs, g \in 1..MaxGen :
            Admitted(s) /\ cre' = [cre EXCEPT !.spec = s, !.rv = @ + 1, !.gen = g]
    <3>1. cre.gen \in 1..MaxGen
      BY <2>2 DEF Fit
    <3>2. PICK s \in Specs :
              /\ Admitted(s)
              /\ LET meta == s.bt = cre.spec.bt /\ s.fields = cre.spec.fields IN
                 /\ meta \/ cre.gen < MaxGen
                 /\ cre' = [cre EXCEPT !.spec = s, !.rv = @ + 1,
                                       !.gen = IF meta THEN @ ELSE @ + 1]
      BY <1>5 DEF UserEdit
    <3> DEFINE meta == s.bt = cre.spec.bt /\ s.fields = cre.spec.fields
               g == IF meta THEN cre.gen ELSE cre.gen + 1
    <3>3. g \in 1..MaxGen
      BY <3>1, <3>2, BoundsAssumption
    <3>4. cre' = [cre EXCEPT !.spec = s, !.rv = @ + 1, !.gen = g]
      BY <3>2
    <3> QED BY <3>2, <3>3, <3>4
  <2>4. Fit(cre')
    BY <2>2, <2>3, Edited
  <2> QED BY <1>1, <2>1, <2>4
<1>6. CASE UserDelete
  <2>1. UNCHANGED <<runs, ccre, cpr, opVars>>
    BY <1>6 DEF UserDelete
  <2>2. Fit(cre) /\ cre.live \in BOOLEAN /\ cre.del \in BOOLEAN
    BY DEF CopiesFit, Fit
  <2>3. PICK l \in BOOLEAN, d \in BOOLEAN :
            /\ l => cre.live
            /\ cre' = [cre EXCEPT !.live = l, !.del = d, !.rv = @ + 1]
    <3>1. CASE cre' = [cre EXCEPT !.live = FALSE, !.rv = @ + 1]
      <4>1. cre' = [cre EXCEPT !.live = FALSE, !.del = cre.del, !.rv = @ + 1]
        BY <2>2, <3>1 DEF Fit
      <4> QED BY <2>2, <4>1
    <3>2. CASE cre' = [cre EXCEPT !.del = TRUE, !.rv = @ + 1]
      <4>1. cre' = [cre EXCEPT !.live = cre.live, !.del = TRUE, !.rv = @ + 1]
        BY <2>2, <3>2 DEF Fit
      <4> QED BY <2>2, <4>1
    <3> QED BY <1>6, <3>1, <3>2 DEF UserDelete
  <2>4. Fit(cre')
    BY <2>2, <2>3, Deleted
  <2> QED BY <1>1, <2>1, <2>4
<1>7. CASE CollectCRE
  <2>1. UNCHANGED <<runs, ccre, cpr, opVars>>
    BY <1>7 DEF CollectCRE
  <2>2. cre' = [cre EXCEPT !.live = FALSE, !.del = cre.del, !.rv = @ + 1]
    BY <1>7 DEF CollectCRE, CopiesFit, Fit
  <2>3. Fit(cre')
    BY <2>2, Deleted DEF CopiesFit, Fit
  <2> QED BY <1>1, <2>1, <2>3
<1>8. ASSUME NEW n \in RunNames, CollectRun(n) PROVE RunsInv'
  BY <1>3, <1>8 DEF CollectRun
<1>9. ASSUME NEW n \in RunNames, TektonStep(n) PROVE RunsInv'
  <2>1. UNCHANGED <<cre, ccre, cpr, opVars>>
    BY <1>9 DEF TektonStep
  <2>2. PICK s \in {"running", "succeeded", "failed"}, b \in BOOLEAN :
            Put(n, [pr[n] EXCEPT !.st = s, !.won = b]) /\ pr[n].st # "absent"
    <3>1. pr[n] \in RunType
      OBVIOUS
    <3>2. CASE pr[n].st = "new"
      <4>1. PICK s \in {"running", "failed"} : Put(n, [pr[n] EXCEPT !.st = s])
        BY <1>9, <3>2 DEF TektonStep
      <4>2. [pr[n] EXCEPT !.st = s] = [pr[n] EXCEPT !.st = s, !.won = pr[n].won]
        BY <3>1 DEF RunType
      <4>3. pr[n].won \in BOOLEAN
        BY <3>1 DEF RunType
      <4> QED BY <3>2, <4>1, <4>2, <4>3
    <3>3. CASE pr[n].st = "running"
      <4>1. PICK s \in {"succeeded", "failed"} :
                Put(n, [pr[n] EXCEPT !.st = s, !.won = @ \/ s = "succeeded"])
        BY <1>9, <3>3 DEF TektonStep
      <4>2. (pr[n].won \/ s = "succeeded") \in BOOLEAN
        OBVIOUS
      <4> QED BY <3>3, <4>1, <4>2
    <3> QED BY <1>9, <3>2, <3>3 DEF TektonStep
  <2> DEFINE run == [pr[n] EXCEPT !.st = s, !.won = b]
  <2>3. run \in RunType /\ run.params = pr[n].params
    BY DEF RunType
  <2> QED BY <1>2, <2>1, <2>2, <2>3
<1>10. ASSUME NEW n \in RunNames, PruneRun(n) PROVE RunsInv'
  BY <1>3, <1>10 DEF PruneRun
<1> QED BY <1>4, <1>5, <1>6, <1>7, <1>8, <1>9, <1>10 DEF Cluster

-----------------------------------------------------------------------------
(* The theorem *)

\* Under the webhook a run of a package list has packages, and a base image or
\* else a whole environment, whichever stale copy it was created from
\* (ValidateCustomRuntimeEnvironment, reconcilePipelineRun).
THEOREM RunsAreValidated ==
    ASSUME Webhooks
    PROVE  Spec => []RunsValidated
<1>1. Init => RunsInv
  BY InitRuns
<1>2. RunsInv /\ [Next]_vars => RunsInv'
  <2>1. CASE UNCHANGED vars
    BY <2>1 DEF vars, runs, opVars, RunsInv, CopiesFit, RunsValidated
  <2> QED BY <2>1, WorkerRuns, ManagerRuns, ClusterRuns DEF Next
<1>3. RunsInv => RunsValidated
  BY DEF RunsInv
<1> QED BY <1>1, <1>2, <1>3, PTL DEF Spec
=============================================================================
