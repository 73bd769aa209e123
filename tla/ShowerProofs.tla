---------------------------- MODULE ShowerProofs ----------------------------
(***************************************************************************)
(* Proofs about Shower, for every list of sub-reconcilers, every set of    *)
(* specs and every bound: its type invariant, what observedGeneration is   *)
(* worth, and that the garbage collector can find every object left over.  *)
(***************************************************************************)
EXTENDS Shower, TLAPS, WellFoundedInduction

-----------------------------------------------------------------------------
(* The inductive invariants *)

Reconciling == {"child", "status"}

\* A Shower that is there, in whichever reading, has a spec that users gave it.
Known ==
    /\ shower.live => shower.spec \in Specs
    /\ cshower.live => cshower.spec \in Specs
    /\ pc \in Reconciling => w.spec \in Specs

TypeInv == TypeOK /\ Known

\* A reading whose version has not moved on is right: the cache is the Shower,
\* and the worker's copy is of its incarnation, generation and spec.
ReadingsCurrent ==
    /\ Cached \notin lag => cshower = shower
    /\ pc \in Reconciling /\ Copied \notin lag =>
          /\ shower.live
          /\ w.uid = shower.uid /\ w.gen = shower.gen /\ w.spec = shower.spec

\* The copy speaks of its own generation, the Shower of none to come.
StatusInv ==
    /\ TypeInv /\ ReadingsCurrent
    /\ pc \in Reconciling => w.st.obs = w.gen /\ w.st.image = StatusImage(w.spec)
    /\ shower.live => shower.st.obs <= shower.gen
    /\ ObservedIsTrue

\* An object in the Shower's namespace has an incarnation that there has been as
\* its owner, one elsewhere has none.
Owned ==
    \A c \in Children :
        child[c].ex => IF IsHome(c) THEN child[c].owner \in 1..shower.uid
                       ELSE child[c].owner = 0

OwnerInv ==
    /\ TypeInv /\ Owned
    /\ shower.live => shower.uid # 0
    /\ cshower.live => cshower.uid \in 1..shower.uid
    /\ pc \in Reconciling => w.uid \in 1..shower.uid

-----------------------------------------------------------------------------
(* The list of sub-reconcilers *)

\* The places of the list are natural numbers, and so is the one after each.
LEMMA PlacesType ==
    ASSUME NEW spec \in Specs
    PROVE  /\ Places(spec) \subseteq Nat
           /\ \A i \in Nat : Following(spec, i) \in Nat
<1>1. Len(spec.ext) \in Nat
  BY SpecsAssumption DEF SpecType
<1>2. Len(HomeActions) \in Nat
  BY DEF HomeActions
<1>3. DOMAIN actions(spec) = 1..(Len(HomeActions) + 2 * Len(spec.ext))
  BY DEF actions
<1>4. Places(spec) \subseteq Nat
  <2>1. DOMAIN actions(spec) \subseteq Nat
    BY <1>1, <1>2, <1>3
  <2> QED BY <2>1 DEF Places
<1>5. ASSUME NEW i \in Nat PROVE Following(spec, i) \in Nat
  <2> DEFINE later == {j \in Places(spec) : i < j}
  <2>1. CASE later = {}
    BY <2>1 DEF Following
  <2>2. CASE later # {}
    <3>1. later \subseteq Nat
      BY <1>4
    <3>2. \E j \in later : \A k \in later : ~ (<<k, j>> \in OpToRel(<, Nat))
      BY <2>2, <3>1, WFMin, NatLessThanWellFounded, Zenon
    <3>3. \E j \in later : \A k \in later : ~ (k < j)
      BY <3>1, <3>2 DEF OpToRel
    <3>4. \E j \in later : \A k \in later : j <= k
      BY <3>1, <3>3
    <3>5. Following(spec, i) = CHOOSE j \in later : \A k \in later : j <= k
      BY <2>2 DEF Following
    <3> QED BY <3>1, <3>4, <3>5
  <2> QED BY <2>1, <2>2
<1> QED BY <1>4, <1>5

\* The object of a place is one of the Shower's.
LEMMA ChildFacts ==
    ASSUME Known, AtChild
    PROVE  Child \in Children /\ w.spec \in Specs
BY DEF Known, Reconciling, AtChild, Child, Children, Objects

LEMMA KindsKnown ==
    ASSUME NEW c \in Children
    PROVE  c[1] \in Modelled /\ c[1] # "Shower" /\ c # Cached /\ c # Copied
<1>1. c[1] \in Modelled
  BY DEF Children, Objects, Places
<1>2. "Shower" \notin Modelled
  BY ModelledAssumption DEF HomeActions, ExternalActions
<1> QED BY <1>1, <1>2 DEF Cached, Copied

-----------------------------------------------------------------------------
(* Objects *)

LEMMA ImagesType ==
    ASSUME NEW spec \in Specs
    PROVE  spec.image \in Images /\ StatusImage(spec) \in Images /\ spec.host \in Mains
           /\ spec.labels \in BOOLEAN /\ Images \subseteq Mains
BY SpecsAssumption DEF Images, Mains, Hosts, StatusImage, SpecType

\* What is asked of an object is something an object can say.
LEMMA DesiredType ==
    ASSUME NEW c, NEW s, s.spec \in Specs
    PROVE  Desired(c, s) \in Mains
<1>1. {"", "rules", "subjects", "ports", "endpoints"} \subseteq Mains
  BY DEF Mains
<1>2. StatusImage(s.spec) \in Mains /\ s.spec.host \in Mains
  BY ImagesType
<1> QED BY <1>1, <1>2
     DEF Desired, desiredRules, desiredSubjects, desiredPorts, desiredEndpoints

LEMMA StatedType ==
    ASSUME NEW c, NEW main \in Mains, NEW s, s.spec \in Specs
    PROVE  Stated(c, main, s) \in Mains
BY DesiredType DEF Stated

LEMMA NewType ==
    ASSUME NEW c \in Children, NEW s \in ShowerType, s.spec \in Specs
    PROVE  New(c, s) \in ChildType
<1>1. Stated(c, GeneratedHost, s) \in Mains
  BY StatedType DEF Mains, Hosts
<1>2. OwnerOf(c, s) \in Nat
  BY DEF OwnerOf, ShowerType
<1>3. s.spec.labels \in BOOLEAN
  BY ImagesType
<1> QED BY <1>1, <1>2, <1>3 DEF New, ChildType

LEMMA WrittenType ==
    ASSUME NEW c \in Children, NEW o \in ChildType, NEW s \in ShowerType, s.spec \in Specs
    PROVE  /\ Written(c, o, s) \in ChildType
           /\ Written(c, o, s).ex = o.ex /\ Written(c, o, s).owner = o.owner
<1> DEFINE main == Stated(c, o.main, s)
           labels == o.labels \/ (c[1] = "Route" /\ s.spec.labels)
<1>1. main \in Mains
  BY StatedType DEF ChildType
<1>2. labels \in BOOLEAN
  BY ImagesType DEF ChildType
<1>3. Written(c, o, s) = [o EXCEPT !.main = main, !.port = "http", !.labels = labels]
  BY DEF Written
<1> HIDE DEF main, labels
<1> QED BY <1>1, <1>2, <1>3 DEF ChildType

LEMMA NothingType ==
    /\ NoChild \in ChildType /\ ~NoChild.ex
    /\ NoShower \in ShowerType /\ ~NoShower.live
    /\ EmptyStatus \in StatusType /\ EmptyStatus.obs = 0
    /\ NoShower.st = EmptyStatus
<1>1. "" \in Mains /\ "" \in Images
  BY DEF Mains, Images
<1>2. NoChild \in ChildType /\ ~NoChild.ex
  BY <1>1 DEF NoChild, ChildType
<1>3. EmptyStatus \in StatusType /\ EmptyStatus.obs = 0
  BY <1>1 DEF EmptyStatus, StatusType, Reasons
<1> QED BY <1>2, <1>3 DEF NoShower, ShowerType

LEMMA RemovedType ==
    ASSUME NEW o \in ChildType
    PROVE  Removed(o) \in ChildType /\ ~Removed(o).ex
BY NothingType DEF Removed, ChildType

LEMMA GoneType ==
    ASSUME NEW s \in ShowerType
    PROVE  /\ Gone(s) \in ShowerType /\ ~Gone(s).live /\ Gone(s).uid = s.uid
BY NothingType DEF Gone, ShowerType

\* The refresh of a copy takes it to be about the present generation and spec.
LEMMA ObservedType ==
    ASSUME NEW s \in ShowerType, s.spec \in Specs
    PROVE  /\ Observed(s) \in ShowerType
           /\ Observed(s).uid = s.uid /\ Observed(s).gen = s.gen /\ Observed(s).spec = s.spec
           /\ Observed(s).st.obs = s.gen /\ Observed(s).st.image = StatusImage(s.spec)
<1> DEFINE st == [s.st EXCEPT !.obs = s.gen, !.image = StatusImage(s.spec),
                              !.phase = AggregatePhase(s.st)]
<1>1. StatusImage(s.spec) \in Images
  BY ImagesType
<1>2. AggregatePhase(s.st) \in {"", "Pending", "Succeeded"}
  BY DEF AggregatePhase
<1>3. s.st \in StatusType /\ s.gen \in Nat
  BY DEF ShowerType
<1>4. st \in StatusType /\ st.obs = s.gen /\ st.image = StatusImage(s.spec)
  BY <1>1, <1>2, <1>3 DEF StatusType
<1>5. Observed(s) = [s EXCEPT !.st = st]
  BY DEF Observed
<1> HIDE DEF st
<1> QED BY <1>4, <1>5 DEF ShowerType

\* What the worker learns of an object changes the condition and the URL only.
LEMMA LearntType ==
    ASSUME w \in ShowerType, NEW o \in ChildType, Learnt(o)
    PROVE  /\ w' \in ShowerType
           /\ w'.uid = w.uid /\ w'.gen = w.gen /\ w'.spec = w.spec
           /\ w'.st.obs = w.st.obs /\ w'.st.image = w.st.image
BY DEF Learnt, ShowerType, StatusType, ChildType, Reasons

LEMMA ConditionType ==
    ASSUME w \in ShowerType, NEW reason \in Reasons, SetDeploymentCondition(reason)
    PROVE  /\ w' \in ShowerType
           /\ w'.uid = w.uid /\ w'.gen = w.gen /\ w'.spec = w.spec
           /\ w'.st.obs = w.st.obs /\ w'.st.image = w.st.image
BY DEF SetDeploymentCondition, ShowerType, StatusType

-----------------------------------------------------------------------------
(* Types *)

LEMMA SpendType ==
    ASSUME left \in Nat, NEW kind, Spend(kind) \/ NoFault
    PROVE  left' \in Nat
BY DEF Spend, NoFault

LEMMA FailsType ==
    ASSUME left \in Nat, NEW reason, FailsIf(reason)
    PROVE  left' \in Nat
BY SpendType DEF FailsIf, Fault

\* Storing an object, or the Shower, leaves the rest to be what it was.
LEMMA StoreType ==
    ASSUME TypeOK, NEW c \in Children, NEW o \in ChildType, Store(c, o)
    PROVE  /\ child' \in [Children -> ChildType] /\ child'[c] = o
           /\ lag' \subseteq Children \cup {Cached, Copied}
BY DEF Store, TypeOK

LEMMA StoreShowerType ==
    ASSUME TypeOK, NEW s \in ShowerType, StoreShower(s)
    PROVE  shower' \in ShowerType /\ lag' \subseteq Children \cup {Cached, Copied}
BY DEF StoreShower, TypeOK

\* The worker goes on within the list, or to its end.
LEMMA DoneType ==
    ASSUME TypeOK, Known, AtChild, Done \/ Aborted
    PROVE  /\ idx' \in Nat /\ pc' \in Reconciling /\ err' \in BOOLEAN
           /\ pc' \in {"idle", "child", "status", "down", "panicked"}
<1>1. idx \in Nat /\ err \in BOOLEAN
  BY DEF TypeOK
<1>2. Following(w.spec, idx) \in Nat
  BY <1>1, ChildFacts, PlacesType
<1>3. CASE Done
  BY <1>1, <1>2, <1>3 DEF Done, Goto, Reconciling
<1>4. CASE Aborted
  BY <1>4 DEF Aborted, Goto, Reconciling
<1> QED BY <1>3, <1>4

LEMMA TypeWorker == TypeInv /\ Worker => TypeInv'
<1> SUFFICES ASSUME TypeOK, Known, Worker PROVE TypeInv'
  BY DEF TypeInv
<1>a. /\ shower \in ShowerType /\ cshower \in ShowerType /\ w \in ShowerType
      /\ child \in [Children -> ChildType] /\ cchild \in [Children -> ChildType]
      /\ left \in Nat /\ lag \subseteq Children \cup {Cached, Copied}
  BY DEF TypeOK
<1>1. CASE ReconcileNothing
  <2>1. left' \in Nat
    BY <1>1, <1>a, SpendType DEF ReconcileNothing, Fault
  <2> QED BY <1>1, <2>1 DEF ReconcileNothing, TypeInv, TypeOK, Known
<1>2. CASE Reconcile
  <2>1. cshower.spec \in Specs
    BY <1>2 DEF Reconcile, Known
  <2>2. w' \in ShowerType /\ w'.spec \in Specs
    BY <1>2, <1>a, <2>1, ObservedType DEF Reconcile
  <2>3. idx' \in Nat /\ pc' = "child"
    BY <1>2, <2>1, PlacesType DEF Reconcile, Goto
  <2> QED BY <1>2, <2>2, <2>3 DEF Reconcile, TypeInv, TypeOK, Known
<1>3. CASE CreateChild
  <2>1. Child \in Children /\ w.spec \in Specs /\ AtChild
    BY <1>3, ChildFacts DEF CreateChild
  <2>2. child' \in [Children -> ChildType] /\ lag' \subseteq Children \cup {Cached, Copied}
    BY <1>3, <1>a, <2>1, NewType, StoreType DEF CreateChild
  <2>3. w' \in ShowerType /\ w'.spec = w.spec
    BY <1>3, <1>a, ConditionType DEF CreateChild, Reasons
  <2>4. left' \in Nat
    BY <1>3, <1>a, SpendType, FailsType DEF CreateChild
  <2>5. Done \/ Aborted
    BY <1>3 DEF CreateChild
  <2> QED BY <1>3, <2>1, <2>2, <2>3, <2>4, <2>5, DoneType DEF CreateChild, TypeInv, TypeOK, Known
<1>4. CASE GetChildFails
  <2>1. left' \in Nat
    BY <1>4, <1>a, SpendType DEF GetChildFails, Fault
  <2>2. AtChild /\ Aborted /\ w.spec \in Specs
    BY <1>4, ChildFacts DEF GetChildFails
  <2> QED BY <1>4, <2>1, <2>2, DoneType DEF GetChildFails, TypeInv, TypeOK, Known
<1>5. CASE UpdateChild
  <2>1. Child \in Children /\ w.spec \in Specs /\ AtChild
    BY <1>5, ChildFacts DEF UpdateChild
  <2>2. Written(Child, child[Child], w) \in ChildType
    BY <1>a, <2>1, WrittenType
  <2>3. left' \in Nat
    BY <1>5, <1>a, SpendType, FailsType DEF UpdateChild
  <2>4. Done \/ Aborted
    BY <1>5 DEF UpdateChild
  <2>5. /\ child' \in [Children -> ChildType] /\ lag' \subseteq Children \cup {Cached, Copied}
        /\ w' \in ShowerType /\ w'.spec = w.spec
    <3>1. CASE Store(Child, Written(Child, child[Child], w)) /\ Learnt(child'[Child])
      <4>1. /\ child' \in [Children -> ChildType] /\ child'[Child] \in ChildType
            /\ lag' \subseteq Children \cup {Cached, Copied}
        BY <2>1, <2>2, <3>1, StoreType
      <4> QED BY <1>a, <3>1, <4>1, LearntType
    <3>2. CASE UNCHANGED <<child, lag, w>>
      BY <1>a, <3>2
    <3> QED BY <1>5, <3>1, <3>2 DEF UpdateChild
  <2> QED BY <1>5, <2>1, <2>3, <2>4, <2>5, DoneType DEF UpdateChild, TypeInv, TypeOK, Known
<1>6. CASE KeepChild
  <2>1. Child \in Children /\ w.spec \in Specs /\ AtChild
    BY <1>6, ChildFacts DEF KeepChild
  <2>2. w' \in ShowerType /\ w'.spec = w.spec
    BY <1>6, <1>a, <2>1, LearntType DEF KeepChild
  <2>3. Done
    BY <1>6 DEF KeepChild
  <2> QED BY <1>6, <2>1, <2>2, <2>3, DoneType DEF KeepChild, TypeInv, TypeOK, Known
<1>7. CASE Panic
  BY <1>7, NothingType DEF Panic, Forget, Goto, TypeInv, TypeOK, Known, Reconciling
<1>8. CASE ChildrenDone
  BY <1>8 DEF ChildrenDone, Goto, TypeInv, TypeOK, Known, Reconciling
<1>9. CASE UpdateStatusNow
  <2>1. left' \in Nat
    BY <1>9, <1>a, SpendType, FailsType DEF UpdateStatusNow
  <2>2. /\ shower' \in ShowerType /\ shower'.live = shower.live /\ shower'.spec = shower.spec
        /\ lag' \subseteq Children \cup {Cached, Copied} /\ queue' \in BOOLEAN
    BY <1>9, <1>a DEF UpdateStatusNow, ShowerType, TypeOK
  <2>3. /\ pc' = "idle" /\ idx' = 0 /\ w' = NoShower /\ err' = FALSE
        /\ UNCHANGED <<child, cshower, cchild>>
    BY <1>9 DEF UpdateStatusNow, Goto
  <2> QED BY <2>1, <2>2, <2>3, NothingType DEF TypeInv, TypeOK, Known, Reconciling
<1> QED BY <1>1, <1>2, <1>3, <1>4, <1>5, <1>6, <1>7, <1>8, <1>9 DEF Worker

LEMMA TypeManager == TypeInv /\ Manager => TypeInv'
<1> SUFFICES ASSUME TypeOK, Known, Manager PROVE TypeInv'
  BY DEF TypeInv
<1>a. left \in Nat
  BY DEF TypeOK
<1>1. CASE SyncShower
  BY <1>1 DEF SyncShower, TypeInv, TypeOK, Known
<1>2. CASE MeteorEvent \/ Crash
  <2>1. left' \in Nat
    BY <1>2, <1>a, SpendType DEF MeteorEvent, Crash
  <2>2. CASE MeteorEvent
    BY <2>1, <2>2 DEF MeteorEvent, TypeInv, TypeOK, Known
  <2>3. CASE Crash
    BY <2>1, <2>3, NothingType
    DEF Crash, Forget, Goto, TypeInv, TypeOK, Known, Reconciling
  <2> QED BY <1>2, <2>2, <2>3
<1>3. CASE Restart
  BY <1>3 DEF Restart, Goto, Up, TypeInv, TypeOK, Known, Reconciling, ShowerType
<1>4. ASSUME NEW c \in Children, SyncChild(c) PROVE TypeInv'
  BY <1>4 DEF SyncChild, TypeInv, TypeOK, Known
<1> QED BY <1>1, <1>2, <1>3, <1>4 DEF Manager

LEMMA TypeCluster == TypeInv /\ Cluster => TypeInv'
<1> SUFFICES ASSUME TypeOK, Known, Cluster PROVE TypeInv'
  BY DEF TypeInv
<1>a. /\ left \in Nat /\ shower \in ShowerType /\ child \in [Children -> ChildType]
  BY DEF TypeOK
<1>1. ASSUME NEW s \in ShowerType, StoreShower(s), s.live => s.spec \in Specs,
             UNCHANGED <<child, cshower, cchild, opVars>>, left' \in Nat
      PROVE  TypeInv'
  <2>1. shower' \in ShowerType /\ lag' \subseteq Children \cup {Cached, Copied} /\ shower' = s
    BY <1>1, StoreShowerType DEF StoreShower
  <2> QED BY <1>1, <2>1 DEF TypeInv, TypeOK, Known, opVars
<1>2. ASSUME NEW c \in Children, NEW o \in ChildType, Store(c, o),
             UNCHANGED <<shower, cshower, cchild, opVars>>, left' \in Nat
      PROVE  TypeInv'
  <2>1. child' \in [Children -> ChildType] /\ lag' \subseteq Children \cup {Cached, Copied}
    BY <1>2, StoreType
  <2> QED BY <1>2, <2>1 DEF TypeInv, TypeOK, Known, opVars
<1>3. CASE UserCreate
  <2>1. PICK s \in Specs :
            StoreShower([NoShower EXCEPT !.live = TRUE, !.uid = shower.uid + 1,
                                         !.gen = 1, !.spec = s])
    BY <1>3 DEF UserCreate
  <2>2. shower.uid + 1 \in Nat
    BY <1>a DEF ShowerType
  <2>3. /\ [NoShower EXCEPT !.live = TRUE, !.uid = shower.uid + 1, !.gen = 1, !.spec = s]
              \in ShowerType
        /\ [NoShower EXCEPT !.live = TRUE, !.uid = shower.uid + 1, !.gen = 1, !.spec = s].spec
              \in Specs
    BY <2>2, NothingType DEF ShowerType
  <2> QED BY <1>3, <1>a, <1>1, <2>1, <2>3 DEF UserCreate
<1>4. CASE UserEdit
  <2>1. PICK s \in Specs \ {shower.spec} :
            StoreShower([shower EXCEPT !.spec = s, !.gen = @ + 1])
    BY <1>4 DEF UserEdit
  <2>2. /\ [shower EXCEPT !.spec = s, !.gen = @ + 1] \in ShowerType
        /\ [shower EXCEPT !.spec = s, !.gen = @ + 1].spec \in Specs
    <3>1. shower.gen + 1 \in Nat
      BY <1>a DEF ShowerType
    <3> QED BY <1>a, <3>1 DEF ShowerType
  <2>3. left' \in Nat
    BY <1>4, <1>a, SpendType DEF UserEdit
  <2> QED BY <1>4, <1>1, <2>1, <2>2, <2>3 DEF UserEdit
<1>5. CASE UserDelete
  <2>1. left' \in Nat
    BY <1>5, <1>a, SpendType DEF UserDelete
  <2>2. Gone(shower) \in ShowerType /\ ~Gone(shower).live
    BY <1>a, GoneType
  <2>3. /\ [shower EXCEPT !.del = TRUE] \in ShowerType
        /\ [shower EXCEPT !.del = TRUE].spec = shower.spec
        /\ [shower EXCEPT !.del = TRUE].live = shower.live
    BY <1>a DEF ShowerType
  <2>4. CASE StoreShower(Gone(shower))
    BY <1>5, <1>1, <2>1, <2>2, <2>4 DEF UserDelete
  <2>5. CASE StoreShower([shower EXCEPT !.del = TRUE])
    <3> DEFINE s == [shower EXCEPT !.del = TRUE]
    <3>1. s \in ShowerType /\ (s.live => s.spec \in Specs)
      BY <2>3 DEF Known
    <3> HIDE DEF s
    <3> QED BY <1>5, <1>1, <2>1, <2>5, <3>1 DEF UserDelete, s
  <2> QED BY <1>5, <2>4, <2>5 DEF UserDelete
<1>6. CASE CollectShower
  BY <1>6, <1>a, <1>1, GoneType DEF CollectShower
<1>7. ASSUME NEW c \in Children, LoseChild(c) \/ CollectChild(c) PROVE TypeInv'
  <2>1. left' \in Nat
    BY <1>7, <1>a, SpendType DEF LoseChild, CollectChild
  <2>2. Removed(child[c]) \in ChildType
    BY <1>a, RemovedType
  <2> QED BY <1>7, <1>2, <2>1, <2>2 DEF LoseChild, CollectChild
<1>8. ASSUME NEW c \in Children, DriftChild(c) PROVE TypeInv'
  <2>1. left' \in Nat
    BY <1>8, <1>a, SpendType DEF DriftChild
  <2>2. "drifted" \in Mains
    BY DEF Mains
  <2>3. /\ [child[c] EXCEPT !.main = "drifted"] \in ChildType
        /\ [child[c] EXCEPT !.port = "other"] \in ChildType
    BY <1>a, <2>2 DEF ChildType
  <2> QED BY <1>8, <1>2, <2>1, <2>3 DEF DriftChild
<1>9. ASSUME NEW c \in Children, PodsChange(c) PROVE TypeInv'
  <2>1. left' \in Nat
    BY <1>9, <1>a, SpendType DEF PodsChange
  <2>2. [child[c] EXCEPT !.avail = ~@] \in ChildType
    BY <1>a DEF ChildType
  <2> QED BY <1>9, <1>2, <2>1, <2>2 DEF PodsChange
<1> QED BY <1>3, <1>4, <1>5, <1>6, <1>7, <1>8, <1>9 DEF Cluster

LEMMA TypeInit == Init => TypeInv
<1> SUFFICES ASSUME Init PROVE TypeInv
  OBVIOUS
<1>1. \A c \in Children : [d \in Children |-> NoChild][c] \in ChildType
  BY NothingType
<1> QED BY <1>1, NothingType, BoundsAssumption DEF Init, TypeInv, TypeOK, Known, Reconciling

LEMMA TypeNext == TypeInv /\ [Next]_vars => TypeInv'
<1>1. ASSUME TypeInv, UNCHANGED vars PROVE TypeInv'
  BY <1>1 DEF vars, opVars, TypeInv, TypeOK, Known
<1> QED BY <1>1, TypeWorker, TypeManager, TypeCluster DEF Next

\* Every reachable state is well typed: whichever copy a reconcile works from,
\* each place of its list is an object the Shower can have.
THEOREM ShowerTypeCorrect == Spec => []TypeOK
<1>1. TypeInv => TypeOK
  BY DEF TypeInv
<1> QED BY <1>1, TypeInit, TypeNext, PTL DEF Spec

-----------------------------------------------------------------------------
(* The status *)

\* A step that leaves the Shower and the cached one alone, and the copy what it
\* is about.
LEMMA StatusStays ==
    ASSUME StatusInv, TypeInv', UNCHANGED <<shower, cshower>>,
           Cached \in lag => Cached \in lag',
           pc' \in Reconciling =>
               /\ pc \in Reconciling
               /\ w'.uid = w.uid /\ w'.gen = w.gen /\ w'.spec = w.spec
               /\ w'.st.obs = w.st.obs /\ w'.st.image = w.st.image
               /\ Copied \in lag => Copied \in lag'
    PROVE  StatusInv'
BY DEF StatusInv, ReadingsCurrent, ObservedIsTrue

LEMMA StatusWorker == StatusInv /\ TypeInv' /\ Worker => StatusInv'
<1> SUFFICES ASSUME StatusInv, TypeInv', Worker PROVE StatusInv'
  OBVIOUS
<1>a. /\ shower \in ShowerType /\ cshower \in ShowerType /\ w \in ShowerType
      /\ child \in [Children -> ChildType] /\ cchild \in [Children -> ChildType]
      /\ TypeOK /\ Known
  BY DEF StatusInv, TypeInv, TypeOK
<1>b. "idle" \notin Reconciling /\ "panicked" \notin Reconciling /\ Cached # Copied
  BY DEF Reconciling, Cached, Copied
<1>c. AtChild => pc \in Reconciling
  BY DEF AtChild, Reconciling
<1>1. CASE ReconcileNothing
  BY <1>1, <1>b, StatusStays DEF ReconcileNothing
<1>2. CASE Reconcile
  <2>1. cshower.live /\ cshower.spec \in Specs /\ w' = Observed(cshower)
    BY <1>2, <1>a DEF Reconcile, Known
  <2>2. /\ w'.uid = cshower.uid /\ w'.gen = cshower.gen /\ w'.spec = cshower.spec
        /\ w'.st.obs = cshower.gen /\ w'.st.image = StatusImage(cshower.spec)
    BY <1>a, <2>1, ObservedType
  <2>3. UNCHANGED <<shower, cshower>> /\ (Cached \in lag => {Cached, Copied} \subseteq lag')
        /\ (Cached \notin lag => lag' = lag)
    BY <1>2 DEF Reconcile
  <2> QED BY <2>1, <2>2, <2>3 DEF StatusInv, ReadingsCurrent, ObservedIsTrue
<1>3. CASE CreateChild
  <2>1. /\ w'.uid = w.uid /\ w'.gen = w.gen /\ w'.spec = w.spec
        /\ w'.st.obs = w.st.obs /\ w'.st.image = w.st.image
    BY <1>3, <1>a, ConditionType DEF CreateChild, Reasons
  <2>2. lag \subseteq lag' /\ UNCHANGED <<shower, cshower>>
    BY <1>3 DEF CreateChild, Store
  <2> QED BY <1>3, <1>c, <2>1, <2>2, StatusStays DEF CreateChild
<1>4. CASE GetChildFails
  BY <1>4, <1>c, StatusStays DEF GetChildFails
<1>5. CASE UpdateChild
  <2>1. /\ w'.uid = w.uid /\ w'.gen = w.gen /\ w'.spec = w.spec
        /\ w'.st.obs = w.st.obs /\ w'.st.image = w.st.image
    <3>1. CASE Store(Child, Written(Child, child[Child], w)) /\ Learnt(child'[Child])
      <4>1. Child \in Children /\ w.spec \in Specs
        BY <1>5, <1>a, ChildFacts DEF UpdateChild
      <4>2. child'[Child] \in ChildType
        BY <1>a, <3>1, <4>1, WrittenType, StoreType
      <4> QED BY <1>a, <3>1, <4>2, LearntType
    <3> QED BY <1>5, <3>1 DEF UpdateChild
  <2>2. lag \subseteq lag' /\ UNCHANGED <<shower, cshower>>
    BY <1>5 DEF UpdateChild, Store
  <2> QED BY <1>5, <1>c, <2>1, <2>2, StatusStays DEF UpdateChild
<1>6. CASE KeepChild
  <2>1. Child \in Children
    BY <1>6, <1>a, ChildFacts DEF KeepChild
  <2>2. /\ w'.uid = w.uid /\ w'.gen = w.gen /\ w'.spec = w.spec
        /\ w'.st.obs = w.st.obs /\ w'.st.image = w.st.image
    BY <1>6, <1>a, <2>1, LearntType DEF KeepChild
  <2> QED BY <1>6, <1>c, <2>2, StatusStays DEF KeepChild
<1>7. CASE Panic
  BY <1>7, <1>b, StatusStays DEF Panic, Forget, Goto
<1>8. CASE ChildrenDone
  BY <1>8, StatusStays DEF ChildrenDone, Reconciling
<1>9. CASE UpdateStatusNow
  <2>1. pc' = "idle" /\ pc \in Reconciling /\ UNCHANGED cshower
    BY <1>9 DEF UpdateStatusNow, Goto, Reconciling
  <2>2. CASE UNCHANGED shower /\ lag' = lag \ {Copied}
    BY <1>b, <2>1, <2>2, StatusStays
  <2>3. CASE /\ Copied \notin lag /\ shower.live /\ shower' = [shower EXCEPT !.st = w.st]
             /\ lag' = IF shower' = shower THEN lag ELSE lag \cup {Cached}
    <3>1. /\ shower'.st = w.st /\ shower'.gen = shower.gen /\ shower'.spec = shower.spec
          /\ shower'.live = shower.live
      BY <1>a, <2>3 DEF ShowerType
    <3>2. w.st.obs = shower.gen /\ w.st.image = StatusImage(shower.spec)
      BY <2>1, <2>3 DEF StatusInv, ReadingsCurrent
    <3>3. shower.gen \in Nat
      BY <1>a DEF ShowerType
    <3>4. ReadingsCurrent'
      BY <1>b, <2>1, <2>3 DEF StatusInv, ReadingsCurrent
    <3> QED BY <1>b, <2>1, <3>1, <3>2, <3>3, <3>4 DEF StatusInv, ObservedIsTrue
  <2> QED BY <1>9, <2>2, <2>3 DEF UpdateStatusNow
<1> QED BY <1>1, <1>2, <1>3, <1>4, <1>5, <1>6, <1>7, <1>8, <1>9 DEF Worker

LEMMA StatusManager == StatusInv /\ TypeInv' /\ Manager => StatusInv'
<1> SUFFICES ASSUME StatusInv, TypeInv', Manager PROVE StatusInv'
  OBVIOUS
<1>b. "idle" \notin Reconciling /\ "down" \notin Reconciling /\ Cached # Copied
  BY DEF Reconciling, Cached, Copied
<1>1. CASE SyncShower
  BY <1>1, <1>b DEF SyncShower, StatusInv, ReadingsCurrent, ObservedIsTrue
<1>2. CASE MeteorEvent
  BY <1>2, StatusStays DEF MeteorEvent
<1>3. CASE Crash
  BY <1>3, <1>b, StatusStays DEF Crash, Forget, Goto
<1>4. CASE Restart
  BY <1>4, <1>b DEF Restart, Goto, StatusInv, ReadingsCurrent, ObservedIsTrue
<1>5. ASSUME NEW c \in Children, SyncChild(c) PROVE StatusInv'
  BY <1>5, KindsKnown, StatusStays DEF SyncChild
<1> QED BY <1>1, <1>2, <1>3, <1>4, <1>5 DEF Manager

LEMMA StatusCluster == StatusInv /\ TypeInv' /\ Cluster => StatusInv'
<1> SUFFICES ASSUME StatusInv, TypeInv', Cluster PROVE StatusInv'
  OBVIOUS
<1>a. shower \in ShowerType /\ shower.gen \in Nat /\ shower.st.obs \in Nat
  BY DEF StatusInv, TypeInv, TypeOK, ShowerType, StatusType
<1>1. ASSUME NEW s, StoreShower(s), UNCHANGED <<cshower, opVars>>,
             s.live => \/ s.st.obs < s.gen
                       \/ s.st = shower.st /\ s.gen = shower.gen /\ s.spec = shower.spec
                          /\ shower.live,
             s.st.obs \in Nat, s.gen \in Nat
      PROVE  StatusInv'
  <2>1. shower' = s /\ UNCHANGED <<cshower, pc, w>>
    BY <1>1 DEF StoreShower, opVars
  <2>2. ReadingsCurrent'
    <3>1. CASE s = shower
      BY <1>1, <2>1, <3>1 DEF StoreShower, StatusInv, ReadingsCurrent
    <3>2. CASE s # shower
      BY <1>1, <2>1, <3>2 DEF StoreShower, ReadingsCurrent, Reconciling
    <3> QED BY <3>1, <3>2
  <2> QED BY <1>1, <2>1, <2>2 DEF StatusInv, ObservedIsTrue
<1>2. CASE UserCreate
  <2>1. PICK s \in Specs :
            StoreShower([NoShower EXCEPT !.live = TRUE, !.uid = shower.uid + 1,
                                         !.gen = 1, !.spec = s])
    BY <1>2 DEF UserCreate
  <2> DEFINE new == [NoShower EXCEPT !.live = TRUE, !.uid = shower.uid + 1,
                                     !.gen = 1, !.spec = s]
  <2>2. new.gen = 1 /\ new.st.obs = 0
    BY NothingType DEF NoShower
  <2>3. UNCHANGED <<cshower, opVars>>
    BY <1>2 DEF UserCreate
  <2> HIDE DEF new
  <2>4. StoreShower(new)
    BY <2>1 DEF new
  <2> QED BY <1>1, <2>2, <2>3, <2>4
<1>3. CASE UserEdit
  <2>1. PICK s \in Specs \ {shower.spec} :
            StoreShower([shower EXCEPT !.spec = s, !.gen = @ + 1])
    BY <1>3 DEF UserEdit
  <2> DEFINE new == [shower EXCEPT !.spec = s, !.gen = @ + 1]
  <2>2. new.gen = shower.gen + 1 /\ new.st = shower.st /\ shower.live
    BY <1>3, <1>a DEF ShowerType, UserEdit
  <2>3. shower.st.obs <= shower.gen
    BY <2>2 DEF StatusInv
  <2>4. UNCHANGED <<cshower, opVars>>
    BY <1>3 DEF UserEdit
  <2> HIDE DEF new
  <2>5. StoreShower(new)
    BY <2>1 DEF new
  <2>6. new.st.obs < new.gen /\ new.st.obs \in Nat /\ new.gen \in Nat
    BY <1>a, <2>2, <2>3
  <2> QED BY <1>1, <2>4, <2>5, <2>6
<1>4. CASE UserDelete \/ CollectShower
  <2>1. \/ StoreShower(Gone(shower))
        \/ StoreShower([shower EXCEPT !.del = TRUE])
    BY <1>4 DEF UserDelete, CollectShower
  <2>2. ~Gone(shower).live /\ Gone(shower).st.obs \in Nat /\ Gone(shower).gen \in Nat
    BY <1>a, GoneType DEF ShowerType, StatusType
  <2>3. UNCHANGED <<cshower, opVars>> /\ shower.live
    BY <1>4 DEF UserDelete, CollectShower
  <2> DEFINE new == [shower EXCEPT !.del = TRUE]
  <2>4. new.st = shower.st /\ new.gen = shower.gen /\ new.spec = shower.spec
    BY <1>a DEF ShowerType
  <2> HIDE DEF new
  <2>5. StoreShower(Gone(shower)) \/ StoreShower(new)
    BY <2>1 DEF new
  <2> QED BY <1>1, <1>a, <2>2, <2>3, <2>4, <2>5
<1>5. ASSUME NEW c \in Children,
             LoseChild(c) \/ DriftChild(c) \/ PodsChange(c) \/ CollectChild(c)
      PROVE  StatusInv'
  <2>1. UNCHANGED <<shower, cshower, pc, w>> /\ lag \subseteq lag'
    BY <1>5 DEF LoseChild, DriftChild, PodsChange, CollectChild, Store, opVars
  <2> QED BY <2>1, StatusStays
<1> QED BY <1>2, <1>3, <1>4, <1>5 DEF Cluster

\* A status that claims to have observed the Shower's generation is about that
\* very spec: through edits, stale caches, conflicts, crashes and a name that is
\* used again, whose generations start at 1 once more (Reconcile,
\* UpdateStatusNow).
THEOREM ObservedGenerationTrue == Spec => []ObservedIsTrue
<1>1. Init => StatusInv
  <2> SUFFICES ASSUME Init PROVE StatusInv
    OBVIOUS
  <2>1. TypeInv
    BY TypeInit
  <2> QED BY <2>1, NothingType
       DEF Init, StatusInv, ReadingsCurrent, ObservedIsTrue, Reconciling
<1>2. StatusInv /\ [Next]_vars => StatusInv'
  <2> SUFFICES ASSUME StatusInv, [Next]_vars PROVE StatusInv'
    OBVIOUS
  <2>1. TypeInv'
    BY TypeNext DEF StatusInv
  <2>2. CASE UNCHANGED vars
    BY <2>1, <2>2, StatusStays DEF vars, opVars
  <2> QED BY <2>1, <2>2, StatusWorker, StatusManager, StatusCluster DEF Next
<1>3. StatusInv => ObservedIsTrue
  BY DEF StatusInv
<1> QED BY <1>1, <1>2, <1>3, PTL DEF Spec

-----------------------------------------------------------------------------
(* The owners *)

\* A step that takes no owner away: the Shower's incarnation stays or is a later
\* one, the readings are of one that was, and an object that is there had its
\* owner before.
LEMMA OwnersStay ==
    ASSUME OwnerInv, TypeInv',
           shower.uid <= shower'.uid, shower'.live => shower'.uid # 0,
           cshower' \in {cshower, shower, shower'},
           pc' \in Reconciling => pc \in Reconciling /\ w'.uid = w.uid,
           \A c \in Children :
               child'[c].ex => child[c].ex /\ child'[c].owner = child[c].owner
    PROVE  OwnerInv'
<1>1. /\ shower.uid \in Nat /\ shower'.uid \in Nat
      /\ shower'.live \in BOOLEAN /\ shower.live \in BOOLEAN
  BY DEF OwnerInv, TypeInv, TypeOK, ShowerType
<1>2. Owned'
  BY <1>1 DEF OwnerInv, Owned
<1>3. cshower'.live => cshower'.uid \in 1..shower'.uid
  BY <1>1 DEF OwnerInv
<1>4. pc' \in Reconciling => w'.uid \in 1..shower'.uid
  BY <1>1 DEF OwnerInv
<1> QED BY <1>2, <1>3, <1>4 DEF OwnerInv

LEMMA OwnerWorker == OwnerInv /\ TypeInv' /\ Worker => OwnerInv'
<1> SUFFICES ASSUME OwnerInv, TypeInv', Worker PROVE OwnerInv'
  OBVIOUS
<1>a. /\ shower \in ShowerType /\ cshower \in ShowerType /\ w \in ShowerType
      /\ child \in [Children -> ChildType] /\ cchild \in [Children -> ChildType]
      /\ shower.uid \in Nat /\ shower.uid <= shower.uid
      /\ TypeOK /\ Known
  BY DEF OwnerInv, TypeInv, TypeOK, ShowerType
<1>b. "idle" \notin Reconciling /\ "panicked" \notin Reconciling
  BY DEF Reconciling
<1>c. AtChild => pc \in Reconciling
  BY DEF AtChild, Reconciling
<1>d. shower.live => shower.uid # 0
  BY DEF OwnerInv
<1>1. CASE ReconcileNothing
  BY <1>1, <1>a, <1>b, <1>d, OwnersStay DEF ReconcileNothing
<1>2. CASE Reconcile
  <2>1. cshower.live /\ cshower.spec \in Specs /\ w' = Observed(cshower)
    BY <1>2, <1>a DEF Reconcile, Known
  <2>2. w'.uid = cshower.uid
    BY <1>a, <2>1, ObservedType
  <2>3. UNCHANGED <<shower, cshower, child>>
    BY <1>2 DEF Reconcile
  <2> QED BY <2>1, <2>2, <2>3 DEF OwnerInv, Owned
<1>3. CASE CreateChild
  <2>1. Child \in Children /\ w.spec \in Specs /\ pc \in Reconciling
    BY <1>3, <1>a, <1>c, ChildFacts DEF CreateChild
  <2>2. w'.uid = w.uid /\ UNCHANGED <<shower, cshower>>
    BY <1>3, <1>a, ConditionType DEF CreateChild, Reasons
  <2>3. CASE child' = [child EXCEPT ![Child] = New(Child, w)]
    <3>1. w.uid \in 1..shower.uid
      BY <2>1 DEF OwnerInv
    <3>2. /\ New(Child, w).ex
          /\ New(Child, w).owner = IF IsHome(Child) THEN w.uid ELSE 0
      BY DEF New, OwnerOf
    <3>3. Owned'
      BY <1>a, <2>1, <2>2, <2>3, <3>1, <3>2 DEF OwnerInv, Owned
    <3> QED BY <2>1, <2>2, <3>1, <3>3 DEF OwnerInv
  <2>4. CASE UNCHANGED child
    BY <1>a, <1>d, <2>1, <2>2, <2>4, OwnersStay
  <2> QED BY <1>3, <2>3, <2>4 DEF CreateChild, Store
<1>4. CASE GetChildFails
  BY <1>4, <1>a, <1>c, <1>d, OwnersStay DEF GetChildFails
<1>5. CASE UpdateChild
  <2>1. Child \in Children /\ w.spec \in Specs /\ pc \in Reconciling
    BY <1>5, <1>a, <1>c, ChildFacts DEF UpdateChild
  <2>2. UNCHANGED <<shower, cshower>>
    BY <1>5 DEF UpdateChild
  <2>3. CASE Store(Child, Written(Child, child[Child], w)) /\ Learnt(child'[Child])
    <3>1. /\ child' = [child EXCEPT ![Child] = Written(Child, child[Child], w)]
          /\ child'[Child] \in ChildType
      BY <1>a, <2>1, <2>3, WrittenType, StoreType DEF Store
    <3>2. w'.uid = w.uid
      BY <1>a, <2>3, <3>1, LearntType
    <3>3. \A c \in Children :
              child'[c].ex => child[c].ex /\ child'[c].owner = child[c].owner
      BY <1>a, <2>1, <3>1, WrittenType
    <3> QED BY <1>a, <1>d, <2>1, <2>2, <3>2, <3>3, OwnersStay
  <2>4. CASE UNCHANGED <<child, lag, w>>
    BY <1>a, <1>d, <2>1, <2>2, <2>4, OwnersStay
  <2> QED BY <1>5, <2>3, <2>4 DEF UpdateChild
<1>6. CASE KeepChild
  <2>1. Child \in Children /\ pc \in Reconciling
    BY <1>6, <1>a, <1>c, ChildFacts DEF KeepChild
  <2>2. w'.uid = w.uid /\ UNCHANGED <<shower, cshower, child>>
    BY <1>6, <1>a, <2>1, LearntType DEF KeepChild
  <2> QED BY <1>a, <1>d, <2>1, <2>2, OwnersStay
<1>7. CASE Panic
  BY <1>7, <1>a, <1>b, <1>d, OwnersStay DEF Panic, Forget, Goto
<1>8. CASE ChildrenDone
  BY <1>8, <1>a, <1>d, OwnersStay DEF ChildrenDone, Reconciling
<1>9. CASE UpdateStatusNow
  <2>1. shower'.uid = shower.uid /\ shower'.live = shower.live
    BY <1>9, <1>a DEF UpdateStatusNow, ShowerType
  <2>2. pc' = "idle" /\ UNCHANGED <<cshower, child>>
    BY <1>9 DEF UpdateStatusNow, Goto
  <2> QED BY <1>a, <1>b, <1>d, <2>1, <2>2, OwnersStay
<1> QED BY <1>1, <1>2, <1>3, <1>4, <1>5, <1>6, <1>7, <1>8, <1>9 DEF Worker

LEMMA OwnerManager == OwnerInv /\ TypeInv' /\ Manager => OwnerInv'
<1> SUFFICES ASSUME OwnerInv, TypeInv', Manager PROVE OwnerInv'
  OBVIOUS
<1>a. shower.uid <= shower.uid /\ (shower.live => shower.uid # 0)
  BY DEF OwnerInv, TypeInv, TypeOK, ShowerType
<1>b. UNCHANGED <<shower, child>>
  BY DEF Manager, SyncShower, MeteorEvent, Crash, Restart, SyncChild
<1>c. cshower' \in {cshower, shower}
  BY DEF Manager, SyncShower, MeteorEvent, Crash, Restart, SyncChild
<1>d. pc' \in Reconciling => pc \in Reconciling /\ w'.uid = w.uid
  BY DEF Manager, SyncShower, MeteorEvent, Crash, Restart, SyncChild, Goto, Reconciling
<1> QED BY <1>a, <1>b, <1>c, <1>d, OwnersStay

LEMMA OwnerCluster == OwnerInv /\ TypeInv' /\ Cluster => OwnerInv'
<1> SUFFICES ASSUME OwnerInv, TypeInv', Cluster PROVE OwnerInv'
  OBVIOUS
<1>a. /\ shower \in ShowerType /\ shower.uid \in Nat
      /\ child \in [Children -> ChildType]
      /\ shower.live => shower.uid # 0
  BY DEF OwnerInv, TypeInv, TypeOK, ShowerType
<1>1. ASSUME NEW s, StoreShower(s), UNCHANGED <<child, cshower, opVars>>,
             shower.uid <= s.uid, s.live => s.uid # 0
      PROVE  OwnerInv'
  BY <1>1, OwnersStay DEF StoreShower, opVars
<1>2. CASE UserCreate
  <2>1. PICK s \in Specs :
            StoreShower([NoShower EXCEPT !.live = TRUE, !.uid = shower.uid + 1,
                                         !.gen = 1, !.spec = s])
    BY <1>2 DEF UserCreate
  <2> DEFINE new == [NoShower EXCEPT !.live = TRUE, !.uid = shower.uid + 1,
                                     !.gen = 1, !.spec = s]
  <2>2. new.uid = shower.uid + 1
    BY DEF NoShower
  <2>3. shower.uid <= new.uid /\ new.uid # 0
    BY <1>a, <2>2
  <2> HIDE DEF new
  <2> QED BY <1>1, <1>2, <2>1, <2>3 DEF UserCreate, new
<1>3. CASE UserEdit
  <2>1. PICK s \in Specs \ {shower.spec} :
            StoreShower([shower EXCEPT !.spec = s, !.gen = @ + 1])
    BY <1>3 DEF UserEdit
  <2> DEFINE new == [shower EXCEPT !.spec = s, !.gen = @ + 1]
  <2>2. new.uid = shower.uid /\ new.live = shower.live
    BY <1>a DEF ShowerType
  <2>3. UNCHANGED <<child, cshower, opVars>>
    BY <1>3 DEF UserEdit
  <2> HIDE DEF new
  <2>4. StoreShower(new)
    BY <2>1 DEF new
  <2> QED BY <1>1, <1>a, <2>2, <2>3, <2>4
<1>4. CASE UserDelete \/ CollectShower
  <2> DEFINE new == [shower EXCEPT !.del = TRUE]
  <2>1. new.uid = shower.uid /\ new.live = shower.live
    BY <1>a DEF ShowerType
  <2>2. Gone(shower).uid = shower.uid /\ ~Gone(shower).live
    BY <1>a, GoneType
  <2>3. StoreShower(Gone(shower)) \/ StoreShower(new)
    BY <1>4 DEF UserDelete, CollectShower
  <2> HIDE DEF new
  <2> QED BY <1>1, <1>4, <1>a, <2>1, <2>2, <2>3 DEF UserDelete, CollectShower
<1>5. ASSUME NEW c \in Children, NEW o \in ChildType, Store(c, o),
             o.ex => child[c].ex /\ o.owner = child[c].owner,
             UNCHANGED <<shower, cshower, opVars>>
      PROVE  OwnerInv'
  <2>1. \A d \in Children :
            child'[d].ex => child[d].ex /\ child'[d].owner = child[d].owner
    BY <1>5, <1>a DEF Store
  <2> QED BY <1>5, <1>a, <2>1, OwnersStay DEF opVars
<1>6. ASSUME NEW c \in Children, LoseChild(c) \/ CollectChild(c) PROVE OwnerInv'
  <2>1. Removed(child[c]) \in ChildType /\ ~Removed(child[c]).ex
    BY <1>a, RemovedType
  <2> QED BY <1>6, <1>5, <2>1 DEF LoseChild, CollectChild
<1>7. ASSUME NEW c \in Children, DriftChild(c) \/ PodsChange(c) PROVE OwnerInv'
  <2>1. PICK o \in {[child[c] EXCEPT !.main = "drifted"],
                    [child[c] EXCEPT !.port = "other"],
                    [child[c] EXCEPT !.avail = ~@]} : Store(c, o)
    BY <1>7 DEF DriftChild, PodsChange
  <2>2. o.ex = child[c].ex /\ o.owner = child[c].owner
    BY <1>a, <2>1 DEF ChildType
  <2>3. "drifted" \in Mains
    BY DEF Mains
  <2>4. o \in ChildType
    BY <1>a, <2>1, <2>3 DEF ChildType
  <2> QED BY <1>7, <1>5, <2>1, <2>2, <2>4 DEF DriftChild, PodsChange
<1> QED BY <1>2, <1>3, <1>4, <1>6, <1>7 DEF Cluster

\* Every object in the Shower's namespace has as its owner an incarnation of the
\* Shower that has existed, also when it was created from the copy of one that
\* was deleted meanwhile: the garbage collector can find it once that one is
\* gone.  An object of another namespace never has an owner, and so is never
\* collected (the Reconcile functions of the objects, SetControllerReference).
THEOREM ObjectsAreOwned == Spec => []Owned
<1>1. Init => OwnerInv
  <2> SUFFICES ASSUME Init PROVE OwnerInv
    OBVIOUS
  <2>1. TypeInv
    BY TypeInit
  <2> QED BY <2>1, NothingType DEF Init, OwnerInv, Owned, Reconciling
<1>2. OwnerInv /\ [Next]_vars => OwnerInv'
  <2> SUFFICES ASSUME OwnerInv, [Next]_vars PROVE OwnerInv'
    OBVIOUS
  <2>1. TypeInv'
    BY TypeNext DEF OwnerInv
  <2>2. CASE UNCHANGED vars
    BY <2>2 DEF vars, opVars, OwnerInv, Owned, TypeInv, TypeOK, Known
  <2> QED BY <2>1, <2>2, OwnerWorker, OwnerManager, OwnerCluster DEF Next
<1>3. OwnerInv => Owned
  BY DEF OwnerInv
<1> QED BY <1>1, <1>2, <1>3, PTL DEF Spec
=============================================================================
