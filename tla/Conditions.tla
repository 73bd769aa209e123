----------------------------- MODULE Conditions -----------------------------
(***************************************************************************)
(* The condition list of a Meteor's status, and the helper of              *)
(* k8s.io/apimachinery/pkg/api/meta that its reconcilers change it with.   *)
(* A condition is a record with the fields type, status and reason; the    *)
(* list holds at most one condition of a type, and its ORDER matters:      *)
(* AggregatePhase walks it from the front.                                 *)
(***************************************************************************)
EXTENDS Naturals, Sequences

ConditionStatuses == {"True", "False", "Unknown"}

Condition(type, status, reason) ==
    [type |-> type, status |-> status, reason |-> reason]

HasCondition(conds, type) == \E i \in DOMAIN conds : conds[i].type = type

\* meta.SetStatusCondition: overwrites the condition of the same type in
\* place, and appends it when there is none.
SetStatusCondition(conds, c) ==
    IF HasCondition(conds, c.type)
    THEN [i \in DOMAIN conds |-> IF conds[i].type = c.type THEN c ELSE conds[i]]
    ELSE Append(conds, c)
=============================================================================
