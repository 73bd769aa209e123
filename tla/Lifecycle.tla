----------------------------- MODULE Lifecycle ------------------------------
(***************************************************************************)
(* What the Meteor controller promises of a Meteor's life, whatever it     *)
(* takes to keep it: Comas live in other namespaces, where the garbage     *)
(* collector does not reach them, so the Meteor lists the ones it uses and *)
(* stays until they are gone.  Meteor implements this specification.       *)
(***************************************************************************)
EXTENDS Naturals

VARIABLES
    stage,   \* "absent", "live" or "terminating"
    uid,     \* incarnations of the name so far
    listed,  \* the Comas the present, or else the last, incarnation listed
    alive    \* the Comas that exist

vars == <<stage, uid, listed, alive>>

Init == stage = "absent" /\ uid = 0 /\ listed = {} /\ alive = {}

Create ==
    /\ stage = "absent" /\ stage' = "live"
    /\ uid' = uid + 1 /\ listed' = {}
    /\ UNCHANGED alive

\* The list only grows, and not any more once the Meteor is marked for deletion.
Record ==
    /\ stage = "live"
    /\ listed \subseteq listed'
    /\ UNCHANGED <<stage, uid, alive>>

Mark ==
    /\ stage = "live" /\ stage' = "terminating"
    /\ UNCHANGED <<uid, listed, alive>>

\* Without a mark only a Meteor goes that never listed anything.
Drop ==
    /\ stage = "live" /\ listed = {} /\ stage' = "absent"
    /\ UNCHANGED <<uid, listed, alive>>

Remove ==
    /\ stage = "terminating" /\ listed \cap alive = {} /\ stage' = "absent"
    /\ UNCHANGED <<uid, listed, alive>>

\* Comas come under identities of their own, and go for many reasons.
Born ==
    /\ alive \subseteq alive' /\ (alive' \ alive) \cap listed = {}
    /\ UNCHANGED <<stage, uid, listed>>

Die ==
    /\ alive' \subseteq alive
    /\ UNCHANGED <<stage, uid, listed>>

Next == Create \/ Record \/ Mark \/ Drop \/ Remove \/ Born \/ Die

Spec == Init /\ [][Next]_vars

=============================================================================
