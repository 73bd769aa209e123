----------------------------- MODULE MCMetrics ------------------------------
(***************************************************************************)
(* Meteor with its metrics for TLC.                                        *)
(***************************************************************************)
EXTENDS MCMeteor, MeteorMetrics
=============================================================================
