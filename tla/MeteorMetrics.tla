--------------------------- MODULE MeteorMetrics ----------------------------
(***************************************************************************)
(* The gauge meteor_phase_total (controllers/common/metrics.go), which     *)
(* every reconcile of Meteor sets: the phases at 1 in the process's        *)
(* memory.  The gauge adds a variable to Meteor and changes no step of it. *)
(***************************************************************************)
EXTENDS Meteor

VARIABLE gauge

\* Mutant: the phase is refreshed before the old one is taken off the gauge.
MetricsBeforeLate(m) == gauge \ {Observed(m).st.phase}

\* On the Meteor as it was read, with the phase its status held.
MetricsBefore(m) == gauge \ {m.st.phase}

\* On the copy, with the phase aggregated from its conditions, after
\* findOwnerShower and the status write that follows when it fails.
MetricsAfter(on, m) == on \cup {m.st.phase}

Measure ==
    gauge' = CASE pc' = "down" \/ pc' = "panicked" -> {}
               [] pc = "idle" /\ pc' = "noshower" -> MetricsBefore(cmet)
               [] pc = "idle" /\ pc' = "ttl" -> MetricsAfter(MetricsBefore(cmet), w')
               [] pc = "noshower" /\ pc' = "ttl" -> MetricsAfter(gauge, w')
               [] OTHER -> gauge

MetricsInit == Init /\ gauge = {}
MetricsNext == Next /\ Measure
MetricsSpec == MetricsInit /\ [][MetricsNext]_<<vars, gauge>>

-----------------------------------------------------------------------------
\* "Gauge of current meteor phase": one phase at most is at 1, although what
\* a reconcile takes off is the phase of a cached status and what it puts on
\* the phase of conditions it may fail to store.
OnePhase == Cardinality(gauge) <= 1
=============================================================================
