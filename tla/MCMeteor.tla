------------------------------ MODULE MCMeteor ------------------------------
(***************************************************************************)
(* Constants for the TLC runs of Meteor.                                   *)
(***************************************************************************)
EXTENDS Meteor

NoPipeline   == <<>>
OnePipeline  == <<"hub">>

OneService  == {<<"a">>}
SkipService == {<<"", "a">>}
SomeOrNone  == {<<"a">>, <<"">>}
TwoServices == {<<"a", "b">>}

\* Every kind of disturbance off; the runs switch on the ones they are about.
Calm == [k \in Kinds |-> IF k = "any" THEN 9 ELSE 0]

FinalizerLimits == [Calm EXCEPT !["faults"] = 1, !["comaLosses"] = 1, !["deletes"] = 2,
                                !["any"] = 3]
BuildLimits     == [Calm EXCEPT !["faults"] = 1, !["crashes"] = 1, !["edits"] = 1,
                                !["deletes"] = 1, !["any"] = 2]
ProgressLimits  == [Calm EXCEPT !["faults"] = 1, !["crashes"] = 1, !["edits"] = 1,
                                !["prunes"] = 1,
                                !["showerChanges"] = 1, !["any"] = 1]
ExpiryLimits    == [Calm EXCEPT !["faults"] = 1, !["crashes"] = 1, !["edits"] = 1,
                                !["deletes"] = 1, !["comaLosses"] = 1,
                                !["showerChanges"] = 2, !["others"] = 1, !["any"] = 2]
FaultLimits     == [Calm EXCEPT !["faults"] = 1]
DeleteLimits    == [Calm EXCEPT !["deletes"] = 1]
=============================================================================
