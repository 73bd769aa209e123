------------------------------- MODULE MCCRE --------------------------------
(***************************************************************************)
(* Constants for the TLC runs of CRE.                                      *)
(***************************************************************************)
EXTENDS CRE

Environment == {"pythonVersion", "osName", "osVersion"}
Submit(bt, fields) ==
    [bt |-> bt, fields |-> fields, annotations |-> [a \in Annotations |-> "given"]]

Import  == Submit("ImageImport", {"fromImage"})
OnImage == Submit("PackageList", {"packageVersions", "baseImage"})
OnEnv   == Submit("PackageList", {"packageVersions"} \cup Environment)
Repo    == Submit("GitRepository", {"repository"})

\* Rejected: a runtime environment without osName, and a missing annotation.
PartialEnv == Submit("PackageList", {"packageVersions", "pythonVersion", "osVersion"})
Anonymous  == [Import EXCEPT !.annotations["creator"] = "missing"]

AllSpecs    == {Import, OnImage, OnEnv, Repo, PartialEnv, Anonymous}
PackageOnly == {OnImage}

Evenly == [k \in Kinds |-> 1]

\* A failed call, a crash, a deletion or a pruned run, or else two edits: a
\* second failed call of the same kind goes unnoticed.
EditsOrMishap == [fault |-> 2, crash |-> 2, edit |-> 1, delete |-> 2, prune |-> 2]
=============================================================================
