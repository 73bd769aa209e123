------------------------------ MODULE MCShower ------------------------------
(***************************************************************************)
(* Constants for the TLC runs of Shower.                                   *)
(***************************************************************************)
EXTENDS Shower

\* Labelled names no host, and names a namespace for a Coma.
Plain    == [image |-> "", host |-> "h", labels |-> FALSE, ext |-> <<"">>]
Labelled == [image |-> "custom", host |-> "", labels |-> TRUE, ext |-> <<"", "a">>]
PlainAndLabelled == {Plain, Labelled}
=============================================================================
