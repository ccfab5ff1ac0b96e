------------------------------- MODULE MCProfiles -------------------------------
(* A profile read from XML, run with a list of tests and resumed. *)
EXTENDS Profiles, MCInputs
================================================================================
