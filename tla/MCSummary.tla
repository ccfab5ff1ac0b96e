-------------------------------- MODULE MCSummary --------------------------------
(* One test in the results files that are compared. *)
EXTENDS Summary, MCInputs
MCNames == {<<"a">>}
==================================================================================
