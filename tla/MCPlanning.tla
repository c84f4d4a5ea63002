----------------------------- MODULE MCPlanning -----------------------------
(* A field whose status the service tracks, one whose status it does not,  *)
(* and the constraints, which are not tracked either.                      *)
EXTENDS Planning

MCFields  == {"outcome", "population", "constraints"}
MCTracked == {"outcome"}
=============================================================================
