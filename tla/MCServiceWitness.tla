-------------------------- MODULE MCServiceWitness --------------------------
(***************************************************************************)
(* The service's runs with the witness.                                    *)
(***************************************************************************)
EXTENDS MCService, ServiceWitness
=============================================================================
