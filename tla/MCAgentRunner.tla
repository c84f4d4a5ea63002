---------------------------- MODULE MCAgentRunner ----------------------------
(***************************************************************************)
(* The agent runner for TLC: processes, grants and files may be exchanged  *)
(* for each other.                                                         *)
(***************************************************************************)
EXTENDS AgentRunner, TLC

Exchanges ==
    {p @@ g @@ f : p \in Permutations(Processes), g \in Permutations(Grants),
                   f \in Permutations(Files)}
=============================================================================
