-------------------------- MODULE MCCandidateStore --------------------------
(***************************************************************************)
(* Candidate directories for TLC: processes, labels and contents may be    *)
(* exchanged for each other.                                               *)
(***************************************************************************)
EXTENDS CandidateStore, TLC

Exchanges ==
    {p @@ l @@ v : p \in Permutations(Processes), l \in Permutations(Labels),
                   v \in Permutations(Values)}
=============================================================================
