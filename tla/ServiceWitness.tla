--------------------------- MODULE ServiceWitness ---------------------------
(***************************************************************************)
(* The service beside a witness who notes what the evidence ledger holds   *)
(* whenever no call is running, and so knows what each call has found.     *)
(* The gates read the ledger somewhere in the middle of a call, while the  *)
(* files behind the evidence may change; what a call is answerable for is  *)
(* what it found.                                                          *)
(***************************************************************************)
EXTENDS ServiceProperties

VARIABLE found   \* history: the ledger as the running call found it

WitnessedInit == Init /\ found = ledger

Witness == found' = IF pc = "idle" THEN ledger' ELSE found

WitnessedSpec == WitnessedInit /\ [][Next /\ Witness]_<<vars, found>> /\ Fairness

\* All evidence the mission's goal requires of its candidate had passed, was not
\* invalidated, and its file was what had been recorded, when the call began.
FoundSufficient(m) ==
    \A type \in RequiredEvidence(m.goal) :
        /\ <<m.active, type>> \in DOMAIN found
        /\ found[<<m.active, type>>] = "pass"

BecomesApproved == snap # NoMission /\ ~snap.approved /\ snap'.approved
BecomesReleased == snap # NoMission /\ ~snap.released /\ snap'.released

\* No mission is saved as approved or as released but by a call that found the
\* evidence for it sufficient: neither evidence a later record contradicts, nor
\* what a revise had invalidated that got no further, nor what was altered since
\* it was recorded, also when the approval was given on better evidence.
\* (GatePolicy.approve and _verify_release_evidence read the ledger anew)
GatedOnFoundEvidence ==
    [][ BecomesApproved \/ BecomesReleased => FoundSufficient(snap') ]_snap

-----------------------------------------------------------------------------
(* The inductive invariant behind it.                                      *)

\* The mission would be saved as approved, or as released, which it is not yet.
NewlyMarked(m) == (m.approved /\ ~snap.approved) \/ (m.released /\ ~snap.released)

\* What passes when a gate looks had passed when the call began; a call that
\* came through its gate, and one whose copy bears a new mark, found enough.
FoundStory ==
    /\ pc \in {"review", "pack"} =>
           \A e \in DOMAIN ledger :
               ledger[e] = "pass" => e \in DOMAIN found /\ found[e] = "pass"
    /\ pc \in {"decide", "mark", "ready", "release"} => FoundSufficient(mem)
    /\ pc # "idle" /\ snap # NoMission /\ NewlyMarked(mem) => FoundSufficient(mem)
=============================================================================
