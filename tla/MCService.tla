----------------------------- MODULE MCService -----------------------------
(***************************************************************************)
(* Values for the constants of the service's runs.  One critical field is  *)
(* enough to choose between the two plans.                                 *)
(***************************************************************************)
EXTENDS ServiceProperties

MCFields == {"outcome"}

Settled == [name \in MCFields |-> [status |-> "confirmed", given |-> TRUE]]

\* A low-risk goal that needs no discovery: eight stages, one role each.
LowRisk == [fields |-> Settled, risk |-> 1, research |-> FALSE]

\* A risk-2 goal: three designers, three validators, a security review.
HighRisk == [fields |-> Settled, risk |-> 2, research |-> FALSE]

LowRiskGoals  == {LowRisk}
BothRisks     == {LowRisk, HighRisk}

-----------------------------------------------------------------------------

Passing(d) == [gate |-> "pass", digest |-> d]
Failing    == [gate |-> "fail", digest |-> None]
Invalid    == [gate |-> "invalid", digest |-> None]

\* Workers whose results always pass, but those of the roles of S may also be
\* those of other.
Workers(S, other) ==
    [role \in AllRoles |-> {Passing("d")} \cup (IF role \in S THEN other ELSE {})]

AlwaysPass   == Workers({}, {})

\* Workers who may fail at the end of the mission, or in the middle of it.
LateTrouble  == Workers({"validation-specialist"}, {Failing, Invalid})
BuildTrouble == Workers({"implementation-specialist"}, {Failing, Invalid})
Disagree     == Workers({"security-architect"}, {Passing("e"), Passing(None)})

\* Clients that make the calls a delivery needs, and more on the tasks of the
\* roles of S.
Clients(S, more) ==
    [role \in AllRoles |->
        {"submit", "freeze", "evidence", "approve", "package"}
            \cup (IF role \in S THEN more ELSE {})]

Deliver  == Clients({}, {})
Stopping == Clients({"implementation-specialist"}, {"checkpoint", "interrupt", "retry"})

AnyCall == TaskCommands \cup {"start", "revise", "status"}

\* A team that never freezes, and so never leaves implementation.
Designers == [role \in AllRoles |-> {"submit"}]
=============================================================================
