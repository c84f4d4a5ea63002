------------------------------ MODULE Planning ------------------------------
(***************************************************************************)
(* The life of a mission's goal: workflow_start builds it from what the    *)
(* caller says, every workflow_revise rebuilds it from the present goal    *)
(* and what the caller says then, and the plan is recomputed each time.    *)
(***************************************************************************)
EXTENDS Methodology

VARIABLES
    goal,
    doubted    \* history: the tracked fields a call ever named a doubtful status for

vars == <<goal, doubted>>

\* What a call says of the fields.  A status it names for a field whose status
\* is not tracked is never looked at.
Updates == {updates \in [CriticalFields -> FieldUpdates] :
               \A name \in CriticalFields \ TrackedFields :
                   updates[name].status = "unmentioned"}

Doubtful == {"unverified", "conflict"}

Doubts(updates) == {name \in TrackedFields : updates[name].status \in Doubtful}

\* start(): a risk level that is not given is 1, a research flag FALSE; both
\* are covered by choosing any value.
Init == \E updates \in Updates, risk \in 0..3, research \in BOOLEAN :
            /\ goal = GoalFromParams(updates, risk, research,
                                     [name \in CriticalFields |-> NoField])
            /\ doubted = Doubts(updates)

\* revise(): an unmentioned risk level or research flag keeps its old value.
Revise(updates, risk, research) ==
    /\ RevisionAccepted(updates)
    /\ goal' = GoalFromParams(updates, risk, research, goal.fields)
    /\ doubted' = doubted \cup Doubts(updates)

Next == \E updates \in Updates, risk \in 0..3, research \in BOOLEAN :
            Revise(updates, risk, research)

Spec == Init /\ [][Next]_vars

-----------------------------------------------------------------------------
(* Properties.                                                             *)

\* The goal of a mission is always one the planner was written for.
TypeOK == goal \in Goal

\* What the service itself binds once a stage has been left: freezing a
\* candidate is a condition of leaving implementation, approval one of leaving
\* validation.
BoundOnLeaving(kind) ==
    CASE kind = "implementation" -> {"frozen-candidate"}
      [] kind = "validation"     -> {"approved-candidate", "gate-decision"}
      [] OTHER                   -> {}

Available(g, i) ==
    InitialOutputs(g)
        \cup UNION {{Output(Plan(g)[j])} \cup BoundOnLeaving(Plan(g)[j]) : j \in 1..(i - 1)}

\* Whatever the goal, no stage of its plan waits for a document that nothing
\* before it produces: issue_task never finds an input missing, so a plan can
\* not strand a mission (methodology.py _stage_artifacts against plan()).
InputsClosed ==
    \A i \in DOMAIN Plan(goal) : Inputs(Plan(goal)[i]) \subseteq Available(goal, i)

\* REQ-GOAL-002 and REQ-GOAL-003: the discovery stages are there whenever some
\* critical field has no value, tracked or not, and otherwise only on account
\* of a field some call named a doubtful status for: a status that was implied
\* by a missing value does not outlive it, however many revisions follow.
DiscoveryWhenUnresolved ==
    /\ (\E name \in CriticalFields : ~goal.fields[name].given) =>
           "goal-discovery" \in PlanKinds(goal)
    /\ "goal-discovery" \in PlanKinds(goal) =>
           \E name \in CriticalFields : ~goal.fields[name].given \/ name \in doubted

\* Every kind of evidence a candidate needs can be produced by a role that has
\* a task in a stage whose tasks may record evidence, that role is not the
\* implementer, and somebody other than the implementer may approve.
EvidenceProducible ==
    /\ \A type \in RequiredEvidence(goal) :
          EvidenceRoles(goal, type)
              \cap (Roles(goal, "integration-verification") \cup Roles(goal, "validation"))
              \cap (AllRoles \ Roles(goal, "implementation")) # {}
    /\ \E role \in Roles(goal, "validation") :
          CanApprove(goal, role) /\ role \notin Roles(goal, "implementation")

\* REQ-ROLE-002 and REQ-ROLE-004, which are kept by three tables: the gate lets
\* a role approve exactly when the plan permits it to in each stage the role
\* works in, so that no approval token is spent on a refusal; and a role that
\* may write product files in some stage can neither approve nor produce
\* evidence a candidate of this goal needs.  (approve_candidate, _permission)
DutiesSeparated ==
    \A i \in DOMAIN Plan(goal) : \A role \in Roles(goal, Plan(goal)[i]) :
        /\ CanApprove(goal, role) <=> Permission(Plan(goal)[i]).approve
        /\ "write-file" \in Permission(Plan(goal)[i]).tools =>
               \A type \in RequiredEvidence(goal) : role \notin EvidenceRoles(goal, type)

\* A revision that says nothing of a field keeps its value and its status: what
\* a field has become is what saying nothing makes of it.
SilenceKeepsFields ==
    \A name \in CriticalFields \ {"constraints"} :
        SelectField(name, Silence, goal.fields[name]) = goal.fields[name]

-----------------------------------------------------------------------------
(* What the documents say and the code does not do; a run refutes this.    *)

\* A mission may be revised by an instruction alone: the tool requires nothing
\* else, and "/workflow revise <mission_id> <instruction>" can not say more.
InstructionSuffices ==
    ENABLED Revise([name \in CriticalFields |-> Silence], goal.risk, goal.research)
=============================================================================
