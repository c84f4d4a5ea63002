---------------------------- MODULE Methodology ----------------------------
(***************************************************************************)
(* The planner: which stages a goal gets, which roles work in each, which  *)
(* documents a stage consumes and produces, and which evidence a candidate *)
(* of the goal must carry.  src/agent_harness/methodology.py, with the     *)
(* part of plugin_service.py that builds a goal and the part of mission.py *)
(* that seeds a mission's documents.                                       *)
(*                                                                         *)
(* A goal is reduced to what the planner reads: for every critical field   *)
(* whether it has a value and which knowledge status it carries, the risk  *)
(* level and whether the work is a research artifact.                      *)
(***************************************************************************)
EXTENDS Naturals, Sequences

CONSTANTS CriticalFields,  \* the goal fields the planner inspects
          TrackedFields    \* those for which the service keeps a knowledge status

ASSUME FieldsAssumption == TrackedFields \subseteq CriticalFields

KnowledgeStatus == {"confirmed", "inferred", "unverified", "conflict"}

\* A field's status is "absent" when field_status has no entry for it; its
\* value is absent when the attribute is None (or an empty constraints tuple).
FieldState == [status : KnowledgeStatus \cup {"absent"}, given : BOOLEAN]

Goal == [fields : [CriticalFields -> FieldState], risk : 0..3, research : BOOLEAN]

StageKinds == {"scope-risk", "goal-discovery", "method-discovery", "requirements",
               "oracle", "design", "implementation", "integration-verification",
               "validation", "release"}

\* Stages whose tasks carry the identity of the frozen candidate.
CandidateStages == {"integration-verification", "validation", "release"}

Manager == "mission-manager"

-----------------------------------------------------------------------------
(* Goals.                                                                  *)

\* Mutant: only the knowledge status is looked at.
UnresolvedByStatus(f) == f.status \in {"conflict", "unverified"}

Unresolved(f) == f.status \in {"conflict", "unverified"} \/ ~f.given

Exploration(g) == \E name \in CriticalFields : Unresolved(g.fields[name])

\* What one call says of a field: of its value nothing, a value or an explicit
\* null; of its knowledge status nothing or one.
FieldUpdates == [value : {"unmentioned", "value", "null"},
                 status : KnowledgeStatus \cup {"unmentioned"}]

Silence == [value |-> "unmentioned", status |-> "unmentioned"]

\* What the planner sees of a field before anything was said about it.
NoField == [status |-> "absent", given |-> FALSE]

\* The status a tracked field gets when the call does not name one.
ImpliedStatus(value, base) ==
    CASE value = "value"       -> "confirmed"
      [] value = "null"        -> "unverified"
      [] value = "unmentioned" -> IF base.status = "absent" THEN "unverified" ELSE base.status

SelectStatus(name, update, base) ==
    IF name \notin TrackedFields THEN "absent"
    ELSE IF update.status # "unmentioned" THEN update.status
    ELSE ImpliedStatus(update.value, base)

\* Mutant: a field that is not mentioned loses its value.
SelectFieldForgetful(name, update, base) ==
    [given  |-> update.value = "value",
     status |-> SelectStatus(name, update, base)]

\* _goal_from_params on one field: base is the field in the mission's present
\* goal, or NoField when the mission is being started.
SelectField(name, update, base) ==
    [given  |-> update.value = "value" \/ (update.value = "unmentioned" /\ base.given),
     status |-> SelectStatus(name, update, base)]

GoalFromParams(updates, risk, research, base) ==
    [fields   |-> [name \in CriticalFields |-> SelectField(name, updates[name], base[name])],
     risk     |-> risk,
     research |-> research]

\* The goal a revision is given: select() takes what a call does not mention
\* from the present goal, whose constraints are a tuple, and what follows lets
\* only a list or null through.
RevisionAccepted(updates) ==
    "constraints" \in CriticalFields => updates["constraints"].value # "unmentioned"

-----------------------------------------------------------------------------
(* Plans.                                                                  *)

ProductionStages ==
    <<"scope-risk", "requirements", "oracle", "design", "implementation",
      "integration-verification", "validation", "release">>

ExplorationStages ==
    <<"scope-risk", "goal-discovery", "method-discovery", "requirements", "oracle",
      "design", "implementation", "integration-verification", "validation", "release">>

Plan(g) == IF Exploration(g) THEN ExplorationStages ELSE ProductionStages

PlanKinds(g) == {Plan(g)[i] : i \in DOMAIN Plan(g)}

DesignRoles(g) ==
    {"architecture-specialist"}
        \cup (IF g.risk >= 2 THEN {"security-architect", "domain-specialist"} ELSE {})
        \cup (IF g.risk >= 3 THEN {"formal-methods-specialist"} ELSE {})

IndependentReviewers == {"independent-spec-reviewer", "independent-code-reviewer"}

\* Mutant: the independent reviewers join at the wrong risk level.
ValidationRolesTooLate(g) ==
    {"validation-specialist"}
        \cup (IF g.risk >= 3 THEN IndependentReviewers ELSE {})
        \cup (IF g.research THEN {"research-reproducibility-reviewer"} ELSE {})

ValidationRoles(g) ==
    {"validation-specialist"}
        \cup (IF g.risk >= 2 THEN IndependentReviewers ELSE {})
        \cup (IF g.research THEN {"research-reproducibility-reviewer"} ELSE {})

\* The roles of a stage, the manager left out: every use of a stage's roles in
\* the service subtracts "mission-manager".
Roles(g, kind) ==
    CASE kind = "scope-risk"       -> {Manager, "risk-analyst"} \ {Manager}
      [] kind = "goal-discovery"   -> {"goal-analyst", "domain-researcher", "data-analyst"}
      [] kind = "method-discovery" -> {"domain-researcher", "methodologist",
                                       "metric-specialist", "bias-reviewer"}
      [] kind = "requirements"     -> {"requirements-specialist"}
      [] kind = "oracle"           -> {"oracle-specialist"}
      [] kind = "design"           -> DesignRoles(g)
      [] kind = "implementation"   -> {"implementation-specialist"}
      [] kind = "integration-verification" -> {"verification-specialist"}
      [] kind = "validation"       -> ValidationRoles(g)
      [] kind = "release"          -> {"release-specialist"}

AllRoles == {"risk-analyst", "goal-analyst", "domain-researcher", "data-analyst",
             "methodologist", "metric-specialist", "bias-reviewer",
             "requirements-specialist", "oracle-specialist", "architecture-specialist",
             "security-architect", "domain-specialist", "formal-methods-specialist",
             "implementation-specialist", "verification-specialist",
             "validation-specialist", "independent-spec-reviewer",
             "independent-code-reviewer", "research-reproducibility-reviewer",
             "release-specialist"}

Inputs(kind) ==
    CASE kind = "scope-risk"       -> {"goal-draft"}
      [] kind = "goal-discovery"   -> {"goal-draft", "scope-risk-assessment"}
      [] kind = "method-discovery" -> {"goal-definition", "scope-risk-assessment"}
      [] kind = "requirements"     -> {"goal-definition", "method-decision"}
      [] kind = "oracle"           -> {"requirements-baseline"}
      [] kind = "design"           -> {"requirements-baseline", "acceptance-oracle"}
      [] kind = "implementation"   -> {"requirements-baseline", "acceptance-oracle",
                                       "design-baseline"}
      [] kind = "integration-verification" -> {"frozen-candidate", "acceptance-oracle"}
      [] kind = "validation"       -> {"frozen-candidate", "verification-evidence"}
      [] kind = "release"          -> {"approved-candidate", "gate-decision"}

\* Every stage of the table requires exactly one output document.
Output(kind) ==
    CASE kind = "scope-risk"       -> "scope-risk-assessment"
      [] kind = "goal-discovery"   -> "goal-definition"
      [] kind = "method-discovery" -> "method-decision"
      [] kind = "requirements"     -> "requirements-baseline"
      [] kind = "oracle"           -> "acceptance-oracle"
      [] kind = "design"           -> "design-baseline"
      [] kind = "implementation"   -> "implementation-artifacts"
      [] kind = "integration-verification" -> "verification-evidence"
      [] kind = "validation"       -> "review-findings"
      [] kind = "release"          -> "release-decision"

ServiceOutputs == {"frozen-candidate", "approved-candidate", "gate-decision",
                   "release-package"}

OutputIds == {"goal-draft"} \cup {Output(kind) : kind \in StageKinds} \cup ServiceOutputs

\* Mutant: a mission without discovery stages starts with the draft only.
InitialOutputsDraftOnly(g) == {"goal-draft"}

\* The documents a mission, or a new revision of it, starts with.
InitialOutputs(g) ==
    {"goal-draft"}
        \cup (IF "goal-discovery" \in PlanKinds(g) THEN {} ELSE {"goal-definition"})
        \cup (IF "method-discovery" \in PlanKinds(g) THEN {} ELSE {"method-decision"})

-----------------------------------------------------------------------------
(* Evidence and authority that follow from the plan.                       *)

AssuranceClaims == {"method-validity", "algorithm-fidelity", "metric-validity",
                    "experiment-integrity", "reproducibility-lineage", "scope-purity"}

EvidenceTypes == {"acceptance-test", "security-review"} \cup AssuranceClaims

RequiredEvidence(g) ==
    {"acceptance-test"} \cup (IF g.risk >= 2 THEN {"security-review"} ELSE {})
                        \cup (IF g.research THEN AssuranceClaims ELSE {})

\* Who may produce evidence of a required type.
EvidenceRoles(g, type) ==
    CASE type = "acceptance-test" -> Roles(g, "integration-verification")
      [] type = "security-review" -> Roles(g, "validation") \cap IndependentReviewers
      [] OTHER                    -> Roles(g, "validation")

\* What the tasks of a stage are allowed, whatever the role.
Permission(kind) ==
    [tools   |-> {"read-input", "write-result"} \cup
                 CASE kind = "implementation" -> {"write-file", "run-tests"}
                   [] kind = "integration-verification" ->
                          {"read-candidate", "run-tests", "write-evidence"}
                   [] kind = "validation" ->
                          {"read-candidate", "read-evidence", "write-finding", "approve"}
                   [] kind = "release" -> {"read-approved-candidate", "package"}
                   [] OTHER -> {},
     areas   |-> {"work", "tmp"} \cup
                 (IF kind \in {"implementation", "integration-verification", "release"}
                  THEN {"build"} ELSE {}),
     execute |-> kind \in {"oracle", "implementation", "integration-verification", "release"},
     approve |-> kind = "validation"]

\* The gate does not look at those permissions but at a catalogue of its own,
\* which starts with these roles, one of which may approve.
DefaultRoles == {"independent-code-reviewer", "implementation-specialist",
                 "oracle-specialist", "verification-specialist", Manager,
                 "release-specialist", "security-reviewer"}

DefaultApprovers == {"independent-code-reviewer"}

\* Mutant: the roles of the plan are not added to the catalogue.
CanApproveByDefault(g, role) == role \in DefaultApprovers

\* approve_candidate adds the roles of the plan, stage by stage; a role that is
\* there already keeps the profile it has.
CanApprove(g, role) ==
    IF role \in DefaultRoles THEN role \in DefaultApprovers
    ELSE \E i \in DOMAIN Plan(g) :
            /\ Plan(g)[i] = "validation" /\ role \in Roles(g, "validation")
            /\ \A j \in 1..(i - 1) : role \notin Roles(g, Plan(g)[j])
=============================================================================
