--------------------------- MODULE PlanningProofs ---------------------------
(***************************************************************************)
(* Proofs about Planning, for any set of critical fields and any part of   *)
(* them whose status the service tracks.                                   *)
(***************************************************************************)
EXTENDS Planning, PlanLemmas

\* What any number of rounds of SelectField can have made of a field: a tracked
\* field that nobody doubted counts as unverified only for want of a value.
Sensible(name, f, doubts) ==
    /\ name \notin TrackedFields => f.status = "absent"
    /\ name \in TrackedFields => f.status # "absent"
    /\ name \in TrackedFields \ doubts =>
           f.status \in {"confirmed", "inferred"} \/ (f.status = "unverified" /\ ~f.given)

IInv == TypeOK /\ \A name \in CriticalFields : Sensible(name, goal.fields[name], doubted)

\* One field of a goal that is built from a sensible base.
LEMMA FieldSelected ==
    ASSUME NEW name \in CriticalFields, NEW update \in FieldUpdates, NEW base \in FieldState,
           NEW doubts, NEW more, base = NoField \/ Sensible(name, base, doubts),
           name \in TrackedFields /\ update.status \in Doubtful => name \in more
    PROVE  /\ SelectField(name, update, base) \in FieldState
           /\ Sensible(name, SelectField(name, update, base), doubts \cup more)
<1> DEFINE f == SelectField(name, update, base)
<1>1. /\ base.status \in KnowledgeStatus \cup {"absent"} /\ base.given \in BOOLEAN
      /\ update.value \in {"unmentioned", "value", "null"}
      /\ update.status \in KnowledgeStatus \cup {"unmentioned"}
  BY DEF FieldState, FieldUpdates
<1>2. base = NoField => base.status = "absent" /\ base.given = FALSE
  BY DEF NoField
<1>3. f.given = (update.value = "value" \/ (update.value = "unmentioned" /\ base.given))
  BY DEF SelectField
<1>4. /\ name \notin TrackedFields => f.status = "absent"
      /\ name \in TrackedFields /\ update.status # "unmentioned" => f.status = update.status
      /\ name \in TrackedFields /\ update.status = "unmentioned" =>
             f.status = ImpliedStatus(update.value, base)
  BY DEF SelectField, SelectStatus
<1>5. f = [given |-> f.given, status |-> f.status]
  BY DEF SelectField
<1>6. /\ update.value = "value" => ImpliedStatus(update.value, base) = "confirmed"
      /\ update.value = "null" => ImpliedStatus(update.value, base) = "unverified"
      /\ update.value = "unmentioned" /\ base.status = "absent" =>
             ImpliedStatus(update.value, base) = "unverified"
      /\ update.value = "unmentioned" /\ base.status # "absent" =>
             ImpliedStatus(update.value, base) = base.status
  BY DEF ImpliedStatus
<1> HIDE DEF f
<1>7. /\ f.given \in BOOLEAN /\ f.status \in KnowledgeStatus \cup {"absent"}
      /\ name \in TrackedFields => f.status # "absent"
  BY <1>1, <1>3, <1>4, <1>6 DEF KnowledgeStatus
<1>8. f \in FieldState
  BY <1>5, <1>7 DEF FieldState
<1>9. ASSUME name \in TrackedFields \ (doubts \cup more)
      PROVE  f.status \in {"confirmed", "inferred"} \/ (f.status = "unverified" /\ ~f.given)
  <2>1. CASE update.status # "unmentioned"
    BY <2>1, <1>1, <1>4, <1>9 DEF KnowledgeStatus, Doubtful
  <2>2. CASE update.status = "unmentioned" /\ update.value # "unmentioned"
    BY <2>2, <1>1, <1>3, <1>4, <1>6, <1>9
  <2>3. CASE update.status = "unmentioned" /\ update.value = "unmentioned"
    BY <2>3, <1>1, <1>2, <1>3, <1>4, <1>6, <1>9 DEF Sensible
  <2> QED
    BY <2>1, <2>2, <2>3
<1>10. Sensible(name, f, doubts \cup more)
  BY <1>4, <1>7, <1>9 DEF Sensible
<1> QED
  BY <1>8, <1>10 DEF f

\* The first goal, and every goal built from one that satisfies it, satisfies
\* the invariant.
LEMMA GoalBuilt ==
    ASSUME NEW updates \in Updates, NEW risk \in 0..3, NEW research \in BOOLEAN,
           NEW base \in [CriticalFields -> FieldState], NEW doubts,
           \A name \in CriticalFields : base[name] = NoField \/ Sensible(name, base[name], doubts)
    PROVE  LET g == GoalFromParams(updates, risk, research, base)
           IN /\ g \in Goal
              /\ \A name \in CriticalFields :
                    Sensible(name, g.fields[name], doubts \cup Doubts(updates))
<1> DEFINE g == GoalFromParams(updates, risk, research, base)
<1>1. \A name \in CriticalFields : g.fields[name] = SelectField(name, updates[name], base[name])
  BY DEF GoalFromParams
<1>2. ASSUME NEW name \in CriticalFields
      PROVE  /\ g.fields[name] \in FieldState
             /\ Sensible(name, g.fields[name], doubts \cup Doubts(updates))
  <2>1. updates[name] \in FieldUpdates /\ base[name] \in FieldState
    BY DEF Updates
  <2>2. g.fields[name] = SelectField(name, updates[name], base[name])
    BY <1>1
  <2>3. name \in TrackedFields /\ updates[name].status \in Doubtful => name \in Doubts(updates)
    BY DEF Doubts
  <2> HIDE DEF g
  <2> QED
    BY <2>1, <2>2, <2>3, FieldSelected
<1>3. g \in Goal
  <2>1. g = [fields |-> g.fields, risk |-> risk, research |-> research]
    BY DEF GoalFromParams
  <2>2. g.fields \in [CriticalFields -> FieldState]
    BY <1>2 DEF GoalFromParams
  <2> HIDE DEF g
  <2> QED
    BY <2>1, <2>2 DEF Goal
<1> QED
  BY <1>2, <1>3

\* Starting and revising keep every field sensible.
LEMMA Invariance == Spec => []IInv
<1>1. Init => IInv
  <2> SUFFICES ASSUME Init PROVE IInv
    OBVIOUS
  <2> DEFINE base == [name \in CriticalFields |-> NoField]
  <2>1. PICK updates \in Updates, risk \in 0..3, research \in BOOLEAN :
            /\ goal = GoalFromParams(updates, risk, research, base)
            /\ doubted = Doubts(updates)
    BY DEF Init
  <2>2. base \in [CriticalFields -> FieldState]
    BY DEF NoField, FieldState
  <2>3. \A name \in CriticalFields : base[name] = NoField
    OBVIOUS
  <2> HIDE DEF base
  <2>4. /\ goal \in Goal
        /\ \A name \in CriticalFields :
              Sensible(name, goal.fields[name], {} \cup Doubts(updates))
    BY <2>1, <2>2, <2>3, GoalBuilt
  <2>5. {} \cup Doubts(updates) = doubted
    BY <2>1
  <2> QED
    BY <2>4, <2>5 DEF IInv, TypeOK
<1>2. IInv /\ [Next]_vars => IInv'
  <2> SUFFICES ASSUME IInv, [Next]_vars PROVE IInv'
    OBVIOUS
  <2>1. CASE Next
    <3>1. PICK updates \in Updates, risk \in 0..3, research \in BOOLEAN :
              /\ goal' = GoalFromParams(updates, risk, research, goal.fields)
              /\ doubted' = doubted \cup Doubts(updates)
      BY <2>1 DEF Next, Revise
    <3>2. goal.fields \in [CriticalFields -> FieldState]
      BY DEF IInv, TypeOK, Goal
    <3>3. /\ goal' \in Goal
          /\ \A name \in CriticalFields :
                Sensible(name, goal'.fields[name], doubted \cup Doubts(updates))
      BY <3>1, <3>2, GoalBuilt DEF IInv
    <3>4. \A name \in CriticalFields : Sensible(name, goal'.fields[name], doubted')
      BY <3>1, <3>3
    <3> QED
      BY <3>3, <3>4 DEF IInv, TypeOK, Sensible
  <2>2. CASE UNCHANGED vars
    BY <2>2 DEF vars, IInv, TypeOK, Sensible
  <2> QED
    BY <2>1, <2>2
<1> QED
  BY <1>1, <1>2, PTL DEF Spec

-----------------------------------------------------------------------------

\* A mission's goal is always one the planner was written for.
THEOREM GoalsTyped == Spec => []TypeOK
<1>1. IInv => TypeOK
  BY DEF IInv
<1> QED
  BY <1>1, Invariance, PTL

\* No plan strands a mission for want of a document, whatever the goal.
THEOREM PlansClosed == Spec => []InputsClosed
<1>1. InputsClosed
  <2> SUFFICES ASSUME NEW i \in DOMAIN Plan(goal)
               PROVE  Inputs(Plan(goal)[i]) \subseteq Available(goal, i)
    BY DEF InputsClosed
  <2> DEFINE n == Len(Plan(goal))
  <2>1. /\ n \in {8, 10} /\ i \in 1..n
        /\ Plan(goal)[n - 3] = "implementation" /\ Plan(goal)[n - 1] = "validation"
    <3>1. n \in {8, 10} /\ i \in 1..n
      BY PlanShape
    <3>2. \A j \in 1..n : /\ Plan(goal)[j] = "implementation" <=> j = n - 3
                          /\ Plan(goal)[j] = "validation" <=> j = n - 1
      BY PlanShape
    <3> HIDE DEF n
    <3>3. n - 3 \in 1..n /\ n - 1 \in 1..n
      BY <3>1
    <3> QED
      BY <3>1, <3>2, <3>3
  <2> HIDE DEF n
  <2>2. i > n - 3 => "frozen-candidate" \in Available(goal, i)
    <3> SUFFICES ASSUME i > n - 3 PROVE "frozen-candidate" \in Available(goal, i)
      OBVIOUS
    <3>1. n - 3 \in 1..(i - 1) /\ "frozen-candidate" \in BoundOnLeaving(Plan(goal)[n - 3])
      BY <2>1 DEF BoundOnLeaving
    <3> QED
      BY <3>1 DEF Available
  <2>3. i > n - 1 => {"approved-candidate", "gate-decision"} \subseteq Available(goal, i)
    <3> SUFFICES ASSUME i > n - 1
                 PROVE  {"approved-candidate", "gate-decision"} \subseteq Available(goal, i)
      OBVIOUS
    <3>1. /\ n - 1 \in 1..(i - 1)
          /\ {"approved-candidate", "gate-decision"} \subseteq BoundOnLeaving(Plan(goal)[n - 1])
      BY <2>1 DEF BoundOnLeaving
    <3> QED
      BY <3>1 DEF Available
  <2>4. HasProduced(goal, i, Available(goal, i))
    BY <2>2, <2>3 DEF HasProduced, Available, n
  <2> QED
    BY <2>1, <2>4, InputsProduced DEF n
<1> QED
  BY <1>1, PTL

\* A missing value always brings the discovery stages, and nothing but a missing
\* value or a doubt somebody voiced does: REQ-GOAL-002 and REQ-GOAL-003.
THEOREM DiscoveryExact == Spec => []DiscoveryWhenUnresolved
<1>1. IInv => DiscoveryWhenUnresolved
  <2> SUFFICES ASSUME IInv PROVE DiscoveryWhenUnresolved
    OBVIOUS
  <2>1. Exploration(goal) => "goal-discovery" \in PlanKinds(goal)
    BY DEF Plan, PlanKinds, ExplorationStages
  <2>2. ~Exploration(goal) => "goal-discovery" \notin PlanKinds(goal)
    <3> SUFFICES ASSUME ~Exploration(goal) PROVE "goal-discovery" \notin PlanKinds(goal)
      OBVIOUS
    <3>1. Plan(goal) = ProductionStages
      BY DEF Plan
    <3>2. \A j \in 1..8 : j = 1 \/ j = 2 \/ j = 3 \/ j = 4 \/ j = 5 \/ j = 6 \/ j = 7 \/ j = 8
      OBVIOUS
    <3> QED
      BY <3>1, <3>2 DEF PlanKinds, ProductionStages
  <2>3. (\E name \in CriticalFields : ~goal.fields[name].given) => Exploration(goal)
    BY DEF Exploration, Unresolved
  <2>4. ASSUME NEW name \in CriticalFields, Unresolved(goal.fields[name])
        PROVE  ~goal.fields[name].given \/ name \in doubted
    <3>1. Sensible(name, goal.fields[name], doubted)
      BY DEF IInv
    <3> QED
      BY <2>4, <3>1 DEF Unresolved, Sensible
  <2> QED
    BY <2>1, <2>2, <2>3, <2>4 DEF DiscoveryWhenUnresolved, Exploration
<1> QED
  BY <1>1, Invariance, PTL

\* Whatever evidence a candidate needs, somebody other than its implementer has
\* a task on which he can record it, and somebody else can approve it.
THEOREM EvidenceAlwaysProducible == Spec => []EvidenceProducible
<1>1. EvidenceProducible
  <2>1. "verification-specialist" \in Roles(goal, "integration-verification")
    BY DEF Roles
  <2>2. Roles(goal, "validation") = ValidationRoles(goal)
    BY DEF Roles
  <2>3. Roles(goal, "implementation") = {"implementation-specialist"}
    BY DEF Roles
  <2>4. "validation-specialist" \in ValidationRoles(goal)
    BY DEF ValidationRoles
  <2>5. ASSUME NEW type \in RequiredEvidence(goal)
        PROVE  EvidenceRoles(goal, type)
                  \cap (Roles(goal, "integration-verification") \cup Roles(goal, "validation"))
                  \cap (AllRoles \ Roles(goal, "implementation")) # {}
    <3>1. CASE type = "acceptance-test"
      BY <3>1, <2>1, <2>3 DEF EvidenceRoles, AllRoles
    <3>2. CASE type = "security-review"
      <4>1. goal.risk >= 2
        BY <3>2 DEF RequiredEvidence, AssuranceClaims
      <4>2. "independent-spec-reviewer" \in ValidationRoles(goal) \cap IndependentReviewers
        BY <4>1 DEF ValidationRoles, IndependentReviewers
      <4> QED
        BY <3>2, <4>2, <2>2, <2>3 DEF EvidenceRoles, AllRoles
    <3>3. CASE type \notin {"acceptance-test", "security-review"}
      BY <3>3, <2>2, <2>3, <2>4 DEF EvidenceRoles, AllRoles
    <3> QED
      BY <3>1, <3>2, <3>3
  <2> QED
    <3> DEFINE n == Len(Plan(goal))
               i == n - 1
    <3>0. n \in {8, 10}
      BY PlanShape
    <3>1. i \in 1..n
      <4> HIDE DEF n
      <4> QED
        BY <3>0
    <3>2. Plan(goal)[i] = "validation"
      BY <3>1, PlanShape
    <3>3. "validation" \in PlanKinds(goal) /\ "validation" \in StageKinds
      BY <3>2, PlanShape DEF PlanKinds, StageKinds
    <3>4. CanApprove(goal, "validation-specialist")
      BY <2>2, <2>4, <3>3, JudgesApprove
    <3> QED
      BY <2>2, <2>3, <2>4, <2>5, <3>4 DEF EvidenceProducible
<1> QED
  BY <1>1, PTL

\* The gate accepts an approval from exactly the roles the plan permits to give
\* one, and who writes product files neither approves nor produces evidence.
THEOREM DutiesAlwaysSeparated == Spec => []DutiesSeparated
<1>1. DutiesSeparated
  <2> SUFFICES ASSUME NEW i \in DOMAIN Plan(goal), NEW role \in Roles(goal, Plan(goal)[i])
               PROVE  /\ CanApprove(goal, role) <=> Permission(Plan(goal)[i]).approve
                      /\ "write-file" \in Permission(Plan(goal)[i]).tools =>
                            \A type \in RequiredEvidence(goal) :
                                role \notin EvidenceRoles(goal, type)
    BY DEF DutiesSeparated
  <2> DEFINE kind == Plan(goal)[i]
  <2>1. kind \in StageKinds /\ kind \in PlanKinds(goal)
    BY PlanShape DEF PlanKinds
  <2>2. Permission(kind).approve <=> kind = "validation"
    BY DEF Permission
  <2>3. CanApprove(goal, role) <=> Permission(kind).approve
    BY <2>1, <2>2, JudgesApprove
  <2>4. "write-file" \in Permission(kind).tools => kind = "implementation"
    BY <2>1 DEF Permission, StageKinds
  <2>5. ASSUME kind = "implementation", NEW type \in RequiredEvidence(goal)
        PROVE  role \notin EvidenceRoles(goal, type)
    <3>1. role = "implementation-specialist"
      BY <2>5 DEF Roles
    <3>2. role \notin Roles(goal, "validation")
      BY <3>1 DEF Roles, ValidationRoles, IndependentReviewers
    <3>3. role \notin Roles(goal, "integration-verification")
      BY <3>1 DEF Roles
    <3> QED
      BY <3>2, <3>3 DEF EvidenceRoles
  <2> QED
    BY <2>3, <2>4, <2>5
<1> QED
  BY <1>1, PTL

\* Saying nothing of a field keeps it, however many revisions came before.
THEOREM SilenceIsKept == Spec => []SilenceKeepsFields
<1>1. IInv => SilenceKeepsFields
  <2> SUFFICES ASSUME IInv, NEW name \in CriticalFields
               PROVE  SelectField(name, Silence, goal.fields[name]) = goal.fields[name]
    BY DEF SilenceKeepsFields
  <2> DEFINE f == goal.fields[name]
  <2>1. f \in FieldState /\ f = [status |-> f.status, given |-> f.given]
    BY DEF IInv, TypeOK, Goal, FieldState
  <2>2. /\ name \in TrackedFields => f.status # "absent"
        /\ name \notin TrackedFields => f.status = "absent"
    BY DEF IInv, Sensible
  <2>3. f.given \in BOOLEAN
    BY <2>1 DEF FieldState
  <2>4. SelectField(name, Silence, f).given = f.given
    BY <2>3 DEF SelectField, Silence
  <2>5. SelectField(name, Silence, f).status = f.status
    BY <2>2 DEF SelectField, SelectStatus, ImpliedStatus, Silence
  <2>6. SelectField(name, Silence, f) = [status |-> SelectField(name, Silence, f).status,
                                         given  |-> SelectField(name, Silence, f).given]
    BY DEF SelectField
  <2> QED
    BY <2>1, <2>4, <2>5, <2>6
<1> QED
  BY <1>1, Invariance, PTL
=============================================================================
