----------------------------- MODULE PlanLemmas -----------------------------
(***************************************************************************)
(* Facts about the planner's tables, for every goal: where a stage stands  *)
(* in its plan, and where the documents it consumes come from.             *)
(***************************************************************************)
EXTENDS Methodology, TLAPS

\* The two plans in one sentence: the last four stages are the same and stand
\* at the end, and no stage occurs twice.
LEMMA PlanShape ==
    ASSUME NEW g
    PROVE  /\ Len(Plan(g)) \in {8, 10} /\ DOMAIN Plan(g) = 1..Len(Plan(g))
           /\ \A i \in 1..Len(Plan(g)) :
                 /\ Plan(g)[i] \in StageKinds
                 /\ Plan(g)[i] = "implementation" <=> i = Len(Plan(g)) - 3
                 /\ Plan(g)[i] = "integration-verification" <=> i = Len(Plan(g)) - 2
                 /\ Plan(g)[i] = "validation" <=> i = Len(Plan(g)) - 1
                 /\ Plan(g)[i] = "release" <=> i = Len(Plan(g))
<1>1. CASE Exploration(g)
  <2>1. Plan(g) = ExplorationStages
    BY <1>1 DEF Plan
  <2>2. /\ Len(ExplorationStages) = 10 /\ DOMAIN ExplorationStages = 1..10
        /\ ExplorationStages[1] = "scope-risk" /\ ExplorationStages[2] = "goal-discovery"
        /\ ExplorationStages[3] = "method-discovery" /\ ExplorationStages[4] = "requirements"
        /\ ExplorationStages[5] = "oracle" /\ ExplorationStages[6] = "design"
        /\ ExplorationStages[7] = "implementation"
        /\ ExplorationStages[8] = "integration-verification"
        /\ ExplorationStages[9] = "validation" /\ ExplorationStages[10] = "release"
    BY DEF ExplorationStages
  <2>3. \A i \in 1..10 : i = 1 \/ i = 2 \/ i = 3 \/ i = 4 \/ i = 5 \/ i = 6 \/ i = 7 \/ i = 8
                            \/ i = 9 \/ i = 10
    OBVIOUS
  <2> QED
    BY <2>1, <2>2, <2>3 DEF StageKinds
<1>2. CASE ~Exploration(g)
  <2>1. Plan(g) = ProductionStages
    BY <1>2 DEF Plan
  <2>2. /\ Len(ProductionStages) = 8 /\ DOMAIN ProductionStages = 1..8
        /\ ProductionStages[1] = "scope-risk" /\ ProductionStages[2] = "requirements"
        /\ ProductionStages[3] = "oracle" /\ ProductionStages[4] = "design"
        /\ ProductionStages[5] = "implementation"
        /\ ProductionStages[6] = "integration-verification"
        /\ ProductionStages[7] = "validation" /\ ProductionStages[8] = "release"
    BY DEF ProductionStages
  <2>3. \A i \in 1..8 : i = 1 \/ i = 2 \/ i = 3 \/ i = 4 \/ i = 5 \/ i = 6 \/ i = 7 \/ i = 8
    OBVIOUS
  <2> QED
    BY <2>1, <2>2, <2>3 DEF StageKinds
<1> QED
  BY <1>1, <1>2

\* No stage occurs twice in a plan.
LEMMA PlanInjective ==
    ASSUME NEW g
    PROVE  \A i, j \in 1..Len(Plan(g)) : Plan(g)[i] = Plan(g)[j] => i = j
<1>1. CASE Exploration(g)
  <2>1. Plan(g) = ExplorationStages
    BY <1>1 DEF Plan
  <2>2. \A i \in 1..10 : i = 1 \/ i = 2 \/ i = 3 \/ i = 4 \/ i = 5 \/ i = 6 \/ i = 7 \/ i = 8
                            \/ i = 9 \/ i = 10
    OBVIOUS
  <2> QED
    BY <2>1, <2>2 DEF ExplorationStages
<1>2. CASE ~Exploration(g)
  <2>1. Plan(g) = ProductionStages
    BY <1>2 DEF Plan
  <2>2. \A i \in 1..8 : i = 1 \/ i = 2 \/ i = 3 \/ i = 4 \/ i = 5 \/ i = 6 \/ i = 7 \/ i = 8
    OBVIOUS
  <2> QED
    BY <2>1, <2>2 DEF ProductionStages
<1> QED
  BY <1>1, <1>2

\* The documents a mission has in the stage at position i of its plan, if
\* leaving implementation takes a candidate and leaving validation an approval.
HasProduced(g, i, documents) ==
    /\ InitialOutputs(g) \subseteq documents
    /\ \A j \in 1..(i - 1) : Output(Plan(g)[j]) \in documents
    /\ i > Len(Plan(g)) - 3 => "frozen-candidate" \in documents
    /\ i > Len(Plan(g)) - 1 => {"approved-candidate", "gate-decision"} \subseteq documents

\* No stage waits for a document that the stages before it do not produce.
LEMMA InputsProduced ==
    ASSUME NEW g, NEW i \in 1..Len(Plan(g)), NEW documents, HasProduced(g, i, documents)
    PROVE  Inputs(Plan(g)[i]) \subseteq documents
<1>1. CASE Exploration(g)
  <2>1. Plan(g) = ExplorationStages
    BY <1>1 DEF Plan
  <2>2. /\ Len(ExplorationStages) = 10
        /\ ExplorationStages[1] = "scope-risk" /\ ExplorationStages[2] = "goal-discovery"
        /\ ExplorationStages[3] = "method-discovery" /\ ExplorationStages[4] = "requirements"
        /\ ExplorationStages[5] = "oracle" /\ ExplorationStages[6] = "design"
        /\ ExplorationStages[7] = "implementation"
        /\ ExplorationStages[8] = "integration-verification"
        /\ ExplorationStages[9] = "validation" /\ ExplorationStages[10] = "release"
    BY DEF ExplorationStages
  <2>3. /\ "goal-draft" \in documents
        /\ \A j \in 1..(i - 1) : Output(ExplorationStages[j]) \in documents
        /\ i > 7 => "frozen-candidate" \in documents
        /\ i > 9 => {"approved-candidate", "gate-decision"} \subseteq documents
    BY <2>1, <2>2 DEF HasProduced, InitialOutputs
  <2>4. CASE i = 1
    BY <2>4, <2>1, <2>2, <2>3 DEF Inputs, Output
  <2>5. CASE i = 2
    BY <2>5, <2>1, <2>2, <2>3 DEF Inputs, Output
  <2>6. CASE i = 3
    BY <2>6, <2>1, <2>2, <2>3 DEF Inputs, Output
  <2>7. CASE i = 4
    BY <2>7, <2>1, <2>2, <2>3 DEF Inputs, Output
  <2>8. CASE i = 5
    BY <2>8, <2>1, <2>2, <2>3 DEF Inputs, Output
  <2>9. CASE i = 6
    BY <2>9, <2>1, <2>2, <2>3 DEF Inputs, Output
  <2>10. CASE i = 7
    BY <2>10, <2>1, <2>2, <2>3 DEF Inputs, Output
  <2>11. CASE i = 8
    BY <2>11, <2>1, <2>2, <2>3 DEF Inputs, Output
  <2>12. CASE i = 9
    BY <2>12, <2>1, <2>2, <2>3 DEF Inputs, Output
  <2>13. CASE i = 10
    BY <2>13, <2>1, <2>2, <2>3 DEF Inputs, Output
  <2> QED
    BY <2>1, <2>2, <2>4, <2>5, <2>6, <2>7, <2>8, <2>9, <2>10, <2>11, <2>12, <2>13
<1>2. CASE ~Exploration(g)
  <2>1. Plan(g) = ProductionStages
    BY <1>2 DEF Plan
  <2>2. /\ Len(ProductionStages) = 8 /\ DOMAIN ProductionStages = 1..8
        /\ ProductionStages[1] = "scope-risk" /\ ProductionStages[2] = "requirements"
        /\ ProductionStages[3] = "oracle" /\ ProductionStages[4] = "design"
        /\ ProductionStages[5] = "implementation"
        /\ ProductionStages[6] = "integration-verification"
        /\ ProductionStages[7] = "validation" /\ ProductionStages[8] = "release"
    BY DEF ProductionStages
  <2>3. /\ {"goal-draft", "goal-definition", "method-decision"} \subseteq documents
        /\ \A j \in 1..(i - 1) : Output(ProductionStages[j]) \in documents
        /\ i > 5 => "frozen-candidate" \in documents
        /\ i > 7 => {"approved-candidate", "gate-decision"} \subseteq documents
    <3>1. {"goal-discovery", "method-discovery"} \cap PlanKinds(g) = {}
      <4>1. \A j \in 1..8 : j = 1 \/ j = 2 \/ j = 3 \/ j = 4 \/ j = 5 \/ j = 6 \/ j = 7 \/ j = 8
        OBVIOUS
      <4> QED
        BY <2>1, <2>2, <4>1 DEF PlanKinds
    <3> QED
      BY <2>1, <2>2, <3>1 DEF HasProduced, InitialOutputs
  <2>4. CASE i = 1
    BY <2>4, <2>1, <2>2, <2>3 DEF Inputs, Output
  <2>5. CASE i = 2
    BY <2>5, <2>1, <2>2, <2>3 DEF Inputs, Output
  <2>6. CASE i = 3
    BY <2>6, <2>1, <2>2, <2>3 DEF Inputs, Output
  <2>7. CASE i = 4
    BY <2>7, <2>1, <2>2, <2>3 DEF Inputs, Output
  <2>8. CASE i = 5
    BY <2>8, <2>1, <2>2, <2>3 DEF Inputs, Output
  <2>9. CASE i = 6
    BY <2>9, <2>1, <2>2, <2>3 DEF Inputs, Output
  <2>10. CASE i = 7
    BY <2>10, <2>1, <2>2, <2>3 DEF Inputs, Output
  <2>11. CASE i = 8
    BY <2>11, <2>1, <2>2, <2>3 DEF Inputs, Output
  <2> QED
    BY <2>1, <2>2, <2>4, <2>5, <2>6, <2>7, <2>8, <2>9, <2>10, <2>11
<1> QED
  BY <1>1, <1>2

\* Whoever judges in the validation stage works in no other.
LEMMA JudgesApart ==
    ASSUME NEW g, NEW kind \in StageKinds \ {"validation"}, NEW role \in Roles(g, kind)
    PROVE  role \notin {"validation-specialist", "independent-spec-reviewer",
                        "independent-code-reviewer", "research-reproducibility-reviewer"}
<1>1. CASE kind \in {"scope-risk", "goal-discovery", "method-discovery", "requirements"}
  BY <1>1 DEF Roles, Manager
<1>2. CASE kind = "design"
  BY <1>2 DEF Roles, DesignRoles
<1>3. CASE kind \in {"oracle", "implementation", "integration-verification", "release"}
  BY <1>3 DEF Roles
<1> QED
  BY <1>1, <1>2, <1>3 DEF StageKinds

\* The gate's catalogue lets the roles of the validation stage approve, and
\* nobody else who works in the plan.
LEMMA JudgesApprove ==
    ASSUME NEW g, NEW kind \in StageKinds, NEW role \in Roles(g, kind), kind \in PlanKinds(g)
    PROVE  CanApprove(g, role) <=> kind = "validation"
<1> DEFINE Judges == {"validation-specialist", "independent-spec-reviewer",
                      "independent-code-reviewer", "research-reproducibility-reviewer"}
<1>1. Roles(g, "validation") \subseteq Judges
  BY DEF Roles, ValidationRoles, IndependentReviewers
<1>2. CASE kind = "validation"
  <2>1. CASE role = "independent-code-reviewer"
    BY <2>1, <1>2 DEF CanApprove, DefaultRoles, DefaultApprovers
  <2>2. CASE role # "independent-code-reviewer"
    <3>1. role \notin DefaultRoles
      BY <1>1, <1>2, <2>2 DEF DefaultRoles, Manager
    <3>2. PICK i \in DOMAIN Plan(g) : Plan(g)[i] = "validation"
      BY <1>2 DEF PlanKinds
    <3>3. i \in 1..Len(Plan(g)) /\ i = Len(Plan(g)) - 1 /\ Len(Plan(g)) \in {8, 10}
      BY <3>2, PlanShape
    <3>4. ASSUME NEW j \in 1..(i - 1) PROVE role \notin Roles(g, Plan(g)[j])
      <4>1. j \in 1..Len(Plan(g)) /\ j # Len(Plan(g)) - 1
        BY <3>3
      <4>2. Plan(g)[j] \in StageKinds \ {"validation"}
        BY <4>1, PlanShape
      <4> QED
        BY <4>2, <1>1, <1>2, JudgesApart
    <3> QED
      BY <3>1, <3>2, <3>4, <1>2 DEF CanApprove
  <2> QED
    BY <2>1, <2>2, <1>2
<1>3. CASE kind # "validation"
  <2>1. role \notin Judges
    BY <1>3, JudgesApart
  <2>2. role \notin DefaultApprovers /\ role \notin Roles(g, "validation")
    BY <2>1, <1>1 DEF DefaultApprovers
  <2>3. ~CanApprove(g, role)
    <3>1. CASE role \in DefaultRoles
      BY <3>1, <2>2 DEF CanApprove
    <3>2. CASE role \notin DefaultRoles
      BY <3>2, <2>2 DEF CanApprove
    <3> QED
      BY <3>1, <3>2
  <2> QED
    BY <2>3, <1>3
<1> QED
  BY <1>2, <1>3
=============================================================================
