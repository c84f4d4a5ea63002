---------------------------- MODULE MissionProofs ---------------------------
(***************************************************************************)
(* Every operation of Mission keeps a mission record sound, for any goals, *)
(* contents and digests.  The service's theorems rest on these lemmas.     *)
(***************************************************************************)
EXTENDS MissionInvariants, PlanLemmas

\* Roles are role names.
LEMMA RolesKnown == ASSUME NEW g, NEW kind \in StageKinds PROVE Roles(g, kind) \subseteq AllRoles
BY DEF Roles, AllRoles, StageKinds, DesignRoles, ValidationRoles, IndependentReviewers, Manager

\* Positions of the last four stages in the plan of a mission.
LEMMA Positions ==
    ASSUME NEW m, IsMission(m)
    PROVE  LET n == Len(Plan(m.goal))
           IN /\ n \in {8, 10} /\ m.stage \in 1..n
              /\ Kind(m) \in StageKinds
              /\ Kind(m) = "implementation" <=> m.stage = n - 3
              /\ Kind(m) = "validation" <=> m.stage = n - 1
              /\ Kind(m) = "release" <=> m.stage = n
              /\ Behind(m, "implementation") <=> m.stage > n - 3
              /\ Behind(m, "validation") <=> m.stage > n - 1
              /\ Reached(m, "implementation") <=> m.stage >= n - 3
              /\ Reached(m, "integration-verification") <=> m.stage >= n - 2
              /\ Reached(m, "validation") <=> m.stage >= n - 1
              /\ Reached(m, "release") <=> m.stage >= n
<1> DEFINE n == Len(Plan(m.goal))
<1>1. n \in {8, 10} /\ m.stage \in 1..n
  BY PlanShape DEF IsMission
<1>2. \A i \in 1..n : /\ Plan(m.goal)[i] \in StageKinds
                      /\ Plan(m.goal)[i] = "implementation" <=> i = n - 3
                      /\ Plan(m.goal)[i] = "integration-verification" <=> i = n - 2
                      /\ Plan(m.goal)[i] = "validation" <=> i = n - 1
                      /\ Plan(m.goal)[i] = "release" <=> i = n
  BY PlanShape
<1> HIDE DEF n
<1>3. n - 3 \in 1..n /\ n - 2 \in 1..n /\ n - 1 \in 1..n /\ n \in 1..n
  BY <1>1
<1>4. /\ Behind(m, "implementation") <=> m.stage > n - 3
      /\ Behind(m, "validation") <=> m.stage > n - 1
  BY <1>1, <1>2, <1>3 DEF Behind
<1>5. /\ Reached(m, "implementation") <=> m.stage >= n - 3
      /\ Reached(m, "integration-verification") <=> m.stage >= n - 2
      /\ Reached(m, "validation") <=> m.stage >= n - 1
      /\ Reached(m, "release") <=> m.stage >= n
  BY <1>1, <1>2, <1>3 DEF Reached
<1> QED
  BY <1>1, <1>2, <1>4, <1>5 DEF Kind, n

\* The documents of the present stage are there.
LEMMA DocumentsOfValid ==
    ASSUME NEW m, Valid(m) PROVE DocumentsReady(m)
<1>1. IsMission(m) /\ BindingsEarned(m) /\ Documented(m)
  BY DEF Valid
<1>2. HasProduced(m.goal, m.stage, m.outputs)
  BY <1>1, Positions DEF HasProduced, Documented, BindingsEarned
<1>3. m.stage \in 1..Len(Plan(m.goal))
  BY <1>1 DEF IsMission
<1> QED
  BY <1>2, <1>3, InputsProduced DEF DocumentsReady, InputsAvailable, Kind

\* A valid record is sound.
LEMMA ValidSound == ASSUME NEW m, Valid(m) PROVE SoundMission(m) /\ StagesEarned(m)
BY DocumentsOfValid DEF Valid, SoundMission

-----------------------------------------------------------------------------

\* A new mission.
LEMMA NewMissionValid ==
    ASSUME NEW g \in Goals PROVE Valid(NewMission(g))
<1> DEFINE m == NewMission(g)
<1>1. /\ m.rev = 1 /\ m.goal = g /\ m.stage = 1 /\ m.tasks = <<>>
      /\ m.outputs = InitialOutputs(g) /\ m.active = None
      /\ m.approved = FALSE /\ m.released = FALSE /\ m.completed = FALSE
      /\ DOMAIN m = {"rev", "goal", "stage", "tasks", "outputs", "active", "approved",
                     "released", "completed"}
  BY DEF NewMission
<1>2. DOMAIN m.tasks = {}
  BY <1>1
<1> HIDE DEF m
<1>3. IsMission(m)
  <2>1. Len(Plan(g)) \in {8, 10}
    BY PlanShape
  <2>2. InitialOutputs(g) \subseteq OutputIds
    BY DEF InitialOutputs, OutputIds, Output, StageKinds
  <2>3. m.rev \in Nat \ {0} /\ m.stage \in 1..Len(Plan(m.goal))
    BY <1>1, <2>1
  <2>4. m.outputs \subseteq OutputIds
    BY <1>1, <2>2
  <2>5. DOMAIN m.tasks \subseteq TaskIds /\ \A t \in DOMAIN m.tasks : m.tasks[t] \in Tasks
    BY <1>2
  <2>6. m.active \in CandidateIds \cup {None}
    BY <1>1
  <2>7. m.approved \in BOOLEAN /\ m.released \in BOOLEAN /\ m.completed \in BOOLEAN
    BY <1>1
  <2> QED
    BY <1>1, <2>3, <2>4, <2>5, <2>6, <2>7 DEF IsMission
<1>4. BindingsEarned(m)
  <2>1. ~Behind(m, "implementation") /\ ~Behind(m, "validation")
    BY <1>1 DEF Behind
  <2> QED
    BY <1>1, <2>1 DEF BindingsEarned
<1>5. TasksFollowCandidate(m) /\ TasksReached(m) /\ ResultsCounted(m) /\ FreezeHadTask(m)
  BY <1>1, <1>2 DEF TasksFollowCandidate, TasksReached, ResultsCounted, FreezeHadTask
<1>6. StagesEarned(m) /\ Documented(m)
  BY <1>1 DEF StagesEarned, Documented
<1> QED
  BY <1>3, <1>4, <1>5, <1>6 DEF Valid, m

-----------------------------------------------------------------------------
(* Operations that change one task.                                        *)

\* n differs from m in its tasks only.
SameButTasks(n, m) ==
    /\ DOMAIN n = DOMAIN m
    /\ n.rev = m.rev /\ n.goal = m.goal /\ n.stage = m.stage /\ n.outputs = m.outputs
    /\ n.active = m.active /\ n.approved = m.approved /\ n.released = m.released
    /\ n.completed = m.completed

\* The passing result of a task is among those it had.
Recorded(task) == task.result.gate = "pass" => task.result.digest \in task.passed

\* A stage that was earned stays earned when tasks are added and when results
\* are added to those a task has passed.
LEMMA EarnedStays ==
    ASSUME NEW m, NEW n, n.rev = m.rev, n.goal = m.goal, DOMAIN m.tasks \subseteq DOMAIN n.tasks,
           \A t \in DOMAIN m.tasks : m.tasks[t].passed \subseteq n.tasks[t].passed,
           NEW i, StageEarned(m, i)
    PROVE  StageEarned(n, i)
<1> DEFINE stage == Plan(m.goal)[i]
           task(role) == TaskId(m.rev, stage, role)
<1>1. PICK d \in Digests :
         /\ \A role \in Roles(m.goal, stage) :
                /\ task(role) \in DOMAIN m.tasks
                /\ m.tasks[task(role)].passed \cap {d, None} # {}
         /\ \E role \in Roles(m.goal, stage) : d \in m.tasks[task(role)].passed
  BY DEF StageEarned
<1>2. \A role \in Roles(m.goal, stage) :
         m.tasks[task(role)].passed \subseteq n.tasks[task(role)].passed
  BY <1>1
<1> HIDE DEF stage, task
<1>3. /\ \A role \in Roles(m.goal, stage) :
             /\ task(role) \in DOMAIN n.tasks
             /\ n.tasks[task(role)].passed \cap {d, None} # {}
      /\ \E role \in Roles(m.goal, stage) : d \in n.tasks[task(role)].passed
  BY <1>1, <1>2
<1> QED
  BY <1>3 DEF StageEarned, stage, task

\* So it is with all stages behind a mission that stays where it is.
LEMMA EarnedStagesStay ==
    ASSUME NEW m, NEW n, n.rev = m.rev, n.goal = m.goal, n.stage = m.stage,
           n.completed = m.completed, DOMAIN m.tasks \subseteq DOMAIN n.tasks,
           \A t \in DOMAIN m.tasks : m.tasks[t].passed \subseteq n.tasks[t].passed,
           StagesEarned(m)
    PROVE  StagesEarned(n)
<1> SUFFICES ASSUME NEW i \in 1..Len(Plan(m.goal)), i < m.stage \/ m.completed
             PROVE  StageEarned(n, i)
  BY DEF StagesEarned
<1>1. StageEarned(m, i)
  BY DEF StagesEarned
<1> QED
  BY <1>1, EarnedStays

\* Tasks may change in any way that keeps their candidate and what was passed.
LEMMA TasksRewritten ==
    ASSUME NEW m, NEW n, Valid(m), SameButTasks(n, m), DOMAIN n.tasks = DOMAIN m.tasks,
           \A t \in DOMAIN m.tasks :
               /\ n.tasks[t] \in Tasks /\ n.tasks[t].cand = m.tasks[t].cand
               /\ m.tasks[t].passed \subseteq n.tasks[t].passed
               /\ Recorded(n.tasks[t])
    PROVE  Valid(n)
<1> USE DEF SameButTasks
<1>1. Plan(n.goal) = Plan(m.goal) /\ \A kind : Reached(n, kind) <=> Reached(m, kind)
  BY DEF Reached
<1>2. IsMission(n)
  BY <1>1 DEF Valid, IsMission
<1>3. BindingsEarned(n)
  <2>1. \A kind : Behind(n, kind) <=> Behind(m, kind)
    BY <1>1 DEF Behind
  <2>2. LastStage(n) <=> LastStage(m)
    BY <1>1 DEF LastStage
  <2> QED
    BY <1>1, <2>1, <2>2 DEF Valid, BindingsEarned
<1>4. TasksFollowCandidate(n)
  BY DEF Valid, TasksFollowCandidate
<1>5. StagesEarned(n)
  BY EarnedStagesStay DEF Valid
<1>6. TasksReached(n)
  BY <1>1 DEF Valid, TasksReached
<1>7. ResultsCounted(n)
  BY DEF ResultsCounted, Recorded
<1>8. FreezeHadTask(n)
  BY DEF Valid, FreezeHadTask
<1>9. Documented(n)
  BY <1>1 DEF Valid, Documented
<1> QED
  BY <1>2, <1>3, <1>4, <1>5, <1>6, <1>7, <1>8, <1>9 DEF Valid

\* A task record is made of its five fields.
LEMMA TaskFields ==
    ASSUME NEW m, IsMission(m), NEW t \in DOMAIN m.tasks
    PROVE  /\ m.tasks[t] \in Tasks /\ t \in TaskIds
           /\ m.tasks[t].status \in TaskStatus /\ m.tasks[t].attempt \in Nat \ {0}
           /\ m.tasks[t].cand \in CandidateIds \cup {None}
           /\ m.tasks[t].result \in Results
           /\ m.tasks[t].passed \subseteq Digests \cup {None}
<1>1. m.tasks[t] \in Tasks /\ t \in TaskIds
  BY DEF IsMission
<1> QED
  BY <1>1 DEF Tasks

\* One task is replaced by another record.
LEMMA TaskReplaced ==
    ASSUME NEW m, Valid(m), NEW t \in DOMAIN m.tasks, NEW task \in Tasks,
           task.cand = m.tasks[t].cand,
           m.tasks[t].passed \subseteq task.passed, Recorded(task)
    PROVE  Valid(WithTask(m, t, task))
<1> DEFINE n == WithTask(m, t, task)
<1>0. IsMission(m)
  BY DEF Valid
<1>1. SameButTasks(n, m) /\ DOMAIN n.tasks = DOMAIN m.tasks
  BY <1>0 DEF WithTask, SameButTasks, IsMission
<1>2. n.tasks[t] = task /\ \A u \in DOMAIN m.tasks : u # t => n.tasks[u] = m.tasks[u]
  BY <1>0 DEF WithTask, IsMission
<1> HIDE DEF n
<1>3. \A u \in DOMAIN m.tasks :
         /\ n.tasks[u] \in Tasks /\ n.tasks[u].cand = m.tasks[u].cand
         /\ m.tasks[u].passed \subseteq n.tasks[u].passed
         /\ Recorded(n.tasks[u])
  <2> SUFFICES ASSUME NEW u \in DOMAIN m.tasks
               PROVE  /\ n.tasks[u] \in Tasks /\ n.tasks[u].cand = m.tasks[u].cand
                      /\ m.tasks[u].passed \subseteq n.tasks[u].passed
                      /\ Recorded(n.tasks[u])
    OBVIOUS
  <2>1. CASE u = t
    BY <2>1, <1>2
  <2>2. CASE u # t
    BY <2>2, <1>0, <1>2, TaskFields DEF Valid, ResultsCounted, Recorded
  <2> QED
    BY <2>1, <2>2
<1> QED
  BY <1>1, <1>3, TasksRewritten DEF n

\* Receiving a result.
LEMMA ReceiveValid ==
    ASSUME NEW m, Valid(m), NEW t \in DOMAIN m.tasks, NEW gate \in {"pass", "fail"},
           NEW digest \in Digests \cup {None}
    PROVE  Valid(Receive(m, t, gate, digest))
<1> DEFINE old == m.tasks[t]
           result == [gate |-> gate, digest |-> digest, cand |-> old.cand,
                      attempt |-> old.attempt]
           passed == IF gate = "pass" THEN old.passed \cup {digest} ELSE old.passed
           new == [old EXCEPT !.status = "result-received", !.passed = passed,
                              !.result = result]
<1>1. /\ old \in Tasks /\ old.attempt \in Nat \ {0} /\ old.cand \in CandidateIds \cup {None}
      /\ old.passed \subseteq Digests \cup {None}
  BY TaskFields DEF Valid
<1>2. Receive(m, t, gate, digest) = WithTask(m, t, new)
  BY DEF Receive
<1>3. result \in Results /\ result.gate = gate /\ result.digest = digest
  BY <1>1 DEF Results
<1>4. "result-received" \in TaskStatus
  BY DEF TaskStatus
<1>5. /\ passed \subseteq Digests \cup {None} /\ old.passed \subseteq passed
      /\ gate = "pass" => digest \in passed
  BY <1>1
<1> HIDE DEF old, result, passed
<1>6. /\ new \in Tasks /\ new.cand = old.cand /\ new.passed = passed
      /\ new.result = result
  BY <1>1, <1>3, <1>4, <1>5 DEF Tasks
<1> HIDE DEF new
<1>7. Recorded(new)
  BY <1>3, <1>5, <1>6 DEF Recorded
<1> QED
  BY <1>2, <1>5, <1>6, <1>7, TaskReplaced DEF old

\* Interrupting an attempt.
LEMMA InterruptValid ==
    ASSUME NEW m, Valid(m), NEW t \in DOMAIN m.tasks
    PROVE  Valid(Interrupt(m, t))
<1> DEFINE old == m.tasks[t]
           new == [old EXCEPT !.status = "interrupted"]
<1>1. old \in Tasks /\ Recorded(old)
  BY TaskFields DEF Valid, ResultsCounted, Recorded
<1>2. Interrupt(m, t) = WithTask(m, t, new)
  BY DEF Interrupt
<1> HIDE DEF old
<1>3. /\ new \in Tasks /\ new.cand = old.cand /\ new.passed = old.passed
      /\ new.result = old.result
  BY <1>1 DEF Tasks, TaskStatus
<1> HIDE DEF new
<1> QED
  BY <1>1, <1>2, <1>3, TaskReplaced DEF old, Recorded

\* Scheduling a retry.
LEMMA RetryValid ==
    ASSUME NEW m, Valid(m), NEW t \in DOMAIN m.tasks, NEW attempt \in Nat \ {0}
    PROVE  Valid(Retry(m, t, attempt))
<1> DEFINE old == m.tasks[t]
           new == [old EXCEPT !.attempt = attempt, !.status = "issued"]
<1>1. old \in Tasks /\ Recorded(old)
  BY TaskFields DEF Valid, ResultsCounted, Recorded
<1>2. Retry(m, t, attempt) = WithTask(m, t, new)
  BY DEF Retry
<1> HIDE DEF old
<1>3. /\ new \in Tasks /\ new.cand = old.cand /\ new.passed = old.passed
      /\ new.result = old.result
  BY <1>1 DEF Tasks, TaskStatus
<1> HIDE DEF new
<1> QED
  BY <1>1, <1>2, <1>3, TaskReplaced DEF old, Recorded

-----------------------------------------------------------------------------
(* Issuing a task.                                                         *)

\* A task of the present stage is added for a role that has none.
LEMMA IssueTaskValid ==
    ASSUME NEW m, Valid(m), NEW role \in RolesWithoutTask(m)
    PROVE  /\ Valid(IssueTask(m, role)) /\ Current(m, role) \in TaskIds
           /\ DOMAIN IssueTask(m, role).tasks = DOMAIN m.tasks \cup {Current(m, role)}
           /\ IssueTask(m, role).tasks[Current(m, role)].attempt = 1
<1> DEFINE n == IssueTask(m, role)
           t == Current(m, role)
           new == [status |-> "issued", attempt |-> 1, result |-> NoResult, passed |-> {},
                   cand |-> IF Kind(m) \in CandidateStages THEN m.active ELSE None]
<1>0. IsMission(m)
  BY DEF Valid
<1>1. SameButTasks(n, m)
  BY <1>0 DEF IssueTask, SameButTasks, IsMission
<1>2. /\ DOMAIN n.tasks = DOMAIN m.tasks \cup {t}
      /\ n.tasks[t] = new
      /\ \A u \in DOMAIN m.tasks : n.tasks[u] = m.tasks[u]
  BY <1>0 DEF IssueTask, IsMission, RolesWithoutTask
<1>3. /\ role \in CurrentRoles(m) /\ role \in AllRoles /\ t \notin DOMAIN m.tasks
      /\ t.rev = m.rev /\ t.stage = Kind(m) /\ t.role = role /\ t \in TaskIds
  <2>1. role \in CurrentRoles(m) /\ t \notin DOMAIN m.tasks
    BY DEF RolesWithoutTask
  <2>2. Kind(m) \in StageKinds /\ m.rev \in Nat \ {0}
    BY <1>0, Positions DEF IsMission
  <2>3. role \in AllRoles
    BY <2>1, <2>2, RolesKnown DEF CurrentRoles
  <2> QED
    BY <2>1, <2>2, <2>3 DEF Current, TaskId, TaskIds
<1>4. new \in Tasks /\ new.result.gate = "none"
  <2>1. NoResult \in Results /\ NoResult.gate = "none"
    BY DEF NoResult, Results
  <2>2. m.active \in CandidateIds \cup {None}
    BY <1>0 DEF IsMission
  <2> HIDE DEF NoResult
  <2> QED
    BY <2>1, <2>2 DEF Tasks, TaskStatus
<1>5. /\ new.cand = IF Kind(m) \in CandidateStages THEN m.active ELSE None
      /\ new.passed = {} /\ new.attempt = 1
  OBVIOUS
<1> HIDE DEF n, t, new
<1> USE DEF SameButTasks
<1>6. Plan(n.goal) = Plan(m.goal) /\ \A kind : Reached(n, kind) <=> Reached(m, kind)
  BY <1>1 DEF Reached
<1>7. IsMission(n)
  BY <1>0, <1>1, <1>2, <1>3, <1>4, <1>6 DEF IsMission
<1>8. BindingsEarned(n)
  <2>1. \A kind : Behind(n, kind) <=> Behind(m, kind)
    BY <1>1, <1>6 DEF Behind
  <2>2. LastStage(n) <=> LastStage(m)
    BY <1>1, <1>6 DEF LastStage
  <2> QED
    BY <1>1, <1>6, <2>1, <2>2 DEF Valid, BindingsEarned
<1>9. Kind(m) = "implementation" => m.active = None
  <2> SUFFICES ASSUME Kind(m) = "implementation", m.active # None PROVE FALSE
    OBVIOUS
  <2>1. TaskId(m.rev, "implementation", "implementation-specialist") \in DOMAIN m.tasks
    BY DEF Valid, FreezeHadTask
  <2>2. role = "implementation-specialist"
    BY <1>3 DEF CurrentRoles, Roles
  <2> QED
    BY <1>3, <2>1, <2>2 DEF Current, t
<1>10. TasksFollowCandidate(n)
  <2>1. t.stage \in CandidateStages \cup {"implementation"} => new.cand = m.active
    BY <1>3, <1>5, <1>9 DEF CandidateStages
  <2>2. t.rev <= m.rev
    BY <1>0, <1>3 DEF IsMission
  <2> QED
    BY <1>1, <1>2, <2>1, <2>2 DEF Valid, TasksFollowCandidate
<1>11. StagesEarned(n)
  BY <1>1, <1>2, EarnedStagesStay DEF Valid
<1>12. TasksReached(n)
  <2>1. Reached(m, Kind(m))
    BY <1>0 DEF Reached, Kind, IsMission
  <2> QED
    BY <1>1, <1>2, <1>3, <1>6, <2>1 DEF Valid, TasksReached
<1>13. ResultsCounted(n)
  BY <1>2, <1>4 DEF Valid, ResultsCounted
<1>14. FreezeHadTask(n)
  BY <1>1, <1>2 DEF Valid, FreezeHadTask
<1>15. Documented(n)
  BY <1>1, <1>6 DEF Valid, Documented
<1>16. Valid(n)
  BY <1>7, <1>8, <1>10, <1>11, <1>12, <1>13, <1>14, <1>15 DEF Valid
<1> QED
  BY <1>2, <1>3, <1>5, <1>16 DEF n, t

-----------------------------------------------------------------------------
(* Advancing.                                                              *)

\* Documents have known ids.
LEMMA OutputsKnown == \A kind \in StageKinds : Output(kind) \in OutputIds
BY DEF OutputIds

\* The stage a mission may leave is earned: its roles' latest results are among
\* their passing ones, and agree.
LEMMA LeftEarned ==
    ASSUME NEW m, Valid(m), MayAdvance(m) PROVE StageEarned(m, m.stage)
<1> DEFINE digest(role) == LatestResult(m, role).digest
           passed(role) == m.tasks[Current(m, role)].passed
<1>1. \A role \in CurrentRoles(m) :
         Current(m, role) \in DOMAIN m.tasks /\ digest(role) \in passed(role)
  BY DEF MayAdvance, AllRolesPass, LatestResult, Valid, ResultsCounted
<1>2. PICK d \in Digests : {digest(role) : role \in CurrentRoles(m)} \ {None} = {d}
  BY DEF MayAdvance, OutputAgreed
<1> HIDE DEF digest, passed
<1>3. \A role \in CurrentRoles(m) : passed(role) \cap {d, None} # {}
  BY <1>1, <1>2
<1>4. \E role \in CurrentRoles(m) : d \in passed(role)
  BY <1>1, <1>2
<1> QED
  BY <1>1, <1>3, <1>4 DEF StageEarned, CurrentRoles, Current, Kind, passed

\* A mission that may advance does so in good order: the stage it leaves was
\* passed by every role, and has what it was to bind.
LEMMA AdvanceValid ==
    ASSUME NEW m, Valid(m), MayAdvance(m)
    PROVE  Valid(Advance(m))
<1> DEFINE n == Advance(m)
           length == Len(Plan(m.goal))
<1>0. IsMission(m)
  BY DEF Valid
<1>1. /\ DOMAIN n = DOMAIN m /\ DOMAIN n.tasks = DOMAIN m.tasks
      /\ n.rev = m.rev /\ n.goal = m.goal /\ n.active = m.active
      /\ n.approved = m.approved /\ n.released = m.released
      /\ n.outputs = m.outputs \cup {Output(Kind(m))}
      /\ n.completed = LastStage(m)
      /\ n.stage = IF LastStage(m) THEN m.stage ELSE m.stage + 1
  BY <1>0 DEF Advance, IsMission
<1>2. \A t \in DOMAIN m.tasks :
          n.tasks[t] = m.tasks[t] \/ n.tasks[t] = [m.tasks[t] EXCEPT !.status = "completed"]
  BY <1>0 DEF Advance, IsMission
<1> HIDE DEF n
<1>3. \A t \in DOMAIN m.tasks :
          /\ n.tasks[t] \in Tasks /\ n.tasks[t].cand = m.tasks[t].cand
          /\ n.tasks[t].passed = m.tasks[t].passed /\ n.tasks[t].result = m.tasks[t].result
  <2> SUFFICES ASSUME NEW t \in DOMAIN m.tasks
               PROVE  /\ n.tasks[t] \in Tasks /\ n.tasks[t].cand = m.tasks[t].cand
                      /\ n.tasks[t].passed = m.tasks[t].passed
                      /\ n.tasks[t].result = m.tasks[t].result
    OBVIOUS
  <2>1. m.tasks[t] \in Tasks
    BY <1>0, TaskFields
  <2>2. CASE n.tasks[t] = m.tasks[t]
    BY <2>1, <2>2
  <2>3. CASE n.tasks[t] = [m.tasks[t] EXCEPT !.status = "completed"]
    BY <2>1, <2>3 DEF Tasks, TaskStatus
  <2> QED
    BY <1>2, <2>2, <2>3
<1>4. /\ length \in {8, 10} /\ m.stage \in 1..length /\ Kind(m) \in StageKinds
      /\ LastStage(m) <=> m.stage = length
      /\ Plan(n.goal) = Plan(m.goal) /\ Kind(m) = Plan(m.goal)[m.stage]
  BY <1>0, <1>1, Positions DEF LastStage, Kind
<1>5. /\ n.stage \in 1..length
      /\ \A i \in 1..(n.stage - 1) : i \in 1..(m.stage - 1) \/ i = m.stage
      /\ \A i \in 1..m.stage : i \in 1..n.stage
      /\ LastStage(n) <=> n.stage = length
  BY <1>1, <1>4 DEF LastStage
<1>6. IsMission(n)
  <2>1. n.outputs \subseteq OutputIds
    BY <1>0, <1>1, <1>4, OutputsKnown DEF IsMission
  <2>2. n.completed \in BOOLEAN
    BY <1>1 DEF LastStage
  <2>3. DOMAIN n.tasks \subseteq TaskIds /\ \A t \in DOMAIN n.tasks : n.tasks[t] \in Tasks
    BY <1>0, <1>1, <1>3 DEF IsMission
  <2> HIDE DEF length
  <2> QED
    BY <1>0, <1>1, <1>4, <1>5, <2>1, <2>2, <2>3 DEF IsMission, length
<1>7. BindingsEarned(n)
  <2>1. /\ Behind(n, "implementation") => m.active # None
        /\ m.active # None => Reached(n, "implementation")
    BY <1>0, <1>1, <1>4, <1>6, Positions DEF Valid, BindingsEarned, MayAdvance, StageCondition
  <2>2. /\ Behind(n, "validation") => m.approved
        /\ m.approved => m.active # None /\ Reached(n, "validation")
    BY <1>0, <1>1, <1>4, <1>6, Positions DEF Valid, BindingsEarned, MayAdvance, StageCondition
  <2>3. n.completed => m.released
    BY <1>0, <1>1, <1>4, Positions DEF MayAdvance, StageCondition
  <2>4. m.released => m.approved /\ LastStage(n)
    BY <1>1, <1>4, <1>5 DEF Valid, BindingsEarned
  <2> QED
    BY <1>1, <2>1, <2>2, <2>3, <2>4 DEF BindingsEarned
<1>8. TasksFollowCandidate(n)
  BY <1>1, <1>3 DEF Valid, TasksFollowCandidate
<1>9. StagesEarned(n)
  <2> SUFFICES ASSUME NEW i \in 1..length, i < n.stage \/ n.completed PROVE StageEarned(n, i)
    BY <1>1, <1>4 DEF StagesEarned
  <2>1. i < m.stage \/ i = m.stage
    BY <1>1, <1>4
  <2>2. StageEarned(m, i)
    BY <2>1, LeftEarned DEF Valid, StagesEarned
  <2> QED
    BY <1>1, <1>3, <2>2, EarnedStays
<1>10. TasksReached(n)
  BY <1>1, <1>4, <1>5 DEF Valid, TasksReached, Reached
<1>11. ResultsCounted(n)
  BY <1>1, <1>3 DEF Valid, ResultsCounted
<1>12. FreezeHadTask(n)
  BY <1>1 DEF Valid, FreezeHadTask
<1>13. Documented(n)
  BY <1>1, <1>4, <1>5 DEF Valid, Documented
<1> QED
  BY <1>6, <1>7, <1>8, <1>9, <1>10, <1>11, <1>12, <1>13 DEF Valid, n

-----------------------------------------------------------------------------
(* Steering and binding.                                                   *)

\* Steering starts over with the tasks of the revisions before.
LEMMA SteerValid ==
    ASSUME NEW m, Valid(m), NEW g \in Goals
    PROVE  Valid(Steer(m, g))
<1> DEFINE n == Steer(m, g)
<1>0. IsMission(m) /\ m.rev \in Nat \ {0}
  BY DEF Valid, IsMission
<1>1. /\ n.rev = m.rev + 1 /\ n.goal = g /\ n.stage = 1
      /\ n.outputs = InitialOutputs(g) /\ n.active = None
      /\ n.approved = FALSE /\ n.released = FALSE /\ n.completed = FALSE
      /\ DOMAIN n = {"rev", "goal", "stage", "tasks", "outputs", "active", "approved",
                     "released", "completed"}
      /\ DOMAIN n.tasks = DOMAIN m.tasks
  BY DEF Steer, NewMission
<1>2. \A t \in DOMAIN m.tasks :
          n.tasks[t] = m.tasks[t] \/ n.tasks[t] = [m.tasks[t] EXCEPT !.status = "stale"]
  BY DEF Steer, NewMission
<1> HIDE DEF n
<1>3. \A t \in DOMAIN m.tasks :
          /\ n.tasks[t] \in Tasks
          /\ n.tasks[t].passed = m.tasks[t].passed /\ n.tasks[t].result = m.tasks[t].result
  <2> SUFFICES ASSUME NEW t \in DOMAIN m.tasks
               PROVE  /\ n.tasks[t] \in Tasks /\ n.tasks[t].passed = m.tasks[t].passed
                      /\ n.tasks[t].result = m.tasks[t].result
    OBVIOUS
  <2>1. m.tasks[t] \in Tasks
    BY <1>0, TaskFields
  <2>2. CASE n.tasks[t] = m.tasks[t]
    BY <2>1, <2>2
  <2>3. CASE n.tasks[t] = [m.tasks[t] EXCEPT !.status = "stale"]
    BY <2>1, <2>3 DEF Tasks, TaskStatus
  <2> QED
    BY <1>2, <2>2, <2>3
<1>4. \A t \in DOMAIN n.tasks : t.rev \in Nat /\ t.rev < n.rev
  BY <1>0, <1>1 DEF Valid, TasksFollowCandidate, IsMission, TaskIds
<1>5. IsMission(n)
  <2>1. m.rev + 1 \in Nat \ {0} /\ 1 \in 1..Len(Plan(g))
    <3>1. Len(Plan(g)) \in {8, 10}
      BY PlanShape
    <3>2. \A k \in {8, 10} : 1 \in 1..k
      OBVIOUS
    <3>3. m.rev + 1 \in Nat \ {0}
      BY <1>0
    <3> QED
      BY <3>1, <3>2, <3>3
  <2>2. n.outputs \subseteq OutputIds
    BY <1>1 DEF InitialOutputs, OutputIds, Output, StageKinds
  <2>3. DOMAIN n.tasks \subseteq TaskIds /\ \A t \in DOMAIN n.tasks : n.tasks[t] \in Tasks
    BY <1>0, <1>1, <1>3 DEF IsMission
  <2> QED
    BY <1>1, <2>1, <2>2, <2>3 DEF IsMission
<1>6. BindingsEarned(n)
  <2>1. ~Behind(n, "implementation") /\ ~Behind(n, "validation")
    BY <1>1 DEF Behind
  <2> QED
    BY <1>1, <2>1 DEF BindingsEarned
<1>7. TasksFollowCandidate(n) /\ TasksReached(n)
  <2>1. \A t \in DOMAIN n.tasks : t.rev <= n.rev /\ t.rev # n.rev
    BY <1>0, <1>1, <1>4
  <2> QED
    BY <2>1 DEF TasksFollowCandidate, TasksReached
<1>8. ResultsCounted(n)
  BY <1>1, <1>3 DEF Valid, ResultsCounted
<1>9. StagesEarned(n) /\ FreezeHadTask(n) /\ Documented(n)
  BY <1>1 DEF StagesEarned, FreezeHadTask, Documented
<1> QED
  BY <1>5, <1>6, <1>7, <1>8, <1>9 DEF Valid, n

\* A candidate is bound in implementation, by a task of it.
LEMMA BindCandidateValid ==
    ASSUME NEW m, Valid(m), NEW c \in CandidateIds, Kind(m) = "implementation",
           CurrentTasks(m) # {}
    PROVE  Valid(BindCandidate(m, c))
<1> DEFINE n == BindCandidate(m, c)
           length == Len(Plan(m.goal))
<1>0. IsMission(m)
  BY DEF Valid
<1>1. /\ DOMAIN n = DOMAIN m /\ DOMAIN n.tasks = DOMAIN m.tasks
      /\ n.rev = m.rev /\ n.goal = m.goal /\ n.stage = m.stage /\ n.active = c
      /\ n.approved = FALSE /\ n.released = FALSE /\ n.completed = m.completed
      /\ n.outputs = m.outputs \cup {"frozen-candidate"}
  BY <1>0 DEF BindCandidate, IsMission
<1>2. \A t \in DOMAIN m.tasks :
          n.tasks[t] = IF t.rev = m.rev /\ t.stage = "implementation"
                       THEN [m.tasks[t] EXCEPT !.cand = c] ELSE m.tasks[t]
  BY <1>0 DEF BindCandidate, IsMission
<1> HIDE DEF n
<1>3. \A t \in DOMAIN m.tasks :
          /\ n.tasks[t] \in Tasks
          /\ n.tasks[t].passed = m.tasks[t].passed /\ n.tasks[t].result = m.tasks[t].result
          /\ t.rev = m.rev /\ t.stage = "implementation" => n.tasks[t].cand = c
  <2> SUFFICES ASSUME NEW t \in DOMAIN m.tasks
               PROVE  /\ n.tasks[t] \in Tasks
                      /\ n.tasks[t].passed = m.tasks[t].passed
                      /\ n.tasks[t].result = m.tasks[t].result
                      /\ t.rev = m.rev /\ t.stage = "implementation" => n.tasks[t].cand = c
    OBVIOUS
  <2>1. m.tasks[t] \in Tasks
    BY <1>0, TaskFields
  <2>2. [m.tasks[t] EXCEPT !.cand = c] \in Tasks
    BY <2>1 DEF Tasks
  <2>3. /\ [m.tasks[t] EXCEPT !.cand = c].passed = m.tasks[t].passed
        /\ [m.tasks[t] EXCEPT !.cand = c].result = m.tasks[t].result
        /\ [m.tasks[t] EXCEPT !.cand = c].cand = c
    BY <2>1 DEF Tasks
  <2> QED
    BY <1>2, <2>1, <2>2, <2>3
<1>4. /\ length \in {8, 10} /\ m.stage = length - 3
      /\ Plan(n.goal) = Plan(m.goal)
      /\ Reached(m, "implementation") /\ ~Behind(m, "implementation") /\ ~Behind(m, "validation")
      /\ ~Reached(m, "integration-verification") /\ ~Reached(m, "validation")
      /\ ~Reached(m, "release")
  BY <1>0, <1>1, Positions
<1>5. /\ \A kind : Reached(n, kind) <=> Reached(m, kind)
      /\ \A kind : Behind(n, kind) <=> Behind(m, kind)
  BY <1>1, <1>4 DEF Reached, Behind
<1>6. IsMission(n)
  <2>1. "frozen-candidate" \in OutputIds
    BY DEF OutputIds, ServiceOutputs
  <2>2. n.outputs \subseteq OutputIds
    BY <1>0, <1>1, <2>1 DEF IsMission
  <2>3. DOMAIN n.tasks \subseteq TaskIds /\ \A t \in DOMAIN n.tasks : n.tasks[t] \in Tasks
    BY <1>0, <1>1, <1>3 DEF IsMission
  <2> QED
    BY <1>0, <1>1, <2>2, <2>3 DEF IsMission
<1>7. ~m.completed
  BY <1>4 DEF Valid, BindingsEarned, LastStage
<1>8. BindingsEarned(n)
  BY <1>1, <1>4, <1>5, <1>7 DEF BindingsEarned
<1>9. TasksFollowCandidate(n)
  <2> SUFFICES ASSUME NEW t \in DOMAIN m.tasks
               PROVE  /\ t.rev <= m.rev
                      /\ t.rev = m.rev /\ t.stage \in CandidateStages \cup {"implementation"} =>
                             n.tasks[t].cand = c
    BY <1>1 DEF TasksFollowCandidate
  <2>1. t.rev = m.rev => t.stage \notin CandidateStages
    BY <1>4 DEF Valid, TasksReached, CandidateStages
  <2> QED
    BY <1>3, <2>1 DEF Valid, TasksFollowCandidate
<1>10. StagesEarned(n)
  BY <1>1, <1>3, EarnedStagesStay DEF Valid
<1>11. TasksReached(n)
  BY <1>1, <1>5 DEF Valid, TasksReached
<1>12. ResultsCounted(n)
  BY <1>1, <1>3 DEF Valid, ResultsCounted
<1>13. FreezeHadTask(n)
  <2>1. CurrentRoles(m) = {"implementation-specialist"}
    BY DEF CurrentRoles, Roles
  <2>2. TaskId(m.rev, "implementation", "implementation-specialist") \in DOMAIN m.tasks
    BY <2>1 DEF CurrentTasks, Current
  <2> QED
    BY <1>1, <2>2 DEF FreezeHadTask
<1>14. Documented(n)
  BY <1>1, <1>4 DEF Valid, Documented
<1> QED
  BY <1>6, <1>8, <1>9, <1>10, <1>11, <1>12, <1>13, <1>14 DEF Valid, n

\* Only what is bound, approved, released and documented may differ.
SameButBindings(n, m) ==
    /\ DOMAIN n = DOMAIN m
    /\ n.rev = m.rev /\ n.goal = m.goal /\ n.stage = m.stage /\ n.tasks = m.tasks
    /\ n.active = m.active /\ n.completed = m.completed
    /\ m.outputs \subseteq n.outputs

\* More documents and more bindings leave the tasks in order.
LEMMA BindingsRewritten ==
    ASSUME NEW m, NEW n, Valid(m), SameButBindings(n, m), n.outputs \subseteq OutputIds,
           n.approved \in BOOLEAN, n.released \in BOOLEAN, BindingsEarned(n),
           n.approved => {"approved-candidate", "gate-decision"} \subseteq n.outputs
    PROVE  Valid(n)
<1> USE DEF SameButBindings
<1>1. Plan(n.goal) = Plan(m.goal) /\ \A kind : Reached(n, kind) <=> Reached(m, kind)
  BY DEF Reached
<1>2. IsMission(n)
  BY <1>1 DEF Valid, IsMission
<1>3. TasksFollowCandidate(n) /\ TasksReached(n)
  BY <1>1 DEF Valid, TasksFollowCandidate, TasksReached
<1>4. StagesEarned(n)
  BY EarnedStagesStay DEF Valid
<1>5. ResultsCounted(n) /\ FreezeHadTask(n)
  BY DEF Valid, ResultsCounted, FreezeHadTask
<1>6. Documented(n)
  BY <1>1 DEF Valid, Documented
<1> QED
  BY <1>2, <1>3, <1>4, <1>5, <1>6 DEF Valid

\* Approval in validation.
LEMMA MarkApprovedValid ==
    ASSUME NEW m, Valid(m), Kind(m) = "validation", m.active # None
    PROVE  Valid(MarkApproved(m))
<1> DEFINE n == MarkApproved(m)
<1>0. IsMission(m)
  BY DEF Valid
<1>1. /\ SameButBindings(n, m) /\ n.approved = TRUE /\ n.released = m.released
      /\ n.outputs = m.outputs \cup {"approved-candidate", "gate-decision"}
  BY <1>0 DEF MarkApproved, SameButBindings, IsMission
<1> HIDE DEF n
<1>2. n.outputs \subseteq OutputIds /\ n.released \in BOOLEAN
  BY <1>0, <1>1 DEF IsMission, OutputIds, ServiceOutputs
<1>3. Reached(m, "validation")
  BY <1>0, Positions
<1>4. /\ \A kind : Reached(n, kind) <=> Reached(m, kind)
      /\ \A kind : Behind(n, kind) <=> Behind(m, kind)
      /\ LastStage(n) <=> LastStage(m)
  BY <1>1 DEF SameButBindings, Reached, Behind, LastStage
<1>5. BindingsEarned(n)
  BY <1>1, <1>3, <1>4 DEF Valid, BindingsEarned, SameButBindings
<1> QED
  BY <1>1, <1>2, <1>5, BindingsRewritten DEF n

\* Packaging in the release stage.
LEMMA BindReleaseValid ==
    ASSUME NEW m, Valid(m), Kind(m) = "release", m.approved
    PROVE  Valid(BindRelease(m))
<1> DEFINE n == BindRelease(m)
<1>0. IsMission(m)
  BY DEF Valid
<1>1. /\ SameButBindings(n, m) /\ n.approved = m.approved /\ n.released = TRUE
      /\ n.outputs = m.outputs \cup {"release-package"}
  BY <1>0 DEF BindRelease, SameButBindings, IsMission
<1> HIDE DEF n
<1>2. n.outputs \subseteq OutputIds /\ n.approved \in BOOLEAN
  BY <1>0, <1>1 DEF IsMission, OutputIds, ServiceOutputs
<1>3. LastStage(m)
  BY <1>0, Positions DEF LastStage
<1>4. /\ \A kind : Reached(n, kind) <=> Reached(m, kind)
      /\ \A kind : Behind(n, kind) <=> Behind(m, kind)
      /\ LastStage(n) <=> LastStage(m)
  BY <1>1 DEF SameButBindings, Reached, Behind, LastStage
<1>5. BindingsEarned(n)
  BY <1>1, <1>3, <1>4 DEF Valid, BindingsEarned, SameButBindings
<1>6. n.approved => {"approved-candidate", "gate-decision"} \subseteq n.outputs
  BY <1>1 DEF Valid, Documented
<1> QED
  BY <1>1, <1>2, <1>5, <1>6, BindingsRewritten DEF n
=============================================================================
