------------------------- MODULE MissionInvariants -------------------------
(***************************************************************************)
(* What is true of every mission record the operations of Mission build,   *)
(* whatever the order in which the service applies them.                   *)
(***************************************************************************)
EXTENDS Mission

\* The stage of the plan that is called kind lies behind the mission.
Behind(m, kind) == \E i \in 1..(m.stage - 1) : Plan(m.goal)[i] = kind

\* The mission is in that stage or past it.
Reached(m, kind) == \E i \in 1..m.stage : Plan(m.goal)[i] = kind

\* A mission has what the stages behind it had to bind, and nothing that later
\* stages bind: a candidate from implementation on, its approval from
\* validation on, its package in the release stage.
\* (advance_if_ready, bind_candidate, mark_candidate_approved, bind_release)
BindingsEarned(m) ==
    /\ Behind(m, "implementation") => m.active # None
    /\ m.active # None => Reached(m, "implementation")
    /\ Behind(m, "validation") => m.approved
    /\ m.approved => m.active # None /\ Reached(m, "validation")
    /\ m.released => m.approved /\ LastStage(m)
    /\ m.completed => m.released

\* The documents the present stage needs are there, so issue_task can not
\* refuse a task of the stage the mission has just advanced to, which would
\* end the call after STAGE_ADVANCED was logged and before the save.
DocumentsReady(m) == InputsAvailable(m)

\* From implementation on every task of the revision is bound to the one
\* candidate, so a result or a grant for one candidate can not be used for
\* another (issue_task, bind_candidate).
TasksFollowCandidate(m) ==
    \A t \in DOMAIN m.tasks :
        /\ t.rev <= m.rev
        /\ t.rev = m.rev /\ t.stage \in CandidateStages \cup {"implementation"} =>
               m.tasks[t].cand = m.active

SoundMission(m) == BindingsEarned(m) /\ DocumentsReady(m) /\ TasksFollowCandidate(m)

\* The roles of the i-th stage of the plan had passing results in this revision
\* that agree on the stage's document: one digest that somebody handed in, and
\* none but that from anybody.
StageEarned(m, i) ==
    LET Stage == Plan(m.goal)[i]
        Passed(role) == m.tasks[TaskId(m.rev, Stage, role)].passed
    IN \E d \in Digests :
           /\ \A role \in Roles(m.goal, Stage) :
                  /\ TaskId(m.rev, Stage, role) \in DOMAIN m.tasks
                  /\ Passed(role) \cap {d, None} # {}
           /\ \E role \in Roles(m.goal, Stage) : d \in Passed(role)

\* So it is of every stage behind the mission, and of the last stage of a
\* completed one: results of an earlier revision, of a role working twice, or
\* about different documents do not carry a stage.  (Results that come late add
\* to a task's passing ones and take nothing away.)
StagesEarned(m) ==
    \A i \in 1..Len(Plan(m.goal)) : i < m.stage \/ m.completed => StageEarned(m, i)

\* A task of this revision belongs to a stage the mission has reached.
TasksReached(m) ==
    \A t \in DOMAIN m.tasks : t.rev = m.rev => Reached(m, t.stage)

\* A task's passing result is among those it had.
ResultsCounted(m) ==
    \A t \in DOMAIN m.tasks :
        m.tasks[t].result.gate = "pass" => m.tasks[t].result.digest \in m.tasks[t].passed

\* A candidate was frozen by a task of implementation's only role.
FreezeHadTask(m) ==
    m.active # None =>
        TaskId(m.rev, "implementation", "implementation-specialist") \in DOMAIN m.tasks

\* What was bound and what was left behind is among the documents.
Documented(m) ==
    /\ InitialOutputs(m.goal) \subseteq m.outputs
    /\ \A j \in 1..(m.stage - 1) : Output(Plan(m.goal)[j]) \in m.outputs
    /\ m.active # None => "frozen-candidate" \in m.outputs
    /\ m.approved => {"approved-candidate", "gate-decision"} \subseteq m.outputs

\* The inductive invariant of the operations on a mission.
Valid(m) ==
    /\ IsMission(m)
    /\ BindingsEarned(m)
    /\ TasksFollowCandidate(m)
    /\ StagesEarned(m)
    /\ TasksReached(m)
    /\ ResultsCounted(m)
    /\ FreezeHadTask(m)
    /\ Documented(m)
=============================================================================
