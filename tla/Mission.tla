------------------------------ MODULE Mission ------------------------------
(***************************************************************************)
(* The mission record and the operations of MissionManager on it           *)
(* (src/agent_harness/mission.py), as operators from a record to a record. *)
(*                                                                         *)
(* - A task is named by <<revision, stage, role>>: the service issues it   *)
(*   under the command id task:<mission>:<revision>:<stage>:<role>, so     *)
(*   there is at most one of each, and its random id adds nothing.         *)
(* - accepted_results is reduced to what reads it: the latest result of    *)
(*   each task, and the digests its passing ones had.  A gate of "fail"    *)
(*   stands for fail and inconclusive.                                     *)
(* - An output binding is reduced to its id; a result carries the digest   *)
(*   of the stage's output document (None: the result has no such entry),  *)
(*   because advancing compares digests.                                   *)
(***************************************************************************)
EXTENDS Methodology

CONSTANTS Goals,       \* the goals a mission may be started with or steered to
          Contents,    \* contents an implementer may freeze
          Digests,     \* digests of output documents
          None

ASSUME GoalsAssumption == Goals \subseteq Goal
ASSUME NoneAssumption  == None \notin Digests

\* A candidate id is a hash of the frozen content and the required evidence,
\* not of the mission or the revision.
CandidateId(content, g) == <<content, RequiredEvidence(g)>>
CandidateIds == {CandidateId(content, g) : content \in Contents, g \in Goals}

TaskId(rev, kind, role) == [rev |-> rev, stage |-> kind, role |-> role]
TaskIds == [rev : Nat \ {0}, stage : StageKinds, role : AllRoles]

TaskStatus == {"issued", "result-received", "interrupted", "completed", "stale"}

Results == [gate : {"none", "pass", "fail"}, digest : Digests \cup {None},
            cand : CandidateIds \cup {None}, attempt : Nat]
NoResult == [gate |-> "none", digest |-> None, cand |-> None, attempt |-> 0]

Tasks == [status : TaskStatus, attempt : Nat \ {0}, cand : CandidateIds \cup {None},
          result : Results, passed : SUBSET (Digests \cup {None})]

\* A mission record; tasks is a function on the ids of the issued tasks.
IsMission(m) ==
    /\ DOMAIN m = {"rev", "goal", "stage", "tasks", "outputs", "active", "approved",
                   "released", "completed"}
    /\ m.rev \in Nat \ {0}
    /\ m.goal \in Goals
    /\ m.stage \in 1..Len(Plan(m.goal))
    /\ DOMAIN m.tasks \subseteq TaskIds
    /\ \A t \in DOMAIN m.tasks : m.tasks[t] \in Tasks
    /\ m.outputs \subseteq OutputIds
    /\ m.active \in CandidateIds \cup {None}
    /\ m.approved \in BOOLEAN /\ m.released \in BOOLEAN /\ m.completed \in BOOLEAN

NewMission(g) ==
    [rev |-> 1, goal |-> g, stage |-> 1, tasks |-> <<>>, outputs |-> InitialOutputs(g),
     active |-> None, approved |-> FALSE, released |-> FALSE, completed |-> FALSE]

Kind(m) == Plan(m.goal)[m.stage]

CurrentRoles(m) == Roles(m.goal, Kind(m))
Current(m, role) == TaskId(m.rev, Kind(m), role)
CurrentTasks(m) == {Current(m, role) : role \in CurrentRoles(m)} \cap DOMAIN m.tasks

-----------------------------------------------------------------------------
(* Tasks.                                                                  *)

InputsAvailable(m) == Inputs(Kind(m)) \subseteq m.outputs

\* Roles of the current stage that have no task yet.  A task that is "stale"
\* or "superseded" would not count, but no task of the current revision is.
RolesWithoutTask(m) == {role \in CurrentRoles(m) : Current(m, role) \notin DOMAIN m.tasks}

IssueTask(m, role) ==
    [m EXCEPT !.tasks = [t \in DOMAIN m.tasks \cup {Current(m, role)} |->
        IF t = Current(m, role)
        THEN [status |-> "issued", attempt |-> 1, result |-> NoResult, passed |-> {},
              cand |-> IF Kind(m) \in CandidateStages THEN m.active ELSE None]
        ELSE m.tasks[t]]]

WithTask(m, t, task) == [m EXCEPT !.tasks[t] = task]

\* receive_result for a task of the current revision and a valid payload.
Receive(m, t, gate, digest) ==
    WithTask(m, t,
        [m.tasks[t] EXCEPT !.status = "result-received",
                           !.passed = IF gate = "pass" THEN @ \cup {digest} ELSE @,
                           !.result = [gate |-> gate, digest |-> digest,
                                       cand |-> m.tasks[t].cand,
                                       attempt |-> m.tasks[t].attempt]])

Interrupt(m, t) == WithTask(m, t, [m.tasks[t] EXCEPT !.status = "interrupted"])

\* Mutant: the task stays at its old attempt.
RetrySameAttempt(m, t, attempt) == WithTask(m, t, [m.tasks[t] EXCEPT !.status = "issued"])

Retry(m, t, attempt) ==
    WithTask(m, t, [m.tasks[t] EXCEPT !.attempt = attempt, !.status = "issued"])

-----------------------------------------------------------------------------
(* Advancing.                                                              *)

LatestResult(m, role) == m.tasks[Current(m, role)].result

AllRolesPass(m) ==
    \A role \in CurrentRoles(m) :
        /\ Current(m, role) \in DOMAIN m.tasks
        /\ LatestResult(m, role).gate = "pass"

\* Mutant: the digests are not compared.
OutputNamed(m) == \E role \in CurrentRoles(m) : LatestResult(m, role).digest # None

\* The passing results agree on one digest for the stage's output document.
OutputAgreed(m) ==
    \E d \in Digests :
        {LatestResult(m, role).digest : role \in CurrentRoles(m)} \ {None} = {d}

\* Mutant: validation may be left without an approval.
StageConditionUnreviewed(m) ==
    CASE Kind(m) = "implementation" -> m.active # None
      [] Kind(m) = "release"        -> m.released
      [] OTHER                      -> TRUE

StageCondition(m) ==
    CASE Kind(m) = "implementation" -> m.active # None
      [] Kind(m) = "validation"     -> m.approved
      [] Kind(m) = "release"        -> m.released
      [] OTHER                      -> TRUE

MayAdvance(m) ==
    ~m.completed /\ AllRolesPass(m) /\ OutputAgreed(m) /\ StageCondition(m)

LastStage(m) == m.stage = Len(Plan(m.goal))

\* Mutant: the stage index runs off the plan on completion.
AdvancePastEnd(m) ==
    [m EXCEPT !.outputs = @ \cup {Output(Kind(m))}, !.completed = LastStage(m), !.stage = @ + 1]

Advance(m) ==
    [m EXCEPT !.tasks = [t \in DOMAIN m.tasks |->
                            IF t \in CurrentTasks(m)
                            THEN [m.tasks[t] EXCEPT !.status = "completed"]
                            ELSE m.tasks[t]],
              !.outputs = @ \cup {Output(Kind(m))},
              !.completed = LastStage(m),
              !.stage = IF LastStage(m) THEN @ ELSE @ + 1]

-----------------------------------------------------------------------------
(* Steering, and the three bindings a mission carries.                     *)

\* Mutant: steering keeps the candidate of the old revision.
SteerKeepsCandidate(m, g) ==
    [NewMission(g) EXCEPT !.rev = m.rev + 1, !.active = m.active, !.tasks = m.tasks]

Steer(m, g) ==
    [NewMission(g) EXCEPT
        !.rev = m.rev + 1,
        !.tasks = [t \in DOMAIN m.tasks |->
                      IF m.tasks[t].status = "completed" THEN m.tasks[t]
                      ELSE [m.tasks[t] EXCEPT !.status = "stale"]]]

BindCandidate(m, c) ==
    [m EXCEPT !.active = c, !.approved = FALSE, !.released = FALSE,
              !.outputs = @ \cup {"frozen-candidate"},
              !.tasks = [t \in DOMAIN m.tasks |->
                            IF t.rev = m.rev /\ t.stage = "implementation"
                            THEN [m.tasks[t] EXCEPT !.cand = c]
                            ELSE m.tasks[t]]]

MarkApproved(m) ==
    [m EXCEPT !.approved = TRUE, !.outputs = @ \cup {"approved-candidate", "gate-decision"}]

BindRelease(m) ==
    [m EXCEPT !.released = TRUE, !.outputs = @ \cup {"release-package"}]
=============================================================================
