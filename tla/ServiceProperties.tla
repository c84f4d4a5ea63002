-------------------------- MODULE ServiceProperties --------------------------
(***************************************************************************)
(* What the service guarantees, whatever the clients call, wherever the    *)
(* process dies and whatever happens to the files.                         *)
(***************************************************************************)
EXTENDS Service, MissionInvariants

\* The working values of a run are what the code's types say they are; snap
\* and mem are mission records of the present planner.
TypeOK ==
    /\ snap = NoMission \/ IsMission(snap)
    /\ IF pc = "idle" THEN mem = NoMission ELSE IsMission(mem)
    /\ op.task \in TaskIds \cup {None}
    /\ log.rev \in Nat /\ DOMAIN log.tasks \subseteq TaskIds
    /\ \A t \in DOMAIN log.tasks : log.tasks[t].attempts \in Seq(AttemptStatus)
    /\ \A g \in grants : /\ g.task \in TaskIds /\ g.operation \in Operations
                         /\ g.attempt \in Nat \ {0} /\ g.cand \in CandidateIds \cup {None}
    /\ DOMAIN store \subseteq CandidateIds
    /\ \A c \in DOMAIN store : store[c] \in [rev : Nat \ {0}, state : CandidateStates,
                                             intact : BOOLEAN]
    /\ DOMAIN ledger \subseteq CandidateIds \X EvidenceTypes
    /\ \A e \in DOMAIN ledger : ledger[e] \in {"pass", "fail", "stale", "altered"}
    /\ crashes \in 0..MaxCrashes

-----------------------------------------------------------------------------
(* The mission record against what the mission went through.               *)

\* Both the saved mission and the copy a call is working on are sound between
\* any two writes: a crash never leaves a half-bound mission behind.
MissionsSound == /\ snap # NoMission => SoundMission(snap)
                 /\ mem # NoMission => SoundMission(mem)

\* No stage of the saved mission was passed but by its own roles' results.
SavedStagesEarned == snap # NoMission => StagesEarned(snap)

-----------------------------------------------------------------------------
(* The mission record against the durable stores.                          *)

\* The stage is the mission's own or a later one.  The longer plan has the
\* stages of both plans, in the order in which both go through them.
StageAt(m, stage) ==
    \E i, j \in DOMAIN ExplorationStages :
        /\ ExplorationStages[i] = Kind(m) /\ ExplorationStages[j] = stage
        /\ i <= j

\* Write-ahead: whatever the saved mission claims, the event log already says.
\* A task and its attempt were logged before the mission that carries them was
\* saved, likewise a freeze, a decision and a package; and the log is at the
\* saved revision and stage or beyond them, never behind.
LogCoversSnapshot ==
    snap # NoMission =>
        /\ log.rev >= snap.rev
        /\ log.rev = snap.rev => log.completed \/ StageAt(snap, log.stage)
        /\ log.rev = snap.rev /\ snap.completed => log.completed
        /\ \A t \in DOMAIN snap.tasks :
              /\ t \in DOMAIN log.tasks
              /\ snap.tasks[t].attempt \in 1..log.tasks[t].current
              /\ snap.tasks[t].result # NoResult =>
                     <<t, snap.tasks[t].result.attempt>> \in log.results
        /\ snap.active # None => <<snap.rev, snap.active>> \in log.frozen
        /\ snap.approved => <<snap.rev, snap.active>> \in log.decided
        /\ snap.released => <<snap.rev, snap.active>> \in log.packaged

\* What the log says of a candidate the stores already carry, so that a reader
\* of the log can look everything up: a decided candidate was saved APPROVED, a
\* packaged one RELEASE_READY, recorded evidence is in the ledger.  CORRUPT may
\* have replaced the state since.
StoresCoverLog ==
    /\ \A r \in log.frozen : r[2] \in DOMAIN store /\ store[r[2]].rev = r[1]
    /\ \A r \in log.decided : store[r[2]].state \in {"APPROVED", "RELEASE_READY", "CORRUPT"}
    /\ \A r \in log.packaged : store[r[2]].state \in {"RELEASE_READY", "CORRUPT"}
    /\ \A e \in log.evidence : e \in DOMAIN ledger

\* No mission is released on evidence that is missing or failing, although
\* failing evidence may be recorded after the approval: packaging looks at the
\* ledger again.  The evidence may be stale when a revision has begun.
\* (REQ-POL-003)
ReleasedOnEvidence ==
    snap # NoMission /\ snap.released =>
        \A type \in RequiredEvidence(snap.goal) :
            Evidence(snap.active, type) \in {"pass", "stale", "altered"}

\* Each operation of a task has at most one unspent grant, so a token that was
\* issued before a candidate was bound or an attempt was retried is dead once
\* its successor is known (revoke_issued before issue).
OneGrantPerOperation ==
    \A g, h \in grants : g.task = h.task /\ g.operation = h.operation => g = h

\* Between calls the saved attempt of an open task is the one the log calls
\* current and its last, and their states agree: true as long as no call is cut
\* short.
AttemptsMatchLog ==
    pc = "idle" /\ snap # NoMission /\ crashes = 0 =>
        \A t \in OpenTasks(snap) :
            LET task == snap.tasks[t]
                logged == log.tasks[t]
            IN /\ logged.current = task.attempt
               /\ DOMAIN logged.attempts = 1..task.attempt
               /\ logged.attempts[task.attempt] =
                      CASE task.status = "issued"          -> "running"
                        [] task.status = "result-received" -> "completed"
                        [] task.status = "interrupted"     -> "interrupted"

\* A checkpoint is recorded for an attempt that was started, is the one its task
\* is at, and had no result and no interruption before (record_checkpoint).
CheckpointsOfRunning ==
    [][ \A c \in log'.checkpoints \ log.checkpoints :
            crashes = 0 => log.tasks[c[1]].current = c[2]
                               /\ log.tasks[c[1]].attempts[c[2]] = "running" ]_log

-----------------------------------------------------------------------------
(* Steps.                                                                  *)

\* What a revision left behind is never touched again: results, attempts and
\* grants of its tasks that arrive late do not change their records, which a
\* later load verifies and shows.  (receive_result quarantines, REQ-MIS-002)
StaleWorkFrozen ==
    [][ snap # NoMission =>
            \A t \in DOMAIN snap.tasks :
                t.rev < snap.rev => t \in DOMAIN snap'.tasks
                                        /\ snap'.tasks[t] = snap.tasks[t] ]_snap

\* A candidate's content belongs to one revision for good, and a decision on
\* it is not taken back except by finding it corrupt.
DecisionsKept ==
    [][ \A c \in DOMAIN store :
            /\ c \in DOMAIN store' /\ store'[c].rev = store[c].rev
            /\ store[c].state = "APPROVED" =>
                   store'[c].state \in {"APPROVED", "RELEASE_READY", "CORRUPT"}
            /\ store[c].state = "RELEASE_READY" =>
                   store'[c].state \in {"RELEASE_READY", "CORRUPT"} ]_store

\* The instruction a revision of the saved mission was steered by is the one
\* the log has for that revision, also when an earlier attempt to steer got no
\* further than the log (revision command id, EventConflict).
LoggedInstructionHolds ==
    [][ op.kind = "revise" /\ snap' # snap =>
            /\ snap'.rev \in DOMAIN log.steered
            /\ log.steered[snap'.rev] = op.arg.instruction ]_snap

\* The saved mission goes through the stages as the abstract specification
\* says, across any number of calls, crashes and revisions: every save is one
\* of its steps or none.
Life(m) == IF m = NoMission THEN NoMission
           ELSE [rev |-> m.rev, goal |-> m.goal, stage |-> m.stage, active |-> m.active,
                 approved |-> m.approved, released |-> m.released,
                 completed |-> m.completed]

Abstract == INSTANCE Lifecycle
    WITH life <- Life(snap), PlanOf <- Plan, Candidates <- CandidateIds

ImplementsLifecycle == Abstract!Spec

-----------------------------------------------------------------------------
(* Without crashes, and under fairness.                                    *)

\* Between calls the saved mission is what the log projects to, so that no
\* response is refused: true as long as no call is cut short.
SnapshotMatchesLog ==
    pc = "idle" /\ snap # NoMission /\ crashes = 0 => MatchesProjection(snap)

\* The saved mission is one the service answers about: the log projects to it,
\* its files can be verified, and so can its tasks' candidate.
Answerable(m) ==
    /\ MatchesProjection(m) /\ Restorable
    /\ \A t \in OpenTasks(m) : m.tasks[t].cand = None \/ Verified(m, m.tasks[t].cand)

\* Tokens come back: whatever spent, revoked or lost them, a call that raised
\* after it had spent one or a response that was cut short between two tokens,
\* a user who goes on asking for the status has, again and again when no call is
\* running, a usable token for each operation of each open task, bound to the
\* attempt and candidate the task is saved with, unless the mission is one the
\* service refuses.  (_task_response revokes and reissues, one by one)
TokensComeBack ==
    []<>(snap # NoMission =>
             pc = "idle" /\ (Answerable(snap) => FreshGrants(snap) \subseteq grants))

-----------------------------------------------------------------------------
(* What the documents say and the code does not do; runs refute these.     *)

\* docs/user-guide.md: after a restart the mission goes on from its saved
\* state.  A snapshot the log has overtaken is refused by every call.
Resumable == pc = "idle" /\ snap # NoMission => MatchesProjection(snap)

\* REQ-MIS-003: a result that is not of the expected stage is not accepted.
\* What is saved of a task's result changes only in the task's own stage.
ResultsOfPresentStage ==
    [][ snap # NoMission =>
            \A t \in DOMAIN snap.tasks :
                snap'.tasks[t].result # snap.tasks[t].result => t.stage = Kind(snap) ]_snap
=============================================================================
