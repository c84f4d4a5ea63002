-------------------------- MODULE ServiceInvariants -------------------------
(***************************************************************************)
(* The inductive invariants behind the properties of ServiceProperties:    *)
(* what has been written, and what has not, at each point of a call.       *)
(***************************************************************************)
EXTENDS ServiceProperties, MissionInvariants

\* The saved mission and the working copy are valid records.
MissionsValid ==
    /\ snap = NoMission \/ Valid(snap)
    /\ IF pc = "idle" THEN mem = NoMission ELSE Valid(mem)

\* What a call has established when it comes to its next write.
CallFits ==
    /\ pc \in {"receive", "checkpoint", "interrupt", "retry", "restart", "attempt"} =>
           op.task \in DOMAIN mem.tasks
    /\ pc = "receive" => op.arg \in AllPayloads
    /\ pc = "attempt" => mem.tasks[op.task].attempt = 1
    /\ pc = "restart" =>
           mem.tasks[op.task].attempt \in 1..Len(log.tasks[op.task].attempts)
    /\ pc \in {"invalidate", "steer"} => op.arg.goal \in Goals
    /\ pc \in {"freeze", "bind"} =>
           op.arg \in Contents /\ Kind(mem) = "implementation" /\ CurrentTasks(mem) # {}
    /\ pc \in {"examine", "record", "note"} =>
           /\ mem.active # None /\ op.arg.type \in EvidenceTypes
           /\ op.arg.outcome \in {"pass", "fail", "refused"}
    /\ pc \in {"review", "decide", "mark"} => Kind(mem) = "validation" /\ mem.active # None
    /\ pc \in {"pack", "ready", "release"} => Kind(mem) = "release"

\* A projection of the log is well-formed.
LogShape(l) ==
    /\ DOMAIN l = DOMAIN EmptyLog
    /\ l.rev \in Nat /\ DOMAIN l.tasks \subseteq TaskIds
    /\ \A t \in DOMAIN l.tasks : /\ DOMAIN l.tasks[t] = {"current", "attempts"}
                                 /\ l.tasks[t].attempts \in Seq(AttemptStatus)

\* The log knows every task of the saved mission and of the working copy.
LogFits ==
    /\ LogShape(log)
    /\ snap # NoMission => DOMAIN snap.tasks \subseteq DOMAIN log.tasks
    /\ pc # "idle" => DOMAIN mem.tasks \subseteq DOMAIN log.tasks

\* The other stores and the call hold values of their types.
CallTyped ==
    /\ DOMAIN op = {"kind", "task", "arg"} /\ op.task \in TaskIds \cup {None}
    /\ crashes \in 0..MaxCrashes
GrantsTyped ==
    \A g \in grants : /\ g.task \in TaskIds /\ g.operation \in Operations
                      /\ g.attempt \in Nat \ {0} /\ g.cand \in CandidateIds \cup {None}
StoreTyped ==
    /\ DOMAIN store \subseteq CandidateIds
    /\ \A c \in DOMAIN store : store[c] \in [rev : Nat \ {0}, state : CandidateStates,
                                             intact : BOOLEAN]
LedgerTyped ==
    /\ DOMAIN ledger \subseteq CandidateIds \X EvidenceTypes
    /\ \A e \in DOMAIN ledger : ledger[e] \in {"pass", "fail", "stale", "altered"}

StoresTyped == CallTyped /\ GrantsTyped /\ StoreTyped /\ LedgerTyped

\* What every other invariant below rests on.
IInv == MissionsValid /\ CallFits /\ LogFits /\ StoresTyped

-----------------------------------------------------------------------------
(* The working copy of a call and the saved mission.                       *)

\* The abstract steps, between two values of the abstract state.
LifeStep(l, n) ==
    \/ n = l
    \/ l = Abstract!Unborn /\ \E g \in Goals : n = Abstract!Fresh(1, g)
    \/ /\ l # Abstract!Unborn
       /\ \/ \E g \in Goals : n = Abstract!Fresh(l.rev + 1, g)
          \/ Abstract!MayLeave(l) /\ n = Abstract!Advanced(l)
          \/ /\ Abstract!Stage(l) = "implementation" /\ l.active = None
             /\ \E c \in CandidateIds : n = [l EXCEPT !.active = c]
          \/ /\ Abstract!Stage(l) = "validation" /\ l.active # None
             /\ LET a == [l EXCEPT !.approved = TRUE] IN n = a \/ n = Abstract!Advanced(a)
          \/ /\ Abstract!Stage(l) = "release" /\ l.approved
             /\ LET a == [l EXCEPT !.released = TRUE] IN n = a \/ n = Abstract!Advanced(a)

\* A call that has come to one of these points may have changed its copy; before
\* and after them the copy is the saved mission.
Changing == {"restart", "advance", "tasks", "attempt", "save"}

\* How far the working copy is from the saved mission: never further than one
\* abstract step, which the save that follows takes.
CopyStory ==
    /\ pc \notin Changing \cup {"idle"} => snap # NoMission /\ mem = snap
    /\ pc \in {"restart", "advance"} => snap # NoMission
    /\ pc = "restart" => Life(mem) = Life(snap)
    /\ pc = "advance" =>
           \/ Life(mem) = Life(snap)
           \/ /\ Kind(snap) = "validation" /\ snap.active # None
              /\ Life(mem) = [Life(snap) EXCEPT !.approved = TRUE]
           \/ /\ Kind(snap) = "release" /\ snap.approved
              /\ Life(mem) = [Life(snap) EXCEPT !.released = TRUE]
    /\ pc \in {"tasks", "attempt", "save"} => LifeStep(Life(snap), Life(mem))
    /\ pc \in {"freeze", "bind"} => snap.active = None

\* A call that steers does nothing but steer, issue tasks and save; calls about
\* an attempt are about a task of the present stage.
CallStory ==
    /\ op.kind = "revise" =>
           pc \in {"invalidate", "steer", "tasks", "attempt", "save", "respond"}
    /\ pc \in {"checkpoint", "interrupt", "retry"} => op.task \in CurrentTasks(mem)

\* Work of earlier revisions is over.
OldClosed(m) ==
    \A t \in DOMAIN m.tasks : t.rev < m.rev => m.tasks[t].status \in {"completed", "stale"}

\* The work of revisions earlier than that of m is in n what it is in m.
OldKept(m, n) ==
    /\ n.rev >= m.rev
    /\ \A t \in DOMAIN m.tasks :
          t.rev < m.rev => t \in DOMAIN n.tasks /\ n.tasks[t] = m.tasks[t]

\* What was left behind by a revision is closed, and is in the working copy as
\* it was saved.
TaskStory ==
    /\ snap # NoMission => OldClosed(snap)
    /\ pc # "idle" => OldClosed(mem)
    /\ pc # "idle" /\ snap # NoMission => OldKept(snap, mem)

-----------------------------------------------------------------------------
(* The stores behind the log.                                              *)

\* StoresCoverLog, and what a call between its write to a store and its event
\* has already put there.
StoresStory ==
    /\ \A r \in log.frozen : r[2] \in DOMAIN store /\ store[r[2]].rev = r[1]
    /\ \A r \in log.decided :
           /\ r[2] \in DOMAIN store
           /\ store[r[2]].state \in {"APPROVED", "RELEASE_READY", "CORRUPT"}
    /\ \A r \in log.packaged :
           r[2] \in DOMAIN store /\ store[r[2]].state \in {"RELEASE_READY", "CORRUPT"}
    /\ log.evidence \subseteq DOMAIN ledger
    /\ pc = "bind" => LET c == CandidateId(op.arg, mem.goal)
                      IN c \in DOMAIN store /\ store[c].rev = mem.rev
    /\ pc \in {"decide", "mark", "ready", "release"} => mem.active \in DOMAIN store
    /\ pc = "decide" => store[mem.active].state \in {"VERIFYING", "REVIEWING"}
    /\ pc \in {"mark", "ready"} => store[mem.active].state = "APPROVED"
    /\ pc = "release" => store[mem.active].state = "RELEASE_READY"
    /\ pc = "note" => <<mem.active, op.arg.type>> \in DOMAIN ledger

\* An outcome a release can rest on: it passed, whatever became of it since.
Bearing == {"pass", "stale", "altered"}

\* The evidence a mission's goal requires of its candidate.
Backed(m) == \A type \in RequiredEvidence(m.goal) : Evidence(m.active, type) \in Bearing

\* Releases are backed, of the saved mission and of the working copy, from
\* the look packaging takes at the ledger on; and evidence is recorded in the
\* stages before.
EvidenceStory ==
    /\ snap # NoMission /\ snap.released => Backed(snap)
    /\ pc # "idle" /\ mem.released => Backed(mem)
    /\ pc \in {"ready", "release"} => Backed(mem)
    /\ pc \in {"examine", "record"} =>
           Kind(mem) \in {"integration-verification", "validation"}

-----------------------------------------------------------------------------
(* The log ahead of the mission.                                           *)

\* A call that has steered saves a revision the log records with its instruction.
SteerStory ==
    op.kind = "revise" /\ pc \in {"tasks", "attempt", "save"} =>
        mem.rev \in DOMAIN log.steered /\ log.steered[mem.rev] = op.arg.instruction

\* The attempt a task is at is one of its attempts.
Counted(l) == \A t \in DOMAIN l.tasks : l.tasks[t].current \in 0..Len(l.tasks[t].attempts)

\* The attempt a task is at is one of those the log knows of; a task that was
\* just issued has none yet; a retry is the latest one.
AttemptStory ==
    /\ \A t \in DOMAIN log.tasks : log.tasks[t].current \in 0..Len(log.tasks[t].attempts)
    /\ pc = "attempt" => /\ log.tasks[op.task].attempts = <<>>
                         /\ log.tasks[op.task].current = 0
                         /\ mem.tasks[op.task].result = NoResult
    /\ pc = "restart" => mem.tasks[op.task].attempt = Len(log.tasks[op.task].attempts)

\* A mission's candidate was logged as frozen, its approval as decided, its
\* release as packaged.
MarksCovered(m) ==
    /\ m.active # None => <<m.rev, m.active>> \in log.frozen
    /\ m.approved => <<m.rev, m.active>> \in log.decided
    /\ m.released => <<m.rev, m.active>> \in log.packaged

\* So it is with the saved mission and with the working copy.
MarksStory ==
    /\ snap # NoMission => MarksCovered(snap)
    /\ pc # "idle" => MarksCovered(mem)

\* The log is at most one revision ahead of the saved mission, and knows of no
\* later revision than the one it is at.
LogAhead ==
    /\ log.rev # 0 => log.completed \/ log.stage \in StageKinds
    /\ \A r \in DOMAIN log.steered : r \in Nat /\ r <= log.rev
    /\ snap = NoMission => DOMAIN log.steered = {} /\ log.rev <= 1
    /\ snap # NoMission => log.rev <= snap.rev + 1

\* Where a mission is, the log says it is, or is ahead of it.
CourseCovered(l, m) ==
    /\ l.rev >= m.rev
    /\ l.rev = m.rev => l.completed \/ StageAt(m, l.stage)
    /\ l.rev = m.rev /\ m.completed => l.completed

\* So it is with the saved mission and with the working copy.
CourseStory ==
    /\ snap # NoMission => CourseCovered(log, snap)
    /\ pc # "idle" => CourseCovered(log, mem)

\* A task of a mission is known to the log, with the attempt it is at and with
\* the result it has.
TaskCovered(l, m, t) ==
    /\ t \in DOMAIN l.tasks
    /\ m.tasks[t].attempt \in 1..l.tasks[t].current
    /\ m.tasks[t].result # NoResult => <<t, m.tasks[t].result.attempt>> \in l.results

\* The one task whose attempt is yet to be started is not.
Starting(t) == pc \in {"attempt", "restart"} /\ t = op.task

\* So it is with the tasks of the saved mission, of the working copy, and with
\* the result a task keeps while it is given another attempt.
WorkStory ==
    /\ snap # NoMission => \A t \in DOMAIN snap.tasks : TaskCovered(log, snap, t)
    /\ pc # "idle" => \A t \in DOMAIN mem.tasks : Starting(t) \/ TaskCovered(log, mem, t)
    /\ pc = "restart" =>
           LET result == mem.tasks[op.task].result
           IN result # NoResult => <<op.task, result.attempt>> \in log.results

-----------------------------------------------------------------------------
(* As long as no call is cut short.                                        *)

\* The log knows of the mission's tasks, and of no other.
TasksInStep ==
    crashes = 0 =>
        /\ pc = "idle" /\ snap = NoMission => DOMAIN log.tasks = {}
        /\ pc = "idle" /\ snap # NoMission => DOMAIN log.tasks = DOMAIN snap.tasks
        /\ pc # "idle" => DOMAIN log.tasks = DOMAIN mem.tasks

\* The log projects to where a mission is.
CourseMatches(l, m) ==
    /\ l.rev = m.rev
    /\ l.stage = IF m.completed THEN "none" ELSE Kind(m)
    /\ l.completed = m.completed

\* It does so of the saved mission between calls, and of the copy during one.
CourseInStep ==
    crashes = 0 =>
        /\ pc = "idle" /\ snap # NoMission => CourseMatches(log, snap)
        /\ pc # "idle" => CourseMatches(log, mem)

\* The attempt a task is at is the log's current and last one, and their states
\* agree.
AttemptMatches(l, m, t) ==
    LET task == m.tasks[t]
        logged == l.tasks[t]
    IN /\ t \in DOMAIN l.tasks
       /\ logged.current = task.attempt /\ DOMAIN logged.attempts = 1..task.attempt
       /\ task.status \in {"issued", "result-received", "interrupted", "completed"}
       /\ task.status = "issued" => logged.attempts[task.attempt] = "running"
       /\ task.status = "result-received" => logged.attempts[task.attempt] = "completed"
       /\ task.status = "interrupted" => logged.attempts[task.attempt] = "interrupted"

\* That is so of all tasks of a mission's revision, but for the one whose
\* attempt is yet to be started.
AttemptsInStep ==
    crashes = 0 =>
        /\ pc = "idle" /\ snap # NoMission =>
               \A t \in DOMAIN snap.tasks : t.rev = snap.rev => AttemptMatches(log, snap, t)
        /\ pc # "idle" =>
               \A t \in DOMAIN mem.tasks :
                   t.rev = mem.rev => Starting(t) \/ AttemptMatches(log, mem, t)
        /\ pc \in {"attempt", "restart"} =>
               op.task.rev = mem.rev /\ mem.tasks[op.task].status = "issued"
=============================================================================
