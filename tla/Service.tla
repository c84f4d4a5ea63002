------------------------------ MODULE Service ------------------------------
(***************************************************************************)
(* The workflow service of one mission (src/agent_harness/                 *)
(* plugin_service.py), composed with the policy engine                     *)
(* (workflow_policy.py), the mission record (Mission) and the event log    *)
(* (WorkflowLog).                                                          *)
(*                                                                         *)
(* A call holds the service's lock from start to end: it loads the mission *)
(* snapshot, works on the copy, and writes durable state as it goes: the   *)
(* authority store, the candidate store, the evidence ledger, the event    *)
(* log and last of all the snapshot.  Each durable write is one action     *)
(* here, so a crash may fall between any two of them; pc is the next one.  *)
(* A call refused before its first write changes nothing and is not an     *)
(* action.  A call that raises later is over at once (Abandon): what it    *)
(* wrote stays, its working copy is lost.                                  *)
(***************************************************************************)
EXTENDS Mission, WorkflowLog

CONSTANTS Instructions,  \* texts a steering instruction may have
          Payloads,      \* bound: the payloads the workers of each role submit
          Commands,      \* bound: the calls each role makes on its tasks
          SteeredAt,     \* bound: the stages in which the user may revise
          Faults,        \* what the environment of this run may do
          MaxRevision,   \* bound: no revise beyond this revision
          MaxAttempt,    \* bound: no retry beyond this attempt of a task
          MaxCrashes,    \* bound: process crashes
          CrashIn        \* bound: the kinds of calls a crash may cut short

TaskCommands == {"submit", "checkpoint", "interrupt", "retry", "freeze", "evidence",
                 "approve", "package"}
AllFaults == {"tamper", "rewrite", "alter"}

\* "invalid" stands for a payload whose hash or handoff does not verify.
AllPayloads == [gate : {"pass", "fail"}, digest : Digests \cup {None}]
                   \cup [gate : {"invalid"}, digest : {None}]

ASSUME BoundsAssumption == /\ Payloads \in [AllRoles -> SUBSET AllPayloads]
                           /\ Commands \in [AllRoles -> SUBSET TaskCommands]
                           /\ SteeredAt \subseteq StageKinds
                           /\ Faults \subseteq AllFaults
                           /\ MaxRevision \in Nat \ {0}
                           /\ MaxAttempt \in Nat \ {0}
                           /\ MaxCrashes \in Nat
                           /\ CrashIn \subseteq TaskCommands \cup {"start", "revise", "status"}

VARIABLES
    snap,     \* durable: the mission JSON, NoMission before the first save
    mem,      \* volatile: the working copy of the running call
    op,       \* volatile: the running call, its task and its argument
    pc,       \* volatile: the next durable write of the running call
    log,      \* durable: the event log
    grants,   \* durable: the unspent authority grants that may still be spent
    store,    \* durable: the candidate store, a function on the frozen ids
    ledger,   \* durable: the latest evidence per candidate and type
    spoiled,  \* tasks an accepted result of which no longer matches its files
    crashes

vars == <<snap, mem, op, pc, log, grants, store, ledger, spoiled, crashes>>

CandidateStates == {"FROZEN", "VERIFYING", "REVIEWING", "APPROVED", "PACKAGING",
                    "RELEASE_READY", "REVIEW_FAILED", "CORRUPT"}

\* The call each kind of grant is spent on.
CommandOf == [operation \in {"submit-result", "record-checkpoint", "interrupt-attempt",
                             "retry-attempt", "freeze-candidate", "record-evidence",
                             "approve-candidate", "package-release"} |->
    CASE operation = "submit-result"     -> "submit"
      [] operation = "record-checkpoint" -> "checkpoint"
      [] operation = "interrupt-attempt" -> "interrupt"
      [] operation = "retry-attempt"     -> "retry"
      [] operation = "freeze-candidate"  -> "freeze"
      [] operation = "record-evidence"   -> "evidence"
      [] operation = "approve-candidate" -> "approve"
      [] operation = "package-release"   -> "package"]

Operations == DOMAIN CommandOf

\* No file to load, no copy to work on; no record of a mission looks like this.
NoMission == [rev |-> 0]

NoCall == [kind |-> "none", task |-> None, arg |-> None]

-----------------------------------------------------------------------------
(* Authority.                                                              *)

OperationsFor(task, stage) ==
    IF task.status = "interrupted"
    THEN {"retry-attempt"}
    ELSE {"submit-result", "record-checkpoint", "interrupt-attempt"}
            \cup (IF stage = "implementation" THEN {"freeze-candidate"} ELSE {})
            \cup (IF stage = "integration-verification" THEN {"record-evidence"} ELSE {})
            \cup (IF stage = "validation" THEN {"record-evidence", "approve-candidate"}
                  ELSE {})
            \cup (IF stage = "release" THEN {"package-release"} ELSE {})

\* The grant consume() needs for an operation on a task: every binding equal.
GrantFor(m, t, operation) ==
    [task |-> t, operation |-> operation,
     attempt |-> m.tasks[t].attempt, cand |-> m.tasks[t].cand]

\* _operation_task: the task is of the current revision and stage.  Nothing
\* here asks whether the mission is completed.
OperationTask(m, t, operation) ==
    /\ t \in CurrentTasks(m)
    /\ operation \in OperationsFor(m.tasks[t], t.stage)

\* The open tasks a response lists, and what it does to their grants: each
\* operation's unspent grants are revoked and one new grant is issued.
OpenTasks(m) ==
    IF m.completed THEN {}
    ELSE {t \in CurrentTasks(m) : m.tasks[t].status \notin {"stale", "completed"}}

\* Mutant: nothing is revoked before new grants are issued.
GrantsOfNobody(m, S) == {}

GrantsOf(m, S) == {g \in grants : g.task \in S /\ g.operation \in
                                      OperationsFor(m.tasks[g.task], g.task.stage)}

\* Bound: a grant no client of the run would ever spend is not kept.
Spendable(role) == {operation \in Operations : CommandOf[operation] \in Commands[role]}

\* Only a submission may spend the grant of a task that is no longer of the
\* current stage; other grants of such a task are dead and not kept.
Dead(m) == {g \in grants : g.operation # "submit-result" /\ g.task \notin CurrentTasks(m)}

FreshGrants(m) ==
    UNION {{GrantFor(m, t, operation) :
                operation \in OperationsFor(m.tasks[t], t.stage) \cap Spendable(t.role)} :
               t \in OpenTasks(m)}

\* Mutant: what is revoked includes the new grants.
ReissuedFirst(m) ==
    {g \in (grants \ Dead(m)) \cup FreshGrants(m) :
        ~ /\ g.task \in OpenTasks(m)
          /\ g.operation \in OperationsFor(m.tasks[g.task], g.task.stage)}

Reissued(m) == (grants \ (GrantsOf(m, OpenTasks(m)) \cup Dead(m))) \cup FreshGrants(m)

-----------------------------------------------------------------------------
(* The candidate store and the ledger.                                     *)

\* _verified_candidate: the files match the manifest and the manifest is of
\* this revision.
Verified(m, c) == c \in DOMAIN store /\ store[c].intact /\ store[c].rev = m.rev

SetState(c, state) == store' = [store EXCEPT ![c].state = state]

\* A verification that finds the files changed marks and saves the candidate
\* as CORRUPT, whatever its state was.
MarkCorrupt(c) ==
    IF c \in DOMAIN store /\ ~store[c].intact THEN SetState(c, "CORRUPT")
    ELSE UNCHANGED store

Evidence(c, type) ==
    IF <<c, type>> \in DOMAIN ledger THEN ledger[<<c, type>>] ELSE "none"

SetEvidence(c, type, outcome) ==
    ledger' = [e \in DOMAIN ledger \cup {<<c, type>>} |->
                  IF e = <<c, type>> THEN outcome ELSE ledger[e]]

\* status() is VALID for a passing record that was not invalidated; "altered"
\* is such a record whose artifact file no longer has the recorded digest.
ValidEvidence(c) == {type \in EvidenceTypes : Evidence(c, type) \in {"pass", "altered"}}

\* Mutant: any record of a required type will do.
EvidenceExists(m) == \A type \in RequiredEvidence(m.goal) : Evidence(m.active, type) # "none"

\* Mutant: the outcome is looked at, but neither the status nor the file.
EvidenceOncePassed(m) ==
    \A type \in RequiredEvidence(m.goal) :
        Evidence(m.active, type) \in {"pass", "stale", "altered"}

EvidenceSuffices(m) ==
    \A type \in RequiredEvidence(m.goal) : Evidence(m.active, type) = "pass"

-----------------------------------------------------------------------------
(* Calls.                                                                  *)

Init ==
    /\ snap = NoMission /\ mem = NoMission /\ op = NoCall /\ pc = "idle"
    /\ log = EmptyLog /\ grants = {} /\ store = <<>> /\ ledger = <<>>
    /\ spoiled = {} /\ crashes = 0

\* restore() verifies the files of every accepted result.
Restorable == spoiled = {}

\* The lock is taken and the snapshot loaded.
Call(kind, t, arg, next) ==
    /\ pc = "idle" /\ snap # NoMission /\ Restorable
    /\ mem' = snap
    /\ op' = [kind |-> kind, task |-> t, arg |-> arg]
    /\ pc' = next
    /\ UNCHANGED <<snap, log, store, ledger, spoiled, crashes>>

\* A call that starts by spending a grant.
GrantedCall(kind, t, operation, arg, next) ==
    /\ kind \in Commands[t.role]
    /\ Call(kind, t, arg, next)
    /\ GrantFor(snap, t, operation) \in grants
    /\ grants' = grants \ {GrantFor(snap, t, operation)}

\* The running call ends; its working copy is forgotten.
Release == mem' = NoMission /\ op' = NoCall /\ pc' = "idle"

Abandon == Release /\ UNCHANGED <<snap, log, spoiled, crashes>>

Goto(next) == pc' = next /\ UNCHANGED <<snap, spoiled, crashes>>

Start(g) ==
    /\ pc = "idle" /\ snap = NoMission
    /\ mem' = NewMission(g)
    /\ op' = [kind |-> "start", task |-> None, arg |-> None]
    /\ log' = MissionStarted(log, Kind(NewMission(g)))
    /\ Goto("tasks")
    /\ UNCHANGED <<grants, store, ledger>>

Status == Call("status", None, None, "respond") /\ UNCHANGED grants

\* submit_result asks for a task it knows and its unspent grant, not for the
\* current revision, the current stage or an attempt that was not interrupted.
Submit(t, payload) ==
    GrantedCall("submit", t, "submit-result", payload, "receive")

Checkpoint(t) ==
    /\ OperationTask(snap, t, "record-checkpoint")
    /\ GrantedCall("checkpoint", t, "record-checkpoint", None, "checkpoint")

InterruptAttempt(t) ==
    /\ OperationTask(snap, t, "interrupt-attempt")
    /\ GrantedCall("interrupt", t, "interrupt-attempt", None, "interrupt")

RetryAttempt(t) ==
    /\ OperationTask(snap, t, "retry-attempt")
    /\ FreshAttempt(log, t) <= MaxAttempt
    /\ GrantedCall("retry", t, "retry-attempt", None, "retry")

Revise(g, instruction) ==
    /\ Call("revise", None, [goal |-> g, instruction |-> instruction], "invalidate")
    /\ snap.rev < MaxRevision /\ Kind(snap) \in SteeredAt
    /\ UNCHANGED grants

FreezeCandidate(t, content) ==
    /\ OperationTask(snap, t, "freeze-candidate")
    /\ snap.active = None
    /\ GrantedCall("freeze", t, "freeze-candidate", content, "freeze")

RecordEvidence(t, type, outcome) ==
    /\ OperationTask(snap, t, "record-evidence")
    /\ snap.active # None
    /\ GrantedCall("evidence", t, "record-evidence",
                   [type |-> type, outcome |-> outcome], "examine")

\* The grant is spent later, by the gate policy.
ApproveCandidate(t) ==
    /\ OperationTask(snap, t, "approve-candidate")
    /\ snap.active # None
    /\ "approve" \in Commands[t.role]
    /\ Call("approve", t, None, "review")
    /\ UNCHANGED grants

PackageRelease(t, packageable) ==
    /\ OperationTask(snap, t, "package-release")
    /\ snap.active # None
    /\ GrantedCall("package", t, "package-release", packageable, "pack")

\* Most arguments are looked at only when the grant is spent: a payload that is
\* no object, a file that does not exist, a reason that is empty make the call
\* raise before it writes anything else.
RefuseArguments ==
    /\ pc \in {"receive", "checkpoint", "interrupt", "freeze", "examine"}
    /\ Abandon
    /\ UNCHANGED <<grants, store, ledger>>

-----------------------------------------------------------------------------
(* Receiving a result, advancing, issuing tasks.                           *)

\* Mutant: only the stage of a late result is looked at.
QuarantinedByStage(m, t) == t.stage # Kind(m)

\* A result of another revision is put into an inbox, and the mission left alone.
Quarantined(m, t) == t.rev # m.rev

\* The task's workspace is looked up in the present plan: a task of an earlier
\* plan may have no place in it, and the lookup raises.
HasWorkspace(m, t) == t.stage \in PlanKinds(m.goal) /\ t.role \in Roles(m.goal, t.stage)

ReceiveResult ==
    /\ pc = "receive"
    /\ LET t == op.task
           payload == op.arg
       IN \/ /\ ~HasWorkspace(mem, t)
             /\ Abandon
             /\ UNCHANGED <<grants, store, ledger>>
          \/ \* Quarantined as stale, in an inbox that is not saved, or rejected.
             /\ HasWorkspace(mem, t)
             /\ Quarantined(mem, t) \/ payload.gate = "invalid"
             /\ Goto("save")
             /\ UNCHANGED <<mem, op, log, grants, store, ledger>>
          \/ /\ HasWorkspace(mem, t)
             /\ ~Quarantined(mem, t) /\ payload.gate # "invalid"
             /\ mem' = Receive(mem, t, payload.gate, payload.digest)
             /\ log' = ResultReceived(log, t, mem.tasks[t].attempt)
             /\ Goto("advance")
             /\ UNCHANGED <<op, grants, store, ledger>>

AdvanceStage ==
    /\ pc = "advance"
    /\ mem' = IF MayAdvance(mem) THEN Advance(mem) ELSE mem
    /\ log' = IF ~MayAdvance(mem) THEN log
              ELSE IF LastStage(mem) THEN MissionCompleted(log)
              ELSE StageAdvanced(log, Kind(Advance(mem)))
    /\ Goto("tasks")
    /\ UNCHANGED <<op, grants, store, ledger>>

\* _ensure_stage_tasks goes once through the roles of the stage, in sorted
\* order, and passes over those that have a task; here the order is some fixed
\* one.  As nothing but this loop adds a task before the save, the roles it will
\* not pass over are at each round those that still have none.
IssueStageTask ==
    /\ pc = "tasks"
    /\ UNCHANGED <<grants, store, ledger>>
    /\ IF mem.completed \/ RolesWithoutTask(mem) = {}
       THEN Goto("save") /\ UNCHANGED <<mem, op, log>>
       ELSE LET role == CHOOSE r \in RolesWithoutTask(mem) : TRUE
                t == Current(mem, role)
            IN IF t \in DOMAIN log.tasks \/ ~InputsAvailable(mem)
               THEN Abandon
               ELSE /\ mem' = IssueTask(mem, role)
                    /\ log' = TaskIssued(log, t)
                    /\ op' = [op EXCEPT !.task = t]
                    /\ Goto("attempt")

StartAttempt ==
    /\ pc = "attempt"
    /\ log' = AttemptStarted(log, op.task, mem.tasks[op.task].attempt)
    /\ Goto("tasks")
    /\ UNCHANGED <<mem, op, grants, store, ledger>>

-----------------------------------------------------------------------------
(* Attempts.                                                               *)

\* Mutant: the state of the task is not looked at.
CheckpointAnyAttempt ==
    /\ pc = "checkpoint"
    /\ log' = CheckpointRecorded(log, op.task, mem.tasks[op.task].attempt)
    /\ Goto("respond")
    /\ UNCHANGED <<mem, op, grants, store, ledger>>

CheckpointAttempt ==
    /\ pc = "checkpoint"
    /\ UNCHANGED <<grants, store, ledger>>
    /\ IF mem.tasks[op.task].status # "issued"
       THEN Abandon
       ELSE /\ log' = CheckpointRecorded(log, op.task, mem.tasks[op.task].attempt)
            /\ Goto("respond")
            /\ UNCHANGED <<mem, op>>

StopAttempt ==
    /\ pc = "interrupt"
    /\ mem' = Interrupt(mem, op.task)
    /\ log' = AttemptInterrupted(log, op.task, mem.tasks[op.task].attempt)
    /\ Goto("save")
    /\ UNCHANGED <<op, grants, store, ledger>>

ScheduleRetry ==
    /\ pc = "retry"
    /\ mem' = Retry(mem, op.task, FreshAttempt(log, op.task))
    /\ log' = RetryScheduled(log, op.task)
    /\ Goto("restart")
    /\ UNCHANGED <<op, grants, store, ledger>>

RestartAttempt ==
    /\ pc = "restart"
    /\ log' = AttemptStarted(log, op.task, mem.tasks[op.task].attempt)
    /\ Goto("save")
    /\ UNCHANGED <<mem, op, grants, store, ledger>>

-----------------------------------------------------------------------------
(* Steering.                                                               *)

\* revise reads the list of the candidate's records once, and goes through it:
\* a record that is valid when it comes to it is invalidated.  As no call but
\* this one writes to the ledger meanwhile, the records it has not come to yet,
\* and will not pass over, are at each round those that are still valid; here
\* their order is any.
InvalidateEvidence ==
    /\ pc = "invalidate"
    /\ IF mem.active # None /\ ValidEvidence(mem.active) # {}
       THEN /\ \E type \in ValidEvidence(mem.active) :
                   SetEvidence(mem.active, type, "stale")
            /\ Goto("invalidate")
       ELSE Goto("steer") /\ UNCHANGED ledger
    /\ UNCHANGED <<mem, op, log, grants, store>>

SteerMission ==
    /\ pc = "steer"
    /\ UNCHANGED <<grants, store, ledger>>
    /\ IF RevisionConflicts(log, mem.rev + 1, op.arg.instruction)
       THEN Abandon
       ELSE /\ mem' = Steer(mem, op.arg.goal)
            /\ log' = RevisionStarted(log, mem.rev + 1, Kind(Steer(mem, op.arg.goal)),
                                      op.arg.instruction)
            /\ Goto("tasks")
            /\ UNCHANGED op

-----------------------------------------------------------------------------
(* The candidate: freezing, evidence, approval, packaging.                 *)

\* The directory and its files appear in one step: what a crash leaves half
\* written is never bound, and blocks the id like the whole.
FreezeSnapshot ==
    /\ pc = "freeze"
    /\ UNCHANGED <<grants, ledger>>
    /\ LET c == CandidateId(op.arg, mem.goal)
       IN IF c \in DOMAIN store
          THEN Abandon /\ UNCHANGED store
          ELSE /\ store' = [d \in DOMAIN store \cup {c} |->
                               IF d = c
                               THEN [rev |-> mem.rev, state |-> "FROZEN", intact |-> TRUE]
                               ELSE store[d]]
               /\ Goto("bind")
               /\ UNCHANGED <<mem, op, log>>

BindFrozen ==
    /\ pc = "bind"
    /\ UNCHANGED <<grants, ledger>>
    /\ LET c == CandidateId(op.arg, mem.goal)
       IN IF ~store[c].intact
          THEN Abandon /\ MarkCorrupt(c)
          ELSE /\ mem' = BindCandidate(mem, c)
               /\ log' = CandidateFrozen(log, mem.rev, c)
               /\ Goto("save")
               /\ UNCHANGED <<op, store>>

\* The first evidence moves a frozen candidate on; later evidence leaves the
\* state alone.
StateOnEvidence(state) == IF state = "FROZEN" THEN "VERIFYING" ELSE state

ExamineCandidate ==
    /\ pc = "examine"
    /\ UNCHANGED <<grants, ledger>>
    /\ IF Verified(mem, mem.active)
             /\ op.task.role \in EvidenceRoles(mem.goal, op.arg.type)
       THEN /\ SetState(mem.active, StateOnEvidence(store[mem.active].state))
            /\ Goto("record")
            /\ UNCHANGED <<mem, op, log>>
       ELSE Abandon /\ MarkCorrupt(mem.active)

\* The ledger refuses an artifact that belongs to another candidate, and an
\* evaluation that does not bear out the outcome.
AppendEvidence ==
    /\ pc = "record"
    /\ UNCHANGED <<grants, store>>
    /\ IF op.arg.outcome = "refused"
       THEN Abandon /\ UNCHANGED ledger
       ELSE /\ SetEvidence(mem.active, op.arg.type, op.arg.outcome)
            /\ Goto("note")
            /\ UNCHANGED <<mem, op, log>>

NoteEvidence ==
    /\ pc = "note"
    /\ log' = EvidenceRecorded(log, mem.active, op.arg.type)
    /\ Goto("respond")
    /\ UNCHANGED <<mem, op, grants, store, ledger>>

\* approve(): the candidate is moved to REVIEWING in memory only, and the gate
\* policy spends the grant before it looks at the state and the evidence.
ReviewPasses(m) ==
    /\ store[m.active].state \in {"VERIFYING", "REVIEWING"}
    /\ CanApprove(m.goal, op.task.role)
    /\ EvidenceSuffices(m)

\* Mutant: the move to REVIEWING is saved, from any state.
ReviewSaved ==
    /\ pc = "review" /\ Verified(mem, mem.active)
    /\ SetState(mem.active, "REVIEWING")
    /\ IF EvidenceSuffices(mem) THEN Goto("decide") /\ UNCHANGED <<mem, op, log>>
       ELSE Abandon
    /\ UNCHANGED <<grants, ledger>>

ReviewCandidate ==
    /\ pc = "review"
    /\ UNCHANGED ledger
    /\ LET grant == GrantFor(mem, op.task, "approve-candidate")
       IN IF ~Verified(mem, mem.active)
          THEN Abandon /\ MarkCorrupt(mem.active) /\ UNCHANGED grants
          ELSE /\ UNCHANGED store
               /\ IF \/ grant \notin grants
                     \/ \E type \in RequiredEvidence(mem.goal) :
                            Evidence(mem.active, type) = "altered"
                  THEN Abandon /\ UNCHANGED grants
                  ELSE /\ grants' = grants \ {grant}
                       /\ IF ReviewPasses(mem)
                          THEN Goto("decide") /\ UNCHANGED <<mem, op, log>>
                          ELSE Abandon

\* Mutant: the approved state is not saved.
SaveDecisionLost ==
    /\ pc = "decide"
    /\ Goto("mark")
    /\ UNCHANGED <<mem, op, log, grants, store, ledger>>

SaveDecision ==
    /\ pc = "decide"
    /\ SetState(mem.active, "APPROVED")
    /\ Goto("mark")
    /\ UNCHANGED <<mem, op, log, grants, ledger>>

\* Mutant: the decision is not logged.
MarkDecisionUnlogged ==
    /\ pc = "mark"
    /\ mem' = MarkApproved(mem)
    /\ Goto("advance")
    /\ UNCHANGED <<op, log, grants, store, ledger>>

MarkDecision ==
    /\ pc = "mark"
    /\ mem' = MarkApproved(mem)
    /\ log' = QualityDecided(log, mem.rev, mem.active)
    /\ Goto("advance")
    /\ UNCHANGED <<op, grants, store, ledger>>

\* op.arg tells whether the disposition is one that may be packaged (release,
\* restricted) or not (hold, prohibited).
PackCandidate ==
    /\ pc = "pack"
    /\ UNCHANGED <<grants, ledger>>
    /\ IF ~Verified(mem, mem.active)
       THEN Abandon /\ MarkCorrupt(mem.active)
       ELSE /\ UNCHANGED store
            /\ IF EvidenceSuffices(mem) /\ op.arg /\ store[mem.active].state = "APPROVED"
               THEN Goto("ready") /\ UNCHANGED <<mem, op, log>>
               ELSE Abandon

SaveRelease ==
    /\ pc = "ready"
    /\ SetState(mem.active, "RELEASE_READY")
    /\ Goto("release")
    /\ UNCHANGED <<mem, op, log, grants, ledger>>

BindPackage ==
    /\ pc = "release"
    /\ UNCHANGED <<grants, store, ledger>>
    /\ IF ~mem.approved
       THEN Abandon
       ELSE /\ mem' = BindRelease(mem)
            /\ log' = PackageCreated(log, mem.rev, mem.active)
            /\ Goto("advance")
            /\ UNCHANGED op

-----------------------------------------------------------------------------
(* Saving and responding.                                                  *)

SaveSnapshot ==
    /\ pc = "save"
    /\ snap' = mem
    /\ pc' = "respond"
    /\ UNCHANGED <<mem, op, log, grants, store, ledger, spoiled, crashes>>

MatchesProjection(m) ==
    /\ log.rev = m.rev
    /\ log.stage = IF m.completed THEN "none" ELSE Kind(m)
    /\ log.completed = m.completed

Respond ==
    /\ pc = "respond"
    /\ UNCHANGED <<ledger>>
    /\ Abandon
    /\ \/ /\ ~MatchesProjection(mem)
          /\ UNCHANGED <<grants, store>>
       \/ /\ MatchesProjection(mem)
          /\ \A t \in OpenTasks(mem) :
                 mem.tasks[t].cand = None \/ Verified(mem, mem.tasks[t].cand)
          /\ grants' = Reissued(mem)
          /\ UNCHANGED store
       \/ \* The first task bound to a candidate that does not verify: its grants
          \* were revoked and reissued, and the new tokens go to nobody.
          /\ MatchesProjection(mem)
          /\ \E t \in OpenTasks(mem) :
                 /\ mem.tasks[t].cand # None /\ ~Verified(mem, mem.tasks[t].cand)
                 /\ grants' = grants \ GrantsOf(mem, {t})
                 /\ MarkCorrupt(mem.tasks[t].cand)

-----------------------------------------------------------------------------
(* The environment.                                                        *)

\* The process dies.  A mission that was never saved is one nobody has the id
\* of, so what it left behind is not part of the next one.  A response that
\* was cut short may have revoked the grants of some operations of open tasks.
Crash ==
    /\ pc # "idle" /\ crashes < MaxCrashes /\ op.kind \in CrashIn
    /\ crashes' = crashes + 1
    /\ Release
    /\ log' = IF snap = NoMission THEN EmptyLog ELSE log
    /\ IF pc = "respond" /\ MatchesProjection(mem)
       THEN \E G \in SUBSET GrantsOf(mem, OpenTasks(mem)) : grants' = grants \ G
       ELSE UNCHANGED grants
    /\ UNCHANGED <<snap, store, ledger, spoiled>>

\* Somebody changes a frozen candidate's files.
Tamper(c) ==
    /\ "tamper" \in Faults
    /\ store[c].intact
    /\ store' = [store EXCEPT ![c].intact = FALSE]
    /\ UNCHANGED <<snap, mem, op, pc, log, grants, ledger, spoiled, crashes>>

\* A worker writes again to a file it named in an accepted result.  Bound: once
\* one such file was rewritten, which stops every call, no second one is.
RewriteArtifact(t) ==
    /\ "rewrite" \in Faults
    /\ pc = "idle" /\ Restorable /\ snap.tasks[t].result # NoResult
    /\ spoiled' = spoiled \cup {t}
    /\ UNCHANGED <<snap, mem, op, pc, log, grants, store, ledger, crashes>>

\* The file behind a piece of passing evidence changes.
AlterEvidence(c, type) ==
    /\ "alter" \in Faults
    /\ Evidence(c, type) = "pass"
    /\ SetEvidence(c, type, "altered")
    /\ UNCHANGED <<snap, mem, op, pc, log, grants, store, spoiled, crashes>>

Environment ==
    \/ \E c \in DOMAIN store : Tamper(c)
    \/ snap # NoMission /\ \E t \in DOMAIN snap.tasks : RewriteArtifact(t)
    \/ \E e \in DOMAIN ledger : AlterEvidence(e[1], e[2])

-----------------------------------------------------------------------------

Client ==
    \/ \E g \in Goals : Start(g)
    \/ /\ snap # NoMission
       /\ \/ Status
          \/ \E g \in Goals, instruction \in Instructions : Revise(g, instruction)
          \/ \E t \in DOMAIN snap.tasks :
                \/ \E payload \in Payloads[t.role] : Submit(t, payload)
                \/ Checkpoint(t)
                \/ InterruptAttempt(t)
                \/ RetryAttempt(t)
                \/ \E content \in Contents : FreezeCandidate(t, content)
                \/ \E type \in RequiredEvidence(snap.goal),
                      outcome \in {"pass", "fail", "refused"} : RecordEvidence(t, type, outcome)
                \/ ApproveCandidate(t)
                \/ \E packageable \in BOOLEAN : PackageRelease(t, packageable)

Step ==
    \/ RefuseArguments
    \/ ReceiveResult \/ AdvanceStage \/ IssueStageTask \/ StartAttempt
    \/ CheckpointAttempt \/ StopAttempt \/ ScheduleRetry \/ RestartAttempt
    \/ InvalidateEvidence \/ SteerMission
    \/ FreezeSnapshot \/ BindFrozen \/ ExamineCandidate \/ AppendEvidence \/ NoteEvidence
    \/ ReviewCandidate \/ SaveDecision \/ MarkDecision
    \/ PackCandidate \/ SaveRelease \/ BindPackage
    \/ SaveSnapshot \/ Respond

Next == Client \/ Step \/ Crash \/ Environment

Spec == Init /\ [][Next]_vars

\* A running call goes on, as the service's thread is scheduled; and a user who
\* asks for the status again and again finds the lock free at some time.
Fairness == WF_vars(Step) /\ SF_vars(Status)
=============================================================================
