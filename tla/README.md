# Verification of the agent harness's workflow

TLA+ specifications of the workflow harness in `src/src/agent_harness`: the mission life cycle a
user drives through a plugin, the stores it leaves on disk, and the planner that decides which
stages and roles a mission has. Paths below are relative to `src/src/agent_harness` unless they
start with `src/`.

## 1. The system

A *mission* turns one goal into a packaged release. A planner computes from the goal a sequence of
stages (scope-risk; goal-discovery and method-discovery when something critical is not known;
requirements, oracle, design, implementation, integration-verification, validation, release), and the
roles that work in each, which depend on the goal's risk.
The service issues one task per role of the present stage with a set of single-use tokens (grants);
workers submit results; when all results of a stage pass and what the stage must bind (candidate,
approval, package) is bound, the mission advances. The user may steer at any time, which begins a new
revision from the first stage.

### 1.1 Components

| Component | Source | State | Operations | Here |
|---|---|---|---|---|
| Workflow service | `plugin_service.py` | none of its own between calls; a process-wide lock | start, revise, status, submit_result, record_checkpoint, interrupt, retry, freeze_candidate, record_evidence, approve, package | `Service` |
| Workflow policy engine | `workflow_policy.py` | none | one method per operation: changes the mission, then appends events | `Service`, `WorkflowLog` |
| Mission record | `mission.py` | the mission JSON: revisions, goal, stage, tasks, results, bindings | issue, accept/reject result, interrupt, retry, advance, steer, bind candidate/approval/package, restore | `Mission` |
| Methodology planner | `methodology.py`, goal parts of `plugin_service.py` and `models.py` | none (pure) | goal from arguments, goal after a revision, plan, stages, roles, evidence | `Methodology`, `Planning` |
| Event store | `workflow_state.py` | SQLite table of hash-chained events, unique per sequence number and per command | append, events, projection | `EventStore`, `WorkflowLog` |
| Authority store | `authority.py` | SQLite table of grants: issued, consumed, revoked | issue, revoke_issued, consume | `Authority`; a set of unspent grants in `Service` |
| Evidence ledger | `evidence.py` | SQLite tables: hash-chained events, artifact bindings | append, invalidate, verify_chain, latest | `EvidenceLedger`; latest records in `Service` |
| Candidate store | `candidate.py`, `state_machine.py` | per candidate a directory with copies of the inputs, manifest, digest and JSON state | freeze, get, transition, verify_snapshot, save_state | `CandidateStore`; one step and one flag in `Service` |
| Gate policy, packaging | `policy.py`, `release.py` | none / a zip file per candidate | evaluate gates, approve, package | `Service`, `CandidateStore` |
| Plugin entry, commands, schemas | `hermes_plugin.py`, `plugin_schemas.py` | none | dispatch, JSON schemas | not modelled |
| Agent runner | `agent_runner.py` | the external process it waits for, and the grant it spends | dispatch | `AgentRunner` |
| Role workspaces | `workspace.py` | a work directory per mission, revision, task and role | create, the catalogue of roles, path checks | the directory in `AgentRunner`, the roles in `Methodology` |
| Handoff and result documents | `handoff.py`, `expert_handoff.py`, `result_evidence.py` | none | check one document against its schema, its links and the files it names | the files in `AgentRunner`; the rest is an input of `Service` |
| Command-line demo | `cli.py` | none | a scripted sequence of the same calls | not modelled |

### 1.2 How they interact

A call of the service takes the lock, loads the mission JSON, verifies it (`restore`), and works on
the copy. Along the way it writes, each durable on its own and in this order: the authority store
(the grant the call spends), the candidate store or the evidence ledger, the event log, and last the
mission JSON (written to a temporary file and renamed). The response then compares log and snapshot,
revokes the present grants of every open task and issues new ones. There is no transaction over these
stores; the order of the writes and the idempotence of some of them is all that holds them together.

### 1.3 What is hard, and what makes each component correct

* **Service**: a crash between two writes leaves the stores at different points; a call that raises
  in the middle leaves what it has written. Correct when the log is never behind the snapshot, the
  stores never behind the log, every operation of an open task has one usable grant at most and
  comes to one again, and nothing is approved or packaged but on valid, passing evidence of the
  present revision.
* **Mission record**: long series of legal calls; results that come late, twice, for another stage or
  revision, or disagree. Correct when its bindings are exactly those the stages behind it require
  and no stage was passed without passing results of all its roles on one output.
* **Policy engine and attempts**: an attempt is interrupted or retried while its result is on the way.
  Correct when grants, task and log agree on the attempt.
* **Planner**: stage requirements, roles and evidence are derived by different tables. Correct when
  every goal's plan can be carried out, and discovery is planned exactly where something is unknown.
* **Candidate store, packaging**: a freeze copies file after file into a directory that is named after what was
  scanned before; it may die anywhere, the inputs may change, and another process may load, judge or package the
  same candidate meanwhile. Correct when half a freeze is never taken for a candidate, decisions and packages are
  about the content the id names, and the state file is readable and moves as the transition table says.
* **Agent runner**: the grant is spent before there is a process; the process may hang, fail, be killed or outlive
  whoever waits for it; the directory it writes to belongs to the task and not to the attempt. Correct when an agent was paid for once,
  is waited for to its end, and what is handed in is what is in the directory.
* **Event store, authority store, ledger**: several processes share the SQLite files and may die
  between statements. Correct when the log is an unbroken chain with each command once; a token is
  spent at most once, and what was checked is true when it is; evidence keeps its target.

Every hazard, with the line where it bites and the properties aimed at it, is in `PROJECT.json`.

## 2. The modules

```
Methodology ──┬── Planning ──── MCPlanning                (the planner by itself)
              └── Mission ──┬── MissionInvariants
                            ├── Service ── ServiceProperties ─┬─ MCService  (the composed system)
              WorkflowLog ──┘                  │ refines      └─ ServiceWitness ── MCServiceWitness
                                               └── Lifecycle              (what a mission promises)
EventStore ── refines ── CommandLog            (the shared log, statement by statement; what an append promises)
EvidenceLedger                                 (the shared ledger, statement by statement)
Authority ── AgentRunner ── MCAgentRunner      (the shared grants, and the agents they pay for)
CandidateStore ── MCCandidateStore             (the candidate directories, file by file)

Proofs: PlanLemmas ← PlanningProofs;  PlanLemmas ← MissionProofs ← ServiceProofs (of ServiceInvariants);
        EventStoreProofs, AuthorityProofs (of Authority and AgentRunner), LedgerProofs, CandidateProofs
```

**Methodology** is the planner as operators: `Plan(goal)` is the sequence of stages;
`Roles`, `Inputs` and `Output` give a stage its roles and documents; `RequiredEvidence`, `EvidenceRoles` and
`CanApprove` say which evidence a goal needs and who may produce it and approve on it;
`GoalFromParams` and `RevisionAccepted` say what `start` and `revise` make of their arguments. Fields of a goal are abstracted to what the planner asks of them: whether there is a value,
and the knowledge status (confirmed, inferred, unverified, conflict, or none).

**Planning** is a small state machine over it: a goal is started, then revised any number of times.

**Mission** is the mission record as functions from a mission to a mission, one for each method of
`MissionManager`, with the guards (`InputsAvailable`, `AllRolesPass`, `StageCondition`, `MayAdvance`, ...) as predicates of their own.
**MissionInvariants** says what a sound mission is, which the runs check, and with `Valid` what makes that inductive.

**WorkflowLog** is the log as its projection, which every response recomputes and compares with the
snapshot: one operator per event type gives the projection after the event. It also keeps which
results, freezes, decisions, packages and evidence the log has events for, and the instructions.

**Service** is the composition. Each durable write is one action (`GrantedCall` spends the grant, then e.g. `ReceiveResult`, `AdvanceStage`,
`FreezeSnapshot`, `BindFrozen`, `SaveDecision`, `MarkDecision`, and `SaveSnapshot` and `Respond` at the end);
`pc` is the next write of the running call; `mem` is its working copy. A crash forgets `mem`, `op` and `pc`. A call refused
before its first write is no action; a call that raises afterwards is the end of it (`Abandon`).
Calls are made by a client: any task with a grant may be submitted, interrupted, retried and so on;
the user revises; the environment may tamper with candidate files, rewrite accepted artifacts or alter evidence files.

**ServiceWitness** puts beside the service a witness who notes the ledger whenever no call is running: its variable `found` is the
ledger as the running call has found it. It takes no part in what the service does; `GatedOnFoundEvidence` needs it, because
whether evidence may carry a decision is a question about the time the call looked, and the files behind it can change until it saves.

**ServiceInvariants** has the inductive invariants the proofs about the service rest on (section 4).

**Lifecycle** is the abstract specification: revision, goal, stage, candidate, approval, package.

**EventStore**, **Authority** and **EvidenceLedger** model the stores one SQL statement at a time for several
processes. SQLite is external and modelled by the use the code makes of it: the first statement that writes in a transaction
takes the write lock, commit and death release it; a plain `SELECT` before that takes none.
**CommandLog** is what the event store promises to whoever appends: a command is applied in one step, once, and a caller is
told the place of his own command.

**AgentRunner** composes Authority with what the grants are for. Its variables are the `dispatch` each process is in, the
`agent` started on each grant, the files in the `work` directory of one task, and the result that was `accepted`. A dispatch takes the
authority store's own steps (`RequestRun`, `Authorise`, `CheckRun`, `SpendRun`), then starts the agent or fails to (`StartAgent`,
`FailToStart`), and waits: the agent prints something or fails (`ReturnResult`), or is killed (`Timeout`). An agent writes
its files one by one and then hashes them one by one, as `result_evidence.py` does. A waiting process that dies (`Die`)
leaves an orphan. `VerifyArtifact` is `validate_and_verify`, one file at a time. What the service does with the grants meanwhile
(issue, revoke, retry) is `Outside`. The attempt of a task is in the grant but neither in the directory's path nor in the
result, so agents of two attempts, or an orphan and its successor, can be in one directory: the history variable `alone` says when not.

**CandidateStore** is `freeze_candidate` (`ScanInput`, `CheckExists`, `MakeDirectory`, `CopyInput`, `WriteManifest`, `WriteDigest`, `CreateState`,
`InitialState`), `get` (`Loadable`), `verify_snapshot` (`VerifyInput`), `save_state` (`OpenState`, `WriteState`, `ReplaceState`) and
`ReleasePackager.package` (`RecheckInput`, `OpenPackage`, `PackInput`, `HashPackage`), each file a step, for processes that share nothing but the
directories. `OpenState` and `WriteState` say what a second process does to the one `state.json.tmp`: it truncates it, writes over
it, or finds that it was renamed to `state.json` under its hands. `Stop` ends a call anywhere, `Edit` changes an input, `Damage`
a file of a candidate.

### 2.1 Abstractions

* A hash is what it is computed from. Two hashes are equal when their contents are.
* A task id is its revision, stage and role; a candidate id is the frozen content and the evidence the
  goal requires, as in the code: it does not depend on the revision.
* `grants` holds the unspent grants that can still be spent. Grants no client of the run ever
  spends are not kept, nor those of tasks of past stages (`Dead`), except for submissions, which the
  service takes from any stage. `Authority` has all grants with their status, expiry included; in
  `Service` an expired grant is one the client does not use.
* Of the accepted results of a task a mission keeps the last one, and of the passing ones the digests of the output they name (`passed`):
  that is what `advance_if_ready` asks of them.
* Two loops of a call, over the evidence a revise invalidates and over the roles of a stage, go through a collection that is fixed before.
  The model takes, at each round, one of those that are not done yet. That is the same, because nothing but the loop itself writes them
  while the call runs, and it needs no counter; that such a loop ends says nothing of the code, and no property does.
* Of the ledger, `Service` keeps the latest record of each candidate and type. A test result of
  `fail` stands for fail and inconclusive.
* A process that dies before the first save leaves a mission nobody knows the id of; it is dropped.
* The retry of an event by its command id inside the policy engine cannot happen in `Service`: the
  command id comes from a grant and that is spent by the first call. `EventStore` models it.
* The evaluation of evidence and the verdict on a handoff document are inputs of `Service`.
* In `CandidateStore` all files of an input are one content per label, and the id is that function of labels; in `AgentRunner`
  a file's content, and so its hash, is who wrote it last. A result that names a file wrongly, or omits one, is not made:
  it would be refused at the first comparison, or is a shorter list of files.
* `accepted` is the result the mission has taken last for the task; `restore` compares the files of all it has taken. The grant for
  handing a result in is not modelled in `AgentRunner`: responses issue a new one each time, so it delays nobody.

## 3. Runs

Each run asks one question. Distinct states are of two workers on one machine, for orientation.

| Run | Module | Question | Bounds | States |
|---|---|---|---|---|
| `planning` | `MCPlanning` | Does every goal that calls of start and revise can build get a plan that can be carried out by roles that may, with discovery exactly where needed? | three critical fields, of which one has a tracked status and one is `constraints`; any number of revisions | 416 |
| `delivery` | `MCService` | From start to release, the implementation interrupted, retried and failed, with a crash while candidate and evidence files change: mission sound, stores never behind the log, nothing released without evidence, decisions kept, grants and log agree on the attempt | low-risk goal, one content, two attempts in implementation, one crash anywhere, each file changed once | 597 k |
| `revise` | `MCServiceWitness` | The same, steered in any stage: log never behind the snapshot, old work untouched, `Lifecycle` implemented, nothing approved or packaged but on evidence the call found to pass, tokens come back | two revisions, one crash anywhere, each evidence file changed once, `Fairness` | 252 k |
| `team` | `MCService` | A stage with three roles that disagree, steering between two plans with two instructions, and a worker that writes again to what was accepted | a low-risk and a risk-2 goal, two digests, up to implementation, two revisions steered in two stages, one crash in `revise`, one rewrite | 350 k |
| `event_store` | `EventStore` | Two writers, commands repeated and reused, deaths between statements | two writers, three commands, two bodies, three events | 152 k |
| `runner` | `MCAgentRunner` | Two processes dispatch agents with the same tokens, die, time out and hand in results; issue, revoke, expire, retry | two processes, two grants, two operations, two files, one tick, two attempts | 1134 k |
| `ledger` | `EvidenceLedger` | Two processes record and invalidate the same artifacts | two writers, two artifacts, two targets, three events | 369 k |
| `candidates` | `MCCandidateStore` | Two processes freeze, examine, approve and package in the same directories and die anywhere while files change | two processes, two labels, two contents, five calls, one change | 664 k |

Four runs show where the code does not do what its documents say (section 6): `planning_silent`,
`resume`, `late`, `ledger_fork`.

### 3.1 Why the bounds are enough

* One low-risk goal has eight stages with one role each and passes through every operation of the
  service. What a goal with several roles adds is the agreement of a stage's results: `team` has
  it in the design stage with three roles, and the theorem `StagesAreEarned` for any goal. The whole
  life cycle of a risk-2 goal is not run: it takes several hundred thousand states more and the
  only new step is the choice among several approvers.
* Two revisions: a revision is compared only with the present one, so a task is of the present
  or of an old one.
* One crash: recovery is the next call, and what it finds is one broken-off call. A second crash in that
  call is not explored.
* Two attempts: the code distinguishes the present attempt and the former ones.
* One content in the service's runs; a second freeze of the same content in a later revision
  is the case that matters (a candidate id does not contain the revision), and two revisions with one content have it.
* Two grants and two files in `runner`: the conflicts are between two agents in one directory, and between a file that was
  compared and one that was not. One tick is enough for a grant to expire between its issue and its use (`Lifetime` is one).
* Five calls in `candidates`: a freeze, an examination, an approval and a packaging by one process, and one call of another
  in between; or two freezes and three uses. Two contents are one candidate and its parent or child.
* Two writers in the stores: every conflict is between a writer and whoever committed in
  between. The theorems are about any number.
* `planning` needs no bound on revisions: the goals are finitely many.

Two runs may stop: in `team`, a mission whose accepted artifact was rewritten
cannot be loaded (`restore` verifies the files of every accepted result), so no call is possible; in `candidates` the calls are bounded.

### 3.2 Properties

*Soundness of the mission.* `MissionsSound`: saved mission and working copy have exactly the documents,
candidate, approval and package that the stages behind them require. `SavedStagesEarned`: no stage was passed
but by passing results of all its roles in its revision, which agree on the digest of its output.

*Log and stores.* `LogCoversSnapshot`, `StoresCoverLog`, `SnapshotMatchesLog`, `AttemptsMatchLog`: which store may be ahead
of which, and that they agree when no call was cut short. That the log is "not behind" does not mean that its stage is one the
mission's own plan has still ahead: after a revise that died behind its event the mission goes on in its old revision, whose
`STAGE_ADVANCED` sets the stage the log has for the new one, and the repeated revise, of another goal perhaps, does not set it back. `StageAt`
therefore compares stages in the order both plans have in common.

*Evidence and decisions.* `ReleasedOnEvidence`: failing evidence that is recorded after the approval stops the packaging. It allows evidence
to have become stale or altered since, as evidence rightly may after the release. `GatedOnFoundEvidence` does not: a call that saves an
approval or a release has found all required evidence passing, valid and unaltered. So what a revise has invalidated before it was cut
short is not decided on in the old revision, nor a file that was changed between approval and packaging. `DecisionsKept`.

*Grants, attempts, steering.* `OneGrantPerOperation` says at most one, `TokensComeBack` says at least one: whatever a call has spent before it
raised, and whatever tokens a response has revoked before it was cut short (`Crash` takes away any of those it was about to replace), a later
response hands them out again. `CheckpointsOfRunning`, `StaleWorkFrozen`, `LoggedInstructionHolds`.

*Planner.* `InputsClosed` (no stage waits for a document nothing produces), `DiscoveryWhenUnresolved`,
`EvidenceProducible` (there is somebody else than the implementer to produce it, and somebody to approve),
`DutiesSeparated` (the gate lets approve just those the plan permits to, none of whom may write the product),
`SilenceKeepsFields` (a call that says nothing of a field does not change it).

*Shared stores.* `ChainHolds`, `OneEventPerCommand`, `RepliesDurable`, `ImplementsCommandLog`; `OneUse`, `CheckedStaysTrue`, `GrantsOnlyEnd`;
`BindingsMatchEvents`, `OneTargetPerArtifact`, and `ChainValid`, which two writers break.

*Agents.* `AgentsPaid` (one agent per spent grant, none without), `AgentsWatched` (nobody but a dead process leaves an agent at work),
`ResultsStand` (results are complete, and true as long as no second agent was let into the directory).

*Candidate directories.* `OneFreezer`, `LineageWhole` (what can be loaded is whole, and so is its parent), `DecidedAsNamed`, `PackageIsCandidate`,
`SavesFollowTable`.

*What these except.* Some of them name disturbances the code does not survive, and hold under every other. `ResultsStand` says nothing of a file
once a second agent was let into the directory beside or after the first (`workspace.py:170`). `DecidedAsNamed` excepts a candidate
whose own files were changed, which the next verification finds. `PackageIsCandidate` excepts a file that is
changed after the packager began its second verification, and a second packager (`release.py:120`); `SavesFollowTable` excepts a second process at the
same candidate at the same time (`candidate.py:260`, `plugin_service.py:40`). These cases are in the models, and go wrong there as they do in the code; they are listed as hazards without
a property, because no document promises anything of them.

*Refinement.* `ImplementsLifecycle`: `snap`, mapped to its revision, goal, stage and bindings, behaves as
`Lifecycle` says. `Lifecycle` knows neither calls nor crashes; a save that skipped a
stage, kept an approval over a revision or replaced a candidate would be a step it does not have.
`ImplementsCommandLog`: the rows, mapped to their commands and bodies, and the replies, mapped to the place of their event, behave as
`CommandLog` says. It is why `Service` may take an append for one step.

### 3.3 Fairness

Only `TokensComeBack` needs it. `Fairness` is weak fairness of `Step`, the next write of the running call: a call
runs in one thread to its end, and nothing it waits for is outside of it (SQLite's busy timeout raises, which is an end of the call too);
and strong fairness of `Status`: the property is about a user who goes on asking, and one who does finds the lock free at some time, though
other calls may take it in between. Strong, because each of these calls disables `Status` while it runs. Nothing is assumed of other calls,
crashes or files. That a mission is ever completed is not claimed: it depends on users and workers.

## 4. Proofs

`tlapm` proves the following for every value of the constants that satisfies the modules' named
assumptions. The full list is in `PROJECT.json`; the argument of each module is this.

* **ServiceProofs**, resting on **MissionProofs**: every property the service's runs check but `TokensComeBack`, the refinement included.
  MissionProofs has one lemma per operation of the mission (`AdvanceValid`, `SteerValid`, ...). Section 4.1 has the argument.
* **PlanningProofs** (on **PlanLemmas**). `PlanShape` and `PlanInjective` list the two plans; `InputsProduced` walks
  them. For goals over time the invariant is `Sensible`: the status of a field over revisions can be doubtful only if
  somebody named it so, or the field has no value.
* **EventStoreProofs**. The invariant adds to the chain what each writer has read (`HasRead`), that the read is of the
  committed log while he holds the lock (`LockHeld`), and what his lookup of the command found (`LookedUp`). From it the refinement
  (`AppendsAreAtomic`): a command is applied when its row is inserted, repeated when its row is found, and every other statement is a stutter.
* **AuthorityProofs**. `LockHeld` and `CheckedStaysTrue`: between the check and the update nobody else writes the row.
  `RunnerUsesGrants` shows that a step of the runner is a step of the grants or leaves them alone, so `SpentOnce`, `ChecksHold` and `GrantsEnd`
  hold of `RunnerSpec` too. For the runner, `PayInv` follows a grant: whoever is past consume holds a spent grant (`Paying`) that no other
  process past it holds (`OneEach`), and no agent was started on it (`Unstarted`). `FileInv` follows the directory: the loops of an agent leave no file out
  (`Progress`), what an agent that is alone has written and hashed is its own (`Alone`), and so is what was made of it (`Handed`, `Taken`).
* **CandidateProofs**. `BuildInv`: freezing and using a candidate exclude each other, because a directory is made by one process only and
  can be loaded only when its last file is there; a freezer has copied what its loop has passed, and the manifest follows the files. From
  it `OneFreezer` and `LineageWhole`. `CareInv` follows a use: the files that were verified are as named unless the candidate was damaged (`NameInv`);
  an undisturbed packager has packed what it has verified (`PackInv`); a call that was alone saves a successor of the state that is in the file (`SaveInv`).
* **LedgerProofs**. `RecordsBound` and `FoundBound`: an evidence event exists only for an artifact bound to its target,
  whoever inserted the binding. `ChainOfOneWriter` has the hypothesis that there is one writer; `ledger_fork` shows
  that it is needed.

Types are proved for every module (`GoalsTyped`, `ServiceTyped`, `LogTyped`, `GrantsTyped`, `RunnerTyped`, `LedgerTyped`, `CandidatesTyped`); of the planner and
of the event store and ledger they are not checked by a run as well.

Assumptions on constants: tracked fields are critical fields; goals are goals; the bounds are numbers of their
kinds; the null values are none of the others. Each is evaluated by the runs that extend its module.

### 4.1 The service

The properties relate what is saved; none of them is inductive, because between a call's first and last write they say nothing of what
the call is about to save. The invariants of **ServiceInvariants** say what a call has established, and already written, when it
comes to each of its writes, and are proved one after the other; each rests on those before it.

| Invariant | What it says | Gives |
|---|---|---|
| `IInv` | saved mission and copy are `Valid` records, the call's guards still hold where it is (`CallFits`), the log knows all tasks, types | `ServiceTyped`, `MissionsStaySound`, `StagesAreEarned` |
| `CopyStory` | the copy is the saved mission, or one step of `Lifecycle` away from it | `LifecycleImplemented` |
| `StoresStory` | the stores carry what the log says, and what the call is about to log | `StoresAreAhead`, `DecisionsStand` |
| `EvidenceStory` | a released mission is backed by evidence, and so is the one being packaged; nothing is recorded in stage release | `ReleasesAreBacked` |
| `FoundStory` (in ServiceWitness) | what passes when a gate looks had passed when the call began; behind the gate, and as long as the copy has a mark the saved mission has not, the call found enough | `MarksAreFounded` |
| `CallStory`, `TaskStory` | which points each call passes; tasks of old revisions are closed, and in the copy as they were saved | `OldWorkStands` |
| `SteerStory` | a call that has steered has its instruction in the log | `InstructionStands` |
| `AttemptStory`, `MarksStory`, `LogAhead`, `CourseStory`, `WorkStory` | the log counts the attempts, is one revision ahead at most, and covers candidate, course and tasks of saved mission and copy | `LogIsAhead` |
| `TasksInStep`, `CourseInStep`, `AttemptsInStep` | without a crash, log and copy agree on the tasks, on revision and stage, and on each attempt but the one about to start | `SnapshotInStep`, `AttemptsInAgreement`, `CheckpointsAreOfRunning` |

`GrantsAreSingle` is inductive as it stands: a response revokes before it issues.

`Valid` is needed because soundness alone is not inductive: `Advance` is right only because the task table has no task of a future stage that
already counts, and `BindRelease` only because validation cannot be left unapproved. `CallFits` is needed because a guard was evaluated
writes ago. What makes `CopyStory` hold is that a call changes what `Lifecycle` sees at most once, or binds and then advances.
`WorkStory` exempts one task at one moment: between issuing a task, or scheduling its retry, and starting the attempt, the copy is at an
attempt the log is not at. `LogAhead` is needed for a repeated revise: it meets its own event, so the log is at its revision already.
Without a crash no call ends between its first event and its save (`Ends`): what could fail there would be issuing a task whose inputs are missing,
which `Documented` excludes, or which the log has, which `TasksInStep` excludes. That is why the three last invariants hold with errors, but not with crashes.

The steps are not gone through anew for every invariant. `Writers` says once which steps write which store, `CourseWritten`, `WorkWritten` and
`MarksWritten` which say what in the log, and `Progress` that a step is the environment's, ends the call, or is one of those that lead to its
next write (`Arrivals`, `Departures`). A proof then looks at the three or four steps that matter to its invariant.

### 4.2 What is only model-checked

`TokensComeBack`: liveness is out of the prover's reach. The four properties the code violates (section 6) have no theorem, of course; one of them,
`InstructionSuffices`, speaks besides of what is enabled, which the prover has no rules for.

## 5. What is not modelled

* **Two processes on one data directory in the service.** The lock is one of a process
  (`plugin_service.py:40`); two would overwrite each other's snapshot. The stores that SQLite shares are modelled for several.
* **Schema and links of a handoff** (`handoff.py` from line 90, `expert_handoff.py`, which nothing calls), and **path checks** (`write_text`):
  checks of one document or path that keep nothing. Their outcome is an input (an invalid payload, a refused evaluation).
* **Grandchildren of an agent**: `subprocess.run` kills the process it has started at a timeout, and `Timeout` says so; what that process has started
  itself is outside of the model. So is `RecordingAgentRunner`, which answers for tests without a process.
* **Plugin entry, schemas, command line**: dispatch without state.
* **Half-written files in the service**: in `Service` freezing is one step, and a corrupt file is one flag; `CandidateStore` has the files.
  It takes one input, and the manifest, as written in one step: a copy that is cut short has no manifest after it, and a manifest that
  is cut short does not parse, so neither can be loaded, as if it were not there.
* **Evaluation of evidence** (`policy.py`'s numbers), the zip file, wording of responses.

## 6. Findings

1. `planning_silent`: a revision that does not repeat the goal's constraints is always refused (`plugin_service.py:78`), though
   the tool's schema requires only the instruction.
2. `resume`: a crash between event and snapshot leaves a mission every later response refuses (`plugin_service.py:940`), though the
   user guide says it continues after a restart. Only a revision gets it going again,
   and a revise that was itself cut short after its first task event is refused too.
3. `late`: a result for a task of a former stage is accepted and replaces the one the stage was passed on
   (`plugin_service.py:148`), against REQ-MIS-003.
4. `ledger_fork`: two processes fork the evidence ledger's hash chain (`evidence.py:223`), and every later approval is refused
   (REQ-EVD-001).

Not a finding of its own, but to be known: `verify_snapshot` sets CORRUPT whatever the state was (`candidate.py:309`), also from
RELEASE_READY, which has no successor in the transition table (`state_machine.py:25`). `DecisionsKept` allows exactly this.

## 7. Plan

Done: planner, mission, log, service with crashes and faults, abstract life cycle, the three shared stores, the agent runner on its
grants, the candidate directories; the proofs of section 4.

Next, in this order:

1. Prove: what a revision repairs. After crashes, log and saved mission are in step again from the first revision that is begun and saved
   without a crash and that no broken-off revise has written events of.
2. Model: two processes in the service (the lost update at `plugin_service.py:813`), which needs `mem`, `op` and `pc` per process
   and much smaller bounds; a risk-2 mission through validation with several approvers.
