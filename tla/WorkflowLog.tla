---------------------------- MODULE WorkflowLog ----------------------------
(***************************************************************************)
(* The event log of one mission as its projection                          *)
(* (src/agent_harness/workflow_state.py, WorkflowProjection): one operator *)
(* per event type gives the projection after the event.  The projection is *)
(* all the service reads back from the log, together with two lookups by   *)
(* command id: the revision commands (steered, with the instruction in     *)
(* their payload) and the task commands (the domain of tasks).             *)
(*                                                                         *)
(* Beside what WorkflowProjection keeps, the record keeps which attempts   *)
(* the log says had a result, which candidates it says were frozen,        *)
(* decided and packaged, and which evidence it says was recorded: the      *)
(* facts a reader of the log relies on.                                    *)
(***************************************************************************)
EXTENDS Naturals, Sequences

AttemptStatus == {"scheduled", "running", "interrupted", "completed"}

EmptyLog == [rev |-> 0, stage |-> "none", completed |-> FALSE,
             tasks |-> <<>>, steered |-> <<>>,
             checkpoints |-> {}, results |-> {}, frozen |-> {}, decided |-> {}, packaged |-> {},
             evidence |-> {}]

MissionStarted(l, stage) == [l EXCEPT !.rev = 1, !.stage = stage, !.completed = FALSE]

\* Mutant: the payload of a known command is not compared.
RevisionNeverConflicts(l, rev, instruction) == FALSE

\* The command id of a revision is revision:<mission>:<next revision>, so a
\* second append with the same payload returns the first event and one with
\* another payload is a conflict.
RevisionConflicts(l, rev, instruction) ==
    rev \in DOMAIN l.steered /\ l.steered[rev] # instruction

RevisionStarted(l, rev, stage, instruction) ==
    IF rev \in DOMAIN l.steered
    THEN l
    ELSE [l EXCEPT !.rev = rev, !.stage = stage, !.completed = FALSE,
                   !.steered = [r \in DOMAIN l.steered \cup {rev} |->
                                    IF r = rev THEN instruction ELSE l.steered[r]]]

TaskIssued(l, t) ==
    [l EXCEPT !.tasks = [u \in DOMAIN l.tasks \cup {t} |->
        IF u = t THEN [current |-> 0, attempts |-> <<>>] ELSE l.tasks[u]]]

\* Attempt ids are random; here they are numbered in the order of the log.
FreshAttempt(l, t) == Len(l.tasks[t].attempts) + 1

RetryScheduled(l, t) == [l EXCEPT !.tasks[t].attempts = Append(@, "scheduled")]

AttemptStarted(l, t, a) ==
    [l EXCEPT !.tasks[t] = [current  |-> a,
                            attempts |-> [i \in DOMAIN @.attempts \cup {a} |->
                                             IF i = a THEN "running" ELSE @.attempts[i]]]]

AttemptInterrupted(l, t, a) == [l EXCEPT !.tasks[t].attempts[a] = "interrupted"]

CheckpointRecorded(l, t, a) == [l EXCEPT !.checkpoints = @ \cup {<<t, a>>}]

ResultReceived(l, t, a) ==
    [l EXCEPT !.tasks[t].attempts[a] = "completed", !.results = @ \cup {<<t, a>>}]

StageAdvanced(l, stage) == [l EXCEPT !.stage = stage]

\* Mutant: the last stage stays current after completion.
MissionCompletedInStage(l) == [l EXCEPT !.completed = TRUE]

MissionCompleted(l) == [l EXCEPT !.completed = TRUE, !.stage = "none"]

CandidateFrozen(l, rev, c)  == [l EXCEPT !.frozen = @ \cup {<<rev, c>>}]
QualityDecided(l, rev, c)   == [l EXCEPT !.decided = @ \cup {<<rev, c>>}]
PackageCreated(l, rev, c)   == [l EXCEPT !.packaged = @ \cup {<<rev, c>>}]
EvidenceRecorded(l, c, type) == [l EXCEPT !.evidence = @ \cup {<<c, type>>}]
=============================================================================
