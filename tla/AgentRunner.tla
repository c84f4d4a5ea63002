----------------------------- MODULE AgentRunner ------------------------------
(***************************************************************************)
(* Agents at work on one task: dispatch() of src/agent_harness/            *)
(* agent_runner.py, which spends an execute-task grant of Authority and    *)
(* runs an external process, the work directory that workspace.py gives    *)
(* the task, and the check of the artifacts of a result that is handed in  *)
(* (handoff.py).                                                           *)
(*                                                                         *)
(* The directory is of the mission, revision, task and role: the agents of *)
(* two attempts share it.  An agent is told by the grant it was paid with; *)
(* it writes its files, hashes what is there and prints that, or fails.    *)
(* What a file contains, and so its hash, is told by who wrote it last.    *)
(* A dispatch that is refused before consume() changes nothing.            *)
(***************************************************************************)
EXTENDS Authority

CONSTANTS Execute,  \* the operation execute-task
          Files,    \* the artifacts of the task
          Absent

ASSUME ExecuteAssumption == Execute \in Operations
ASSUME FilesAssumption == Files # {} /\ Absent \notin Grants

VARIABLES
    dispatch,  \* per process: the dispatch() it is in, then the result it hands in
    agent,     \* per grant: the agent started on it
    work,      \* the files in the work directory
    accepted   \* the result the mission has taken for the task

runnerVars == <<dispatch, agent, work, accepted>>

Hashes == [Files -> Grants \cup {Absent}]

NoHashes == [f \in Files |-> Absent]

\* todo are the files a loop has not come to.  History: alone, no other agent
\* was at work in the directory since this one, or the one behind this result,
\* was started.
Dispatches == [step : {"idle", "authorise", "start", "wait", "result"}, todo : SUBSET Files,
               hashes : Hashes, alone : BOOLEAN]

NoDispatch == [step |-> "idle", todo |-> {}, hashes |-> NoHashes, alone |-> FALSE]

\* starts is history, and orphan: the process that waited for the agent died.
Agents == [step : {"none", "write", "hash", "printed", "failed", "over"}, todo : SUBSET Files,
           hashes : Hashes, alone : BOOLEAN, orphan : BOOLEAN, starts : Nat]

NoAgent == [step |-> "none", todo |-> {}, hashes |-> NoHashes, alone |-> FALSE,
            orphan |-> FALSE, starts |-> 0]

Results == [hashes : Hashes, alone : BOOLEAN]

NoResult == [hashes |-> NoHashes, alone |-> FALSE]

AtWork == {g \in Grants : agent[g].step \in {"write", "hash"}}

GrantOf(p) == request[p].grant

RunnerInit ==
    /\ Init
    /\ dispatch = [p \in Processes |-> NoDispatch]
    /\ agent = [g \in Grants |-> NoAgent]
    /\ work = NoHashes
    /\ accepted = NoResult

Finish(p) == dispatch' = [dispatch EXCEPT ![p] = NoDispatch]

-----------------------------------------------------------------------------
(* The grant is spent before anything else is done.                        *)

RequestRun(p, g) ==
    /\ dispatch[p].step = "idle"
    /\ Present(p, g, Execute)
    /\ dispatch' = [dispatch EXCEPT ![p].step = "authorise"]
    /\ UNCHANGED <<agent, work, accepted>>

Authorise(p) == BeginImmediate(p) /\ UNCHANGED runnerVars

\* Mutant: the denial is caught, and the agent run all the same.
RunUnauthorised(p) ==
    /\ CheckGrant(p)
    /\ dispatch' = IF Acceptable(table[GrantOf(p)], request[p]) THEN dispatch
                   ELSE [dispatch EXCEPT ![p].step = "start"]
    /\ UNCHANGED <<agent, work, accepted>>

CheckRun(p) ==
    /\ CheckGrant(p)
    /\ IF Acceptable(table[GrantOf(p)], request[p]) THEN UNCHANGED dispatch ELSE Finish(p)
    /\ UNCHANGED <<agent, work, accepted>>

SpendRun(p) ==
    /\ UpdateGrant(p)
    /\ IF table[GrantOf(p)].status = "ISSUED"
       THEN dispatch' = [dispatch EXCEPT ![p].step = "start"]
       ELSE Finish(p)
    /\ UNCHANGED <<agent, work, accepted>>

\* The process dies inside consume(), or gives up waiting for the lock.
DieAuthorising(p) == Rollback(p) /\ Finish(p) /\ UNCHANGED <<agent, work, accepted>>

-----------------------------------------------------------------------------
(* subprocess.run.                                                         *)

\* No executable is found, or it can not be started: the grant is gone.
FailToStart(p) ==
    /\ dispatch[p].step = "start"
    /\ Finish(p)
    /\ UNCHANGED <<vars, agent, work, accepted>>

StartAgent(p) ==
    /\ dispatch[p].step = "start"
    /\ agent' = [g \in Grants |->
           IF g = GrantOf(p)
           THEN [NoAgent EXCEPT !.step = "write", !.todo = Files, !.alone = AtWork = {},
                                !.starts = agent[g].starts + 1]
           ELSE [agent[g] EXCEPT !.alone = FALSE]]
    /\ dispatch' = [q \in Processes |->
           IF q = p THEN [dispatch[p] EXCEPT !.step = "wait"]
           ELSE [dispatch[q] EXCEPT !.alone = FALSE]]
    /\ accepted' = [accepted EXCEPT !.alone = FALSE]
    /\ UNCHANGED <<vars, work>>

\* A loop of the agent's over the files comes to f; then it goes on at next.
Loop(g, f, a, next) ==
    agent' = [agent EXCEPT ![g] =
        [a EXCEPT !.todo = IF @ = {f} THEN Files ELSE @ \ {f},
                  !.step = IF a.todo = {f} THEN next ELSE @]]

AgentWrites(g, f) ==
    /\ agent[g].step = "write" /\ f \in agent[g].todo
    /\ work' = [work EXCEPT ![f] = g]
    /\ Loop(g, f, agent[g], "hash")
    /\ UNCHANGED <<vars, dispatch, accepted>>

AgentHashes(g, f) ==
    /\ agent[g].step = "hash" /\ f \in agent[g].todo
    /\ Loop(g, f, [agent[g] EXCEPT !.hashes[f] = work[f]], "printed")
    /\ UNCHANGED <<vars, dispatch, work, accepted>>

\* It exits with an error, or prints something else than a JSON object.
AgentFails(g) ==
    /\ agent[g].step \in {"write", "hash"}
    /\ agent' = [agent EXCEPT ![g].step = "failed"]
    /\ UNCHANGED <<vars, dispatch, work, accepted>>

\* Mutant: the agent is not killed.
TimeoutLeavesAgent(p) ==
    /\ dispatch[p].step = "wait" /\ agent[GrantOf(p)].step \in {"write", "hash"}
    /\ Finish(p)
    /\ UNCHANGED <<vars, agent, work, accepted>>

Timeout(p) ==
    /\ dispatch[p].step = "wait" /\ agent[GrantOf(p)].step \in {"write", "hash"}
    /\ agent' = [agent EXCEPT ![GrantOf(p)].step = "over"]
    /\ Finish(p)
    /\ UNCHANGED <<vars, work, accepted>>

\* Mutant: the exit code is not looked at.
ReturnAnything(p) ==
    /\ dispatch[p].step = "wait" /\ agent[GrantOf(p)].step \in {"printed", "failed"}
    /\ agent' = [agent EXCEPT ![GrantOf(p)].step = "over"]
    /\ dispatch' = [dispatch EXCEPT ![p] =
           [step |-> "result", todo |-> Files, hashes |-> agent[GrantOf(p)].hashes,
            alone |-> agent[GrantOf(p)].alone]]
    /\ UNCHANGED <<vars, work, accepted>>

ReturnResult(p) ==
    /\ dispatch[p].step = "wait" /\ agent[GrantOf(p)].step \in {"printed", "failed"}
    /\ agent' = [agent EXCEPT ![GrantOf(p)].step = "over"]
    /\ dispatch' = [dispatch EXCEPT ![p] =
           IF agent[GrantOf(p)].step = "failed" THEN NoDispatch
           ELSE [step |-> "result", todo |-> Files, hashes |-> agent[GrantOf(p)].hashes,
                 alone |-> agent[GrantOf(p)].alone]]
    /\ UNCHANGED <<vars, work, accepted>>

\* The process dies; the agent goes on.
Die(p) ==
    /\ dispatch[p].step \in {"start", "wait", "result"}
    /\ Finish(p)
    /\ agent' = IF dispatch[p].step # "wait" THEN agent
                ELSE [agent EXCEPT ![GrantOf(p)].orphan = TRUE]
    /\ UNCHANGED <<vars, work, accepted>>

-----------------------------------------------------------------------------
(* The result is handed in: validate_and_verify, file by file.  The result *)
(* does not say which attempt it is of.                                    *)

VerifyArtifact(p, f) ==
    /\ dispatch[p].step = "result" /\ f \in dispatch[p].todo
    /\ IF work[f] # dispatch[p].hashes[f]
       THEN Finish(p) /\ UNCHANGED accepted
       ELSE IF dispatch[p].todo = {f}
       THEN Finish(p) /\ accepted' = [hashes |-> dispatch[p].hashes, alone |-> dispatch[p].alone]
       ELSE dispatch' = [dispatch EXCEPT ![p].todo = @ \ {f}] /\ UNCHANGED accepted
    /\ UNCHANGED <<vars, agent, work>>

-----------------------------------------------------------------------------

\* What the service does with the grants, and the clock.
Outside ==
    /\ \/ \E operation \in Operations : RevokeIssued(operation)
       \/ \E g \in Grants, operation \in Operations : Issue(g, operation)
       \/ NextAttempt
       \/ Tick
    /\ UNCHANGED runnerVars

Runner(p) ==
    \/ \E g \in Grants : RequestRun(p, g)
    \/ Authorise(p) \/ CheckRun(p) \/ SpendRun(p) \/ DieAuthorising(p)
    \/ FailToStart(p) \/ StartAgent(p) \/ Timeout(p) \/ ReturnResult(p) \/ Die(p)
    \/ \E f \in Files : VerifyArtifact(p, f)

Agent(g) ==
    \/ \E f \in Files : AgentWrites(g, f) \/ AgentHashes(g, f)
    \/ AgentFails(g)

RunnerNext ==
    \/ Outside
    \/ \E p \in Processes : Runner(p)
    \/ \E g \in Grants : Agent(g)

RunnerSpec == RunnerInit /\ [][RunnerNext]_<<vars, runnerVars>>

-----------------------------------------------------------------------------
(* Properties.                                                             *)

RunnerTypeOK ==
    /\ TypeOK
    /\ dispatch \in [Processes -> Dispatches]
    /\ agent \in [Grants -> Agents]
    /\ work \in Hashes
    /\ accepted \in Results

\* An agent was started at most once on a grant, and the grant was an
\* execute-task grant that is spent: no denial, death, retry or revocation in
\* between leads to an agent nobody paid for.  (_consume_authority)
AgentsPaid ==
    \A g \in Grants : agent[g].step # "none" =>
        /\ agent[g].starts = 1
        /\ table[g].status = "CONSUMED" /\ table[g].operation = Execute

\* Whoever started an agent waits for it until it is over: a timeout, a failure
\* or an answer leave nobody at work in the directory, only the death of the
\* waiting process does.  (subprocess.run)
AgentsWatched ==
    \A g \in AtWork :
        agent[g].orphan \/ \E p \in Processes : dispatch[p].step = "wait" /\ GrantOf(p) = g

\* A result in hand names a hash for every file, so what an agent that failed or
\* was killed has left half done is no result.  And as long as no other agent
\* was at work beside or after the one it is from, the files are what it and
\* the accepted result say: it is not refused, and a mission that has accepted
\* it can be loaded.  (dispatch, validate_and_verify, restore)
ResultsStand ==
    /\ \A p \in Processes : dispatch[p].step = "result" =>
           /\ \A f \in Files : dispatch[p].hashes[f] # Absent
           /\ dispatch[p].alone => work = dispatch[p].hashes
    /\ accepted.alone => work = accepted.hashes
=============================================================================
