--------------------------- MODULE AuthorityProofs --------------------------
(***************************************************************************)
(* Grants are spent once, each is worth one agent that somebody waits for, *)
(* and results are what is in the work directory, for any number of        *)
(* processes, grants and files and any lifetime: proofs about Authority    *)
(* and AgentRunner.                                                        *)
(***************************************************************************)
EXTENDS AgentRunner, TLAPS

\* A process is past BEGIN IMMEDIATE and not done exactly when it has the lock.
LockHeld == \A p \in Processes : step[p] \in {"check", "update"} <=> lock = p

IInv == TypeOK /\ LockHeld /\ CheckedStaysTrue /\ OneUse

-----------------------------------------------------------------------------

\* An empty table satisfies the invariant.
LEMMA InitIInv == Init => IInv
<1> SUFFICES ASSUME Init PROVE IInv
  OBVIOUS
<1>1. AnyOperation \in Operations
  BY OperationsAssumption DEF AnyOperation
<1>2. TypeOK
  BY <1>1 DEF Init, TypeOK, Row, Status, Steps
<1>3. LockHeld /\ CheckedStaysTrue /\ OneUse
  BY ProcessAssumption DEF Init, LockHeld, CheckedStaysTrue, OneUse
<1> QED
  BY <1>2, <1>3 DEF IInv

\* Every statement of every process preserves the invariant.
LEMMA StepIInv == IInv /\ [Next]_vars => IInv'
<1> SUFFICES ASSUME IInv, [Next]_vars PROVE IInv'
  OBVIOUS
<1> USE DEF IInv
<1>1. ASSUME NEW operation \in Operations, RevokeIssued(operation)
      PROVE  IInv'
  <2> USE <1>1 DEF RevokeIssued
  <2>1. TypeOK'
    BY DEF TypeOK, Row, Status, Steps
  <2>2. LockHeld'
    BY DEF LockHeld
  <2>3. \A p \in Processes : step[p] # "update"
    BY ProcessAssumption DEF LockHeld
  <2>4. CheckedStaysTrue'
    BY <2>3 DEF CheckedStaysTrue
  <2>5. OneUse'
    BY DEF OneUse, TypeOK, Row
  <2> QED
    BY <2>1, <2>2, <2>4, <2>5
<1>2. ASSUME NEW g \in Grants, NEW operation \in Operations, Issue(g, operation)
      PROVE  IInv'
  <2> USE <1>2 DEF Issue
  <2>1. TypeOK'
    BY TimeAssumption DEF TypeOK, Row, Status, Steps, Expiry
  <2>2. LockHeld'
    BY DEF LockHeld
  <2>3. \A p \in Processes : step[p] # "update"
    BY ProcessAssumption DEF LockHeld
  <2>4. CheckedStaysTrue'
    BY <2>3 DEF CheckedStaysTrue
  <2>5. OneUse'
    BY DEF OneUse, TypeOK, Row
  <2> QED
    BY <2>1, <2>2, <2>4, <2>5
<1>3. CASE NextAttempt
  BY <1>3, TimeAssumption
  DEF NextAttempt, TypeOK, Row, Status, Steps, LockHeld, CheckedStaysTrue, OneUse
<1>4. ASSUME NEW p \in Processes, NEW g \in Grants, NEW operation \in Operations,
             Present(p, g, operation)
      PROVE  IInv'
  <2> USE <1>4 DEF Present, Goto
  <2>1. TypeOK'
    BY DEF TypeOK, Row, Status, Steps
  <2>2. LockHeld'
    BY DEF LockHeld, TypeOK
  <2>3. CheckedStaysTrue'
    BY DEF CheckedStaysTrue, TypeOK
  <2> QED
    BY <2>1, <2>2, <2>3 DEF OneUse
<1>5. ASSUME NEW p \in Processes, BeginImmediate(p)
      PROVE  IInv'
  <2> USE <1>5 DEF BeginImmediate, Goto
  <2>1. TypeOK'
    BY DEF TypeOK, Row, Status, Steps
  <2>2. LockHeld'
    BY ProcessAssumption DEF LockHeld, TypeOK
  <2>3. CheckedStaysTrue'
    BY DEF CheckedStaysTrue, TypeOK
  <2> QED
    BY <2>1, <2>2, <2>3 DEF OneUse
<1>6. ASSUME NEW p \in Processes, CheckGrant(p)
      PROVE  IInv'
  <2> USE <1>6 DEF CheckGrant, Goto
  <2>1. TypeOK'
    BY DEF TypeOK, Row, Status, Steps
  <2>2. LockHeld'
    BY ProcessAssumption DEF LockHeld, TypeOK
  <2>3. CheckedStaysTrue'
    BY DEF CheckedStaysTrue, TypeOK, Acceptable
  <2> QED
    BY <2>1, <2>2, <2>3 DEF OneUse
<1>7. ASSUME NEW p \in Processes, UpdateGrant(p)
      PROVE  IInv'
  <2> USE <1>7 DEF UpdateGrant, Goto
  <2> DEFINE g == request[p].grant
  <2>1. /\ g \in Grants /\ table[g].status = "ISSUED" /\ step[p] = "update"
    BY DEF CheckedStaysTrue, TypeOK
  <2>2. /\ table' = [table EXCEPT ![g] = Spent(table[g])]
        /\ uses' = [uses EXCEPT ![g] = @ + 1]
    BY <2>1
  <2>3. Spent(table[g]) \in Row /\ Spent(table[g]).status = "CONSUMED"
    BY <2>1 DEF TypeOK, Spent, Row, Status
  <2>4. \A q \in Processes : q # p => step[q] \notin {"check", "update"}
    BY <2>1 DEF LockHeld
  <2>5. TypeOK'
    BY <2>1, <2>2, <2>3 DEF TypeOK, Steps
  <2>6. LockHeld'
    BY <2>4, ProcessAssumption DEF LockHeld, TypeOK
  <2>7. CheckedStaysTrue'
    BY <2>4 DEF CheckedStaysTrue, TypeOK
  <2>8. OneUse'
    BY <2>1, <2>2, <2>3 DEF OneUse, TypeOK
  <2> QED
    BY <2>5, <2>6, <2>7, <2>8
<1>8. ASSUME NEW p \in Processes, Rollback(p)
      PROVE  IInv'
  <2> USE <1>8 DEF Rollback, Goto
  <2>1. TypeOK'
    BY DEF TypeOK, Row, Status, Steps
  <2>2. LockHeld'
    BY ProcessAssumption DEF LockHeld, TypeOK
  <2>3. CheckedStaysTrue'
    BY DEF CheckedStaysTrue, TypeOK
  <2> QED
    BY <2>1, <2>2, <2>3 DEF OneUse
<1>9. CASE Tick
  BY <1>9, TimeAssumption
  DEF Tick, TypeOK, Row, Status, Steps, LockHeld, CheckedStaysTrue, OneUse
<1>10. CASE UNCHANGED vars
  BY <1>10 DEF vars, TypeOK, Row, Status, Steps, LockHeld, CheckedStaysTrue, OneUse
<1> QED
  BY <1>1, <1>2, <1>3, <1>4, <1>5, <1>6, <1>7, <1>8, <1>9, <1>10 DEF Next

\* The invariant holds of every reachable state.
LEMMA Invariance == Spec => []IInv
BY InitIInv, StepIInv, PTL DEF Spec

-----------------------------------------------------------------------------

\* Requests, rows and the clock have the types of the code.
THEOREM GrantsTyped == Spec => []TypeOK
<1>1. IInv => TypeOK
  BY DEF IInv
<1> QED
  BY <1>1, Invariance, PTL

\* A token is worth one operation, whoever presents it and how often.
THEOREM SpentOnce == Spec => []OneUse
<1>1. IInv => OneUse
  BY DEF IInv
<1> QED
  BY <1>1, Invariance, PTL

\* What consume() checked under the lock still holds when it updates the row.
THEOREM ChecksHold == Spec => []CheckedStaysTrue
<1>1. IInv => CheckedStaysTrue
  BY DEF IInv
<1> QED
  BY <1>1, Invariance, PTL

\* An ended row is not written again, and an issued one only ends.
Ends ==
    \A g \in Grants :
        /\ table[g].status \in {"REVOKED", "CONSUMED"} => table'[g] = table[g]
        /\ table[g].status = "ISSUED" =>
               /\ table'[g].status \in {"ISSUED", "REVOKED", "CONSUMED"}
               /\ table'[g].expires = table[g].expires
               /\ table'[g].attempt = table[g].attempt

\* Every statement that writes the table does so.
LEMMA StepEnds == IInv /\ [Next]_vars => [Ends]_table
<1> SUFFICES ASSUME IInv, Next, table' # table PROVE Ends
  BY DEF vars
<1>1. ASSUME NEW operation \in Operations, RevokeIssued(operation) PROVE Ends
  BY <1>1 DEF RevokeIssued, IInv, TypeOK, Row, Ends
<1>2. ASSUME NEW g \in Grants, NEW operation \in Operations, Issue(g, operation) PROVE Ends
  BY <1>2 DEF Issue, IInv, TypeOK, Ends
<1>3. ASSUME NEW p \in Processes, UpdateGrant(p) PROVE Ends
  BY <1>3 DEF UpdateGrant, Spent, IInv, TypeOK, Row, Ends
<1>4. NextAttempt \/ Tick => FALSE
  BY DEF NextAttempt, Tick
<1>5. \A p \in Processes : BeginImmediate(p) \/ CheckGrant(p) \/ Rollback(p) => FALSE
  BY DEF BeginImmediate, CheckGrant, Rollback
<1>6. \A p \in Processes, g \in Grants, operation \in Operations :
          Present(p, g, operation) => FALSE
  BY DEF Present
<1> QED
  BY <1>1, <1>2, <1>3, <1>4, <1>5, <1>6 DEF Next

\* Grants end and never come back: an ended row is not written again.
THEOREM GrantsEnd == Spec => GrantsOnlyEnd
BY StepEnds, Invariance, PTL DEF Spec, GrantsOnlyEnd, Ends

-----------------------------------------------------------------------------
(* The agent runner.  Its steps are steps of the grants or leave them      *)
(* alone, so what is proved of the grants holds of it too.                 *)

\* A step of a runner, an agent or the service is one of the grants, or none.
LEMMA RunnerStep == [RunnerNext]_<<vars, runnerVars>> => [Next]_vars
<1> SUFFICES ASSUME RunnerNext PROVE [Next]_vars
  BY DEF vars
<1>1. CASE Outside
  BY <1>1 DEF Outside, Next
<1>2. ASSUME NEW p \in Processes, Runner(p)
      PROVE  [Next]_vars
  <2>1. ASSUME NEW g \in Grants, RequestRun(p, g) PROVE [Next]_vars
    BY <2>1, ExecuteAssumption DEF RequestRun, Next
  <2>2. CASE Authorise(p) \/ CheckRun(p) \/ SpendRun(p) \/ DieAuthorising(p)
    BY <2>2 DEF Authorise, CheckRun, SpendRun, DieAuthorising, Next
  <2>3. CASE FailToStart(p) \/ StartAgent(p) \/ Timeout(p) \/ ReturnResult(p) \/ Die(p)
    BY <2>3 DEF FailToStart, StartAgent, Timeout, ReturnResult, Die
  <2>4. CASE \E f \in Files : VerifyArtifact(p, f)
    BY <2>4 DEF VerifyArtifact
  <2> QED
    BY <1>2, <2>1, <2>2, <2>3, <2>4 DEF Runner
<1>3. ASSUME NEW g \in Grants, Agent(g)
      PROVE  [Next]_vars
  BY <1>3 DEF Agent, AgentWrites, AgentHashes, AgentFails
<1> QED
  BY <1>1, <1>2, <1>3 DEF RunnerNext

\* The runner is a user of the authority store: what it does to the grants is
\* what consume, issue, revoke_issued and the clock allow.
THEOREM RunnerUsesGrants == RunnerSpec => Spec
<1>1. RunnerInit => Init
  BY DEF RunnerInit
<1> QED
  BY <1>1, RunnerStep, PTL DEF RunnerSpec, Spec

-----------------------------------------------------------------------------
(* Who is paid, and who waits for whom.                                    *)

Paid == {"start", "wait"}

\* A process inside consume() is at the beginning of a dispatch.
Authorising ==
    \A p \in Processes : step[p] # "idle" =>
        dispatch[p].step = "authorise" /\ request[p].operation = Execute

\* Whoever is past consume() holds a spent grant, which no other process holds.
Paying ==
    \A p \in Processes : dispatch[p].step \in Paid =>
        /\ table[GrantOf(p)].status = "CONSUMED"
        /\ table[GrantOf(p)].operation = Execute

OneEach ==
    \A p, q \in Processes :
        p # q /\ dispatch[p].step \in Paid /\ dispatch[q].step \in Paid => GrantOf(p) # GrantOf(q)

Unstarted ==
    /\ \A p \in Processes : dispatch[p].step = "start" => agent[GrantOf(p)].starts = 0
    /\ \A g \in Grants : agent[g].step = "none" => agent[g].starts = 0

PayInv == Authorising /\ Paying /\ OneEach /\ Unstarted /\ AgentsPaid /\ AgentsWatched

(* What is in the directory, and what the results say of it.               *)

\* The loops of an agent leave no file out.
Progress ==
    \A g \in Grants :
        /\ agent[g].step = "write" => \A f \in Files \ agent[g].todo : work[f] # Absent
        /\ agent[g].step = "hash" =>
               /\ \A f \in Files : work[f] # Absent
               /\ \A f \in Files \ agent[g].todo : agent[g].hashes[f] # Absent
        /\ agent[g].step = "printed" => \A f \in Files : agent[g].hashes[f] # Absent

\* What an agent that is alone has written and hashed is its own.
Alone ==
    \A g \in Grants : agent[g].alone =>
        /\ agent[g].step \in {"write", "hash", "printed"} => AtWork \subseteq {g}
        /\ agent[g].step = "write" => \A f \in Files \ agent[g].todo : work[f] = g
        /\ agent[g].step = "hash" =>
               /\ \A f \in Files : work[f] = g
               /\ \A f \in Files \ agent[g].todo : agent[g].hashes[f] = g
        /\ agent[g].step = "printed" => \A f \in Files : work[f] = g /\ agent[g].hashes[f] = g

Handed ==
    \A p \in Processes : dispatch[p].step = "result" =>
        /\ \A f \in Files : dispatch[p].hashes[f] # Absent
        /\ dispatch[p].alone => AtWork = {} /\ work = dispatch[p].hashes

Taken == accepted.alone => AtWork = {} /\ work = accepted.hashes

FileInv == Progress /\ Alone /\ Handed /\ Taken

RInv == IInv /\ RunnerTypeOK /\ PayInv /\ FileInv

-----------------------------------------------------------------------------

\* An empty work directory and no dispatch satisfy the invariant.
LEMMA InitRInv == RunnerInit => RInv
<1> SUFFICES ASSUME RunnerInit PROVE RInv
  OBVIOUS
<1>1. Init
  BY DEF RunnerInit
<1>2. IInv
  BY <1>1, InitIInv
<1>3. /\ dispatch \in [Processes -> Dispatches]
      /\ agent \in [Grants -> Agents]
      /\ work \in Hashes /\ accepted \in Results
  BY DEF RunnerInit, Dispatches, NoDispatch, Agents, NoAgent, Hashes, NoHashes, Results, NoResult
<1>4. RunnerTypeOK
  BY <1>2, <1>3 DEF RunnerTypeOK, IInv
<1>5. PayInv
  BY <1>1 DEF RunnerInit, Init, PayInv, Authorising, Paying, OneEach, Unstarted, AgentsPaid,
              AgentsWatched, AtWork, NoDispatch, NoAgent, Paid
<1>6. FileInv
  BY DEF RunnerInit, FileInv, Progress, Alone, Handed, Taken, NoDispatch, NoAgent, NoResult
<1> QED
  BY <1>2, <1>4, <1>5, <1>6 DEF RInv

\* The process that gives up or is answered has no dispatch.
LEMMA FinishTyped ==
  ASSUME RunnerTypeOK, NEW p \in Processes, Finish(p)
  PROVE  dispatch' \in [Processes -> Dispatches]
BY DEF Finish, RunnerTypeOK, Dispatches, NoDispatch, Hashes, NoHashes

\* A loop of an agent goes on with an agent.
LEMMA LoopTyped ==
  ASSUME RunnerTypeOK, NEW g \in Grants, NEW f \in Files, NEW a \in Agents,
         NEW next \in {"hash", "printed"}, Loop(g, f, a, next)
  PROVE  agent' \in [Grants -> Agents]
<1>1. [a EXCEPT !.todo = IF @ = {f} THEN Files ELSE @ \ {f},
                !.step = IF a.todo = {f} THEN next ELSE @] \in Agents
  BY DEF Agents
<1> QED
  BY <1>1 DEF Loop, RunnerTypeOK

\* Every step keeps the types.
LEMMA StepTyped ==
  ASSUME RInv, IInv', [RunnerNext]_<<vars, runnerVars>>
  PROVE  RunnerTypeOK'
<1> USE DEF RInv
<1>1. TypeOK'
  BY DEF IInv
<1> SUFFICES /\ dispatch' \in [Processes -> Dispatches]
             /\ agent' \in [Grants -> Agents]
             /\ work' \in Hashes /\ accepted' \in Results
  BY <1>1 DEF RunnerTypeOK
<1>2. \A p \in Processes : GrantOf(p) \in Grants
  BY DEF RunnerTypeOK, TypeOK, GrantOf
<1>3. CASE Outside \/ UNCHANGED <<vars, runnerVars>>
  BY <1>3 DEF Outside, runnerVars, RunnerTypeOK
<1>4. ASSUME NEW p \in Processes, Runner(p)
      PROVE  /\ dispatch' \in [Processes -> Dispatches]
             /\ agent' \in [Grants -> Agents]
             /\ work' \in Hashes /\ accepted' \in Results
  <2>1. ASSUME NEW g \in Grants, RequestRun(p, g)
        PROVE  /\ dispatch' \in [Processes -> Dispatches]
               /\ UNCHANGED <<agent, work, accepted>>
    BY <2>1 DEF RequestRun, RunnerTypeOK, Dispatches
  <2>2. CASE Authorise(p)
    BY <2>2 DEF Authorise, runnerVars, RunnerTypeOK
  <2>3. CASE CheckRun(p) \/ DieAuthorising(p) \/ FailToStart(p)
    BY <2>3, FinishTyped DEF CheckRun, DieAuthorising, FailToStart, RunnerTypeOK
  <2>4. CASE SpendRun(p)
    <3>1. [dispatch EXCEPT ![p].step = "start"] \in [Processes -> Dispatches]
      BY DEF RunnerTypeOK, Dispatches
    <3> QED
      BY <2>4, <3>1, FinishTyped DEF SpendRun, RunnerTypeOK
  <2>5. CASE StartAgent(p)
    <3>1. dispatch' \in [Processes -> Dispatches]
      BY <2>5 DEF StartAgent, RunnerTypeOK, Dispatches
    <3> DEFINE new == [NoAgent EXCEPT !.step = "write", !.todo = Files, !.alone = AtWork = {},
                                      !.starts = agent[GrantOf(p)].starts + 1]
    <3>2. new \in Agents
      <4>1. \A b \in BOOLEAN, n \in Nat :
                [NoAgent EXCEPT !.step = "write", !.todo = Files, !.alone = b, !.starts = n] \in Agents
        BY DEF Agents, NoAgent, Hashes, NoHashes
      <4>2. (AtWork = {}) \in BOOLEAN /\ agent[GrantOf(p)].starts + 1 \in Nat
        BY <1>2 DEF RunnerTypeOK, Agents
      <4> QED
        BY <4>1, <4>2
    <3>3. \A g \in Grants : [agent[g] EXCEPT !.alone = FALSE] \in Agents
      BY DEF RunnerTypeOK, Agents
    <3>4. agent' \in [Grants -> Agents]
      BY <2>5, <3>2, <3>3 DEF StartAgent
    <3> QED
      BY <2>5, <3>1, <3>4 DEF StartAgent, RunnerTypeOK, Results
  <2>6. CASE Timeout(p)
    BY <2>6, <1>2, FinishTyped DEF Timeout, RunnerTypeOK, Agents
  <2>7. CASE ReturnResult(p)
    <3>1. agent' \in [Grants -> Agents]
      BY <2>7, <1>2 DEF ReturnResult, RunnerTypeOK, Agents
    <3>2. dispatch' \in [Processes -> Dispatches]
      <4>1. NoDispatch \in Dispatches
        BY DEF NoDispatch, Dispatches, Hashes, NoHashes
      <4>2. [step |-> "result", todo |-> Files, hashes |-> agent[GrantOf(p)].hashes,
             alone |-> agent[GrantOf(p)].alone] \in Dispatches
        BY <1>2 DEF RunnerTypeOK, Agents, Dispatches
      <4> QED
        BY <2>7, <4>1, <4>2 DEF ReturnResult, RunnerTypeOK
    <3>3. UNCHANGED <<work, accepted>>
      BY <2>7 DEF ReturnResult
    <3> QED
      BY <3>1, <3>2, <3>3 DEF RunnerTypeOK
  <2>8. CASE Die(p)
    <3>1. dispatch' \in [Processes -> Dispatches] /\ UNCHANGED <<work, accepted>>
      BY <2>8, FinishTyped DEF Die
    <3>2. [agent EXCEPT ![GrantOf(p)].orphan = TRUE] \in [Grants -> Agents]
      BY <1>2 DEF RunnerTypeOK, Agents
    <3>3. agent' \in [Grants -> Agents]
      BY <2>8, <3>2 DEF Die, RunnerTypeOK
    <3> QED
      BY <3>1, <3>3 DEF RunnerTypeOK
  <2>9. ASSUME NEW f \in Files, VerifyArtifact(p, f)
        PROVE  /\ dispatch' \in [Processes -> Dispatches]
               /\ UNCHANGED <<agent, work>> /\ accepted' \in Results
    <3>1. [dispatch EXCEPT ![p].todo = @ \ {f}] \in [Processes -> Dispatches]
      BY DEF RunnerTypeOK, Dispatches
    <3>2. [hashes |-> dispatch[p].hashes, alone |-> dispatch[p].alone] \in Results
      BY DEF RunnerTypeOK, Dispatches, Results
    <3> QED
      BY <2>9, <3>1, <3>2, FinishTyped DEF VerifyArtifact, RunnerTypeOK
  <2> QED
    BY <1>4, <2>1, <2>2, <2>3, <2>4, <2>5, <2>6, <2>7, <2>8, <2>9 DEF Runner, RunnerTypeOK
<1>5. ASSUME NEW g \in Grants, Agent(g)
      PROVE  /\ UNCHANGED <<dispatch, accepted>>
             /\ agent' \in [Grants -> Agents] /\ work' \in Hashes
  <2>1. ASSUME NEW f \in Files, AgentWrites(g, f)
        PROVE  agent' \in [Grants -> Agents] /\ work' \in Hashes
    <3>1. agent' \in [Grants -> Agents]
      BY <2>1, LoopTyped DEF AgentWrites, RunnerTypeOK
    <3>2. work' \in Hashes
      BY <2>1 DEF AgentWrites, RunnerTypeOK, Hashes
    <3> QED
      BY <3>1, <3>2
  <2>2. ASSUME NEW f \in Files, AgentHashes(g, f)
        PROVE  agent' \in [Grants -> Agents] /\ work' \in Hashes
    <3>1. [agent[g].hashes EXCEPT ![f] = work[f]] \in Hashes
      BY DEF RunnerTypeOK, Agents, Hashes
    <3>2. [agent[g] EXCEPT !.hashes[f] = work[f]] \in Agents
      BY <3>1 DEF RunnerTypeOK, Agents
    <3>3. agent' \in [Grants -> Agents]
      BY <2>2, <3>2, LoopTyped DEF AgentHashes
    <3> QED
      BY <2>2, <3>3 DEF AgentHashes, RunnerTypeOK
  <2>3. CASE AgentFails(g)
    BY <2>3 DEF AgentFails, RunnerTypeOK, Agents
  <2> QED
    BY <1>5, <2>1, <2>2, <2>3 DEF Agent, AgentWrites, AgentHashes, AgentFails
<1> QED
  BY <1>3, <1>4, <1>5 DEF RunnerNext, RunnerTypeOK

-----------------------------------------------------------------------------

\* A spent grant stays as it is.
LEMMA SpentStays ==
  ASSUME RInv, [RunnerNext]_<<vars, runnerVars>>, NEW g \in Grants, table[g].status = "CONSUMED"
  PROVE  table'[g] = table[g]
BY RunnerStep, StepEnds DEF RInv, Ends

\* What happens to the grants outside of a dispatch disturbs no dispatch.
LEMMA OutsidePay ==
  ASSUME RInv, [RunnerNext]_<<vars, runnerVars>>, UNCHANGED <<runnerVars, step, request>>
  PROVE  PayInv'
<1> USE DEF RInv, PayInv, runnerVars
<1>1. Authorising'
  BY DEF Authorising
<1>2. Paying'
  BY SpentStays DEF Paying, GrantOf, RunnerTypeOK, TypeOK
<1>3. OneEach' /\ Unstarted' /\ AgentsWatched'
  BY DEF OneEach, Unstarted, AgentsWatched, AtWork, GrantOf
<1>4. AgentsPaid'
  BY SpentStays DEF AgentsPaid
<1> QED
  BY <1>1, <1>2, <1>3, <1>4

\* A dispatch that ends without an agent at work leaves nobody unwatched.
LEMMA FinishPay ==
  ASSUME RInv, [RunnerNext]_<<vars, runnerVars>>, NEW p \in Processes, Finish(p),
         dispatch[p].step # "wait", UNCHANGED <<agent, request>>,
         \A q \in Processes : step'[q] = IF q = p THEN "idle" ELSE step[q]
  PROVE  PayInv'
<1> USE DEF RInv, PayInv, Finish, NoDispatch
<1>1. \A q \in Processes : dispatch'[q] = IF q = p THEN NoDispatch ELSE dispatch[q]
  BY DEF RunnerTypeOK
<1>2. \A q \in Processes : GrantOf(q)' = GrantOf(q) /\ GrantOf(q) \in Grants
  BY DEF GrantOf, RunnerTypeOK, TypeOK
<1>3. Authorising'
  BY <1>1 DEF Authorising
<1>4. Paying'
  BY <1>1, <1>2, SpentStays DEF Paying, Paid
<1>5. OneEach' /\ Unstarted'
  BY <1>1, <1>2 DEF OneEach, Unstarted, Paid
<1>6. AgentsPaid'
  BY SpentStays DEF AgentsPaid
<1>7. AgentsWatched'
  BY <1>1, <1>2 DEF AgentsWatched, AtWork
<1> QED
  BY <1>3, <1>4, <1>5, <1>6, <1>7

\* Agents and results move on while the grants rest.
LEMMA RestPay ==
  ASSUME RInv, UNCHANGED vars,
         \A q \in Processes : dispatch'[q].step # dispatch[q].step =>
             dispatch'[q].step \notin Paid /\ dispatch[q].step # "authorise",
         \A g \in Grants : agent'[g].starts = agent[g].starts,
         \A g \in Grants : agent'[g].step = "none" <=> agent[g].step = "none",
         AgentsWatched'
  PROVE  PayInv'
<1> USE DEF RInv, PayInv, vars
<1>1. \A q \in Processes : GrantOf(q)' = GrantOf(q) /\ GrantOf(q) \in Grants
  BY DEF GrantOf, RunnerTypeOK, TypeOK
<1>2. Authorising'
  BY DEF Authorising
<1>3. Paying' /\ OneEach' /\ Unstarted'
  BY <1>1 DEF Paying, OneEach, Unstarted, Paid
<1>4. AgentsPaid'
  BY DEF AgentsPaid
<1> QED
  BY <1>2, <1>3, <1>4

\* An agent at work is changed by nobody else, and goes on or fails.
LEMMA AgentKeeps ==
  ASSUME RInv, NEW g \in Grants, Agent(g)
  PROVE  /\ g \in AtWork
         /\ \A h \in Grants : h # g => agent'[h] = agent[h]
         /\ agent'[g].step \in {"write", "hash", "printed", "failed"}
         /\ agent[g].step # "none"
         /\ agent'[g].starts = agent[g].starts /\ agent'[g].orphan = agent[g].orphan
<1> USE DEF RInv, RunnerTypeOK
<1>1. ASSUME NEW f \in Files, NEW a \in Agents, NEW next \in {"hash", "printed"},
             Loop(g, f, a, next)
      PROVE  /\ \A h \in Grants : h # g => agent'[h] = agent[h]
             /\ agent'[g].step \in {a.step, next}
             /\ agent'[g].starts = a.starts /\ agent'[g].orphan = a.orphan
  BY <1>1 DEF Loop, Agents
<1>2. ASSUME NEW f \in Files, AgentWrites(g, f)
      PROVE  /\ \A h \in Grants : h # g => agent'[h] = agent[h]
             /\ agent'[g].step \in {"write", "hash"} /\ agent[g].step = "write"
             /\ agent'[g].starts = agent[g].starts /\ agent'[g].orphan = agent[g].orphan
  BY <1>1, <1>2 DEF AgentWrites
<1>3. ASSUME NEW f \in Files, AgentHashes(g, f)
      PROVE  /\ \A h \in Grants : h # g => agent'[h] = agent[h]
             /\ agent'[g].step \in {"hash", "printed"} /\ agent[g].step = "hash"
             /\ agent'[g].starts = agent[g].starts /\ agent'[g].orphan = agent[g].orphan
  <2> DEFINE a == [agent[g] EXCEPT !.hashes[f] = work[f]]
  <2>1. [agent[g].hashes EXCEPT ![f] = work[f]] \in Hashes
    BY DEF Agents, Hashes
  <2>2. /\ a \in Agents /\ a.step = agent[g].step
        /\ a.starts = agent[g].starts /\ a.orphan = agent[g].orphan
    BY <2>1 DEF Agents
  <2> QED
    BY <1>1, <1>3, <2>2 DEF AgentHashes
<1>4. ASSUME AgentFails(g)
      PROVE  /\ \A h \in Grants : h # g => agent'[h] = agent[h]
             /\ agent'[g].step = "failed" /\ agent[g].step \in {"write", "hash"}
             /\ agent'[g].starts = agent[g].starts /\ agent'[g].orphan = agent[g].orphan
  BY <1>4 DEF AgentFails, Agents
<1> QED
  BY <1>2, <1>3, <1>4 DEF Agent, AtWork

\* No step starts an agent without a grant of its own, or leaves one alone.
LEMMA StepPay ==
  ASSUME RInv, [RunnerNext]_<<vars, runnerVars>>
  PROVE  PayInv'
<1> USE DEF RInv
<1>1. CASE Outside \/ UNCHANGED <<vars, runnerVars>>
  BY <1>1, OutsidePay DEF Outside, RevokeIssued, Issue, NextAttempt, Tick, vars
<1>2. ASSUME NEW p \in Processes, NEW g \in Grants, RequestRun(p, g)
      PROVE  PayInv'
  <2> USE <1>2 DEF RequestRun, Present, Goto
  <2>1. /\ \A q \in Processes : q # p =>
               dispatch'[q] = dispatch[q] /\ step'[q] = step[q] /\ request'[q] = request[q]
        /\ dispatch'[p].step = "authorise" /\ step'[p] = "begin"
        /\ request'[p].operation = Execute
    BY DEF RunnerTypeOK, TypeOK, Dispatches
  <2>2. \A q \in Processes : q # p => GrantOf(q)' = GrantOf(q)
    BY <2>1 DEF GrantOf
  <2> USE DEF PayInv
  <2>3. Authorising'
    BY <2>1 DEF Authorising
  <2>4. Paying' /\ OneEach' /\ Unstarted'
    BY <2>1, <2>2 DEF Paying, OneEach, Unstarted, Paid
  <2>5. AgentsPaid'
    BY DEF AgentsPaid
  <2>6. AgentsWatched'
    BY <2>1, <2>2 DEF AgentsWatched, AtWork
  <2> QED
    BY <2>3, <2>4, <2>5, <2>6
<1>3. ASSUME NEW p \in Processes, Authorise(p)
      PROVE  PayInv'
  <2> USE <1>3 DEF Authorise, BeginImmediate, Goto, runnerVars, PayInv
  <2>1. Authorising'
    BY DEF Authorising, RunnerTypeOK, TypeOK
  <2>2. Paying' /\ OneEach' /\ Unstarted' /\ AgentsPaid' /\ AgentsWatched'
    BY DEF Paying, OneEach, Unstarted, AgentsPaid, AgentsWatched, AtWork, GrantOf
  <2> QED
    BY <2>1, <2>2
<1>4. ASSUME NEW p \in Processes, CheckRun(p)
      PROVE  PayInv'
  <2> USE <1>4 DEF CheckRun, CheckGrant, Goto, GrantOf
  <2>1. dispatch[p].step = "authorise"
    BY DEF PayInv, Authorising
  <2>2. CASE Acceptable(table[GrantOf(p)], request[p])
    <3> USE <2>2 DEF PayInv
    <3>1. Authorising'
      BY DEF Authorising, RunnerTypeOK, TypeOK
    <3>2. Paying' /\ OneEach' /\ Unstarted' /\ AgentsPaid' /\ AgentsWatched'
      BY DEF Paying, OneEach, Unstarted, AgentsPaid, AgentsWatched, AtWork
    <3> QED
      BY <3>1, <3>2
  <2>3. CASE ~ Acceptable(table[GrantOf(p)], request[p])
    BY <2>1, <2>3, FinishPay DEF RunnerTypeOK, TypeOK
  <2> QED
    BY <2>2, <2>3
<1>5. ASSUME NEW p \in Processes, SpendRun(p)
      PROVE  PayInv'
  <2> USE <1>5 DEF SpendRun, UpdateGrant, Goto
  <2> DEFINE g == GrantOf(p)
  <2>1. /\ g \in Grants /\ table[g].status = "ISSUED" /\ table[g].operation = Execute
        /\ table[g] \in Row /\ dispatch[p].step = "authorise"
    BY DEF IInv, CheckedStaysTrue, GrantOf, TypeOK, PayInv, Authorising
  <2>2. /\ table' = [table EXCEPT ![g] = Spent(table[g])]
        /\ dispatch' = [dispatch EXCEPT ![p].step = "start"]
        /\ UNCHANGED <<agent, request>>
    BY <2>1 DEF GrantOf
  <2>3. table'[g].status = "CONSUMED" /\ table'[g].operation = Execute
    BY <2>1, <2>2 DEF Spent, Row, RunnerTypeOK, TypeOK
  <2>4. /\ \A q \in Processes : q # p => dispatch'[q] = dispatch[q] /\ step'[q] = step[q]
        /\ dispatch'[p].step = "start" /\ step'[p] = "idle"
    BY <2>2 DEF RunnerTypeOK, TypeOK, Dispatches
  <2>5. \A q \in Processes : GrantOf(q)' = GrantOf(q) /\ GrantOf(q) \in Grants
    BY <2>2 DEF GrantOf, RunnerTypeOK, TypeOK
  <2>6. agent[g].step = "none" /\ agent[g].starts = 0
    BY <2>1 DEF PayInv, AgentsPaid, Unstarted
  <2>7. \A q \in Processes : dispatch[q].step \in Paid => GrantOf(q) # g
    BY <2>1 DEF PayInv, Paying
  <2> HIDE <1>5 DEF SpendRun, UpdateGrant, Goto, g
  <2> USE DEF PayInv
  <2>8. Authorising'
    BY <2>2, <2>4 DEF Authorising
  <2>9. Paying'
    BY <2>3, <2>4, <2>5, SpentStays DEF Paying, Paid, g
  <2>10. OneEach'
    BY <2>4, <2>5, <2>7 DEF OneEach, Paid, g
  <2>11. Unstarted'
    BY <2>2, <2>4, <2>5, <2>6 DEF Unstarted, g
  <2>12. AgentsPaid'
    BY <2>2, SpentStays DEF AgentsPaid
  <2>13. AgentsWatched'
    BY <2>1, <2>2, <2>4, <2>5 DEF AgentsWatched, AtWork
  <2> QED
    BY <2>8, <2>9, <2>10, <2>11, <2>12, <2>13
<1>6. ASSUME NEW p \in Processes, DieAuthorising(p)
      PROVE  PayInv'
  <2>1. dispatch[p].step = "authorise"
    BY <1>6 DEF DieAuthorising, Rollback, PayInv, Authorising
  <2> QED
    BY <1>6, <2>1, FinishPay DEF DieAuthorising, Rollback, Goto, RunnerTypeOK, TypeOK
<1>7. ASSUME NEW p \in Processes, FailToStart(p)
      PROVE  PayInv'
  <2>1. step[p] = "idle"
    BY <1>7 DEF FailToStart, PayInv, Authorising
  <2> QED
    BY <1>7, <2>1, FinishPay DEF FailToStart, vars
<1>8. ASSUME NEW p \in Processes, StartAgent(p)
      PROVE  PayInv'
  <2>1. \A q \in Processes : GrantOf(q)' = GrantOf(q) /\ GrantOf(q) \in Grants
    BY <1>8 DEF StartAgent, vars, GrantOf, RunnerTypeOK, TypeOK
  <2>2. /\ \A q \in Processes : q # p => dispatch'[q].step = dispatch[q].step
        /\ dispatch'[p].step = "wait" /\ dispatch[p].step = "start"
    BY <1>8 DEF StartAgent, RunnerTypeOK, Dispatches
  <2>3. agent[GrantOf(p)].starts = 0
    BY <2>2 DEF PayInv, Unstarted
  <2>4. agent'[GrantOf(p)].step = "write" /\ agent'[GrantOf(p)].starts = 1
    <3>1. agent'[GrantOf(p)] =
             [NoAgent EXCEPT !.step = "write", !.todo = Files, !.alone = AtWork = {},
                             !.starts = agent[GrantOf(p)].starts + 1]
      BY <1>8, <2>1 DEF StartAgent
    <3>2. agent'[GrantOf(p)].step = "write" /\ agent'[GrantOf(p)].starts = agent[GrantOf(p)].starts + 1
      BY <3>1, Zenon DEF NoAgent
    <3> QED
      BY <2>3, <3>2
  <2>5. \A g \in Grants : g # GrantOf(p) =>
            /\ agent'[g].step = agent[g].step /\ agent'[g].starts = agent[g].starts
            /\ agent'[g].orphan = agent[g].orphan
    BY <1>8 DEF StartAgent, RunnerTypeOK, Agents
  <2>6. step[p] = "idle" /\ table[GrantOf(p)].status = "CONSUMED" /\ table[GrantOf(p)].operation = Execute
    BY <2>2 DEF PayInv, Authorising, Paying, Paid
  <2>7. UNCHANGED <<table, step, request>>
    BY <1>8 DEF StartAgent, vars
  <2> USE DEF PayInv
  <2>8. Authorising'
    BY <2>2, <2>6, <2>7 DEF Authorising
  <2>9. Paying' /\ OneEach'
    BY <2>1, <2>2, <2>7 DEF Paying, OneEach, Paid
  <2>10. Unstarted'
    BY <2>1, <2>2, <2>4, <2>5 DEF Unstarted, OneEach, Paid
  <2>11. AgentsPaid'
    BY <2>4, <2>5, <2>6, <2>7 DEF AgentsPaid
  <2>12. AgentsWatched'
    BY <2>1, <2>2, <2>5 DEF AgentsWatched, AtWork
  <2> QED
    BY <2>8, <2>9, <2>10, <2>11, <2>12
<1>9. ASSUME NEW p \in Processes, UNCHANGED vars,
             dispatch[p].step = "wait",
             \A q \in Processes : q # p => dispatch'[q] = dispatch[q],
             dispatch'[p].step \notin Paid,
             \A g \in Grants : g # GrantOf(p) => agent'[g] = agent[g],
             agent'[GrantOf(p)].starts = agent[GrantOf(p)].starts,
             agent[GrantOf(p)].step # "none" <=> agent'[GrantOf(p)].step # "none",
             agent'[GrantOf(p)].step \notin {"write", "hash"} \/ agent'[GrantOf(p)].orphan
      PROVE  PayInv'
  <2>1. \A q \in Processes : GrantOf(q)' = GrantOf(q) /\ GrantOf(q) \in Grants
    BY <1>9 DEF GrantOf, RunnerTypeOK, TypeOK, vars
  <2>2. AgentsWatched'
    BY <1>9, <2>1 DEF PayInv, AgentsWatched, AtWork
  <2> QED
    BY <1>9, <2>2, RestPay
<1>10. ASSUME NEW p \in Processes, Timeout(p) \/ ReturnResult(p) \/ Die(p)
       PROVE  PayInv'
  <2>1. GrantOf(p) \in Grants
    BY DEF GrantOf, RunnerTypeOK, TypeOK
  <2>2. CASE Timeout(p)
    BY <2>1, <2>2, <1>9 DEF Timeout, Finish, NoDispatch, Paid, RunnerTypeOK, Agents
  <2>3. CASE ReturnResult(p)
    BY <2>1, <2>3, <1>9 DEF ReturnResult, NoDispatch, Paid, RunnerTypeOK, Agents
  <2>4. CASE Die(p) /\ dispatch[p].step = "wait"
    BY <2>1, <2>4, <1>9 DEF Die, Finish, NoDispatch, Paid, RunnerTypeOK, Agents
  <2>5. CASE Die(p) /\ dispatch[p].step # "wait"
    <3>1. step[p] = "idle"
      BY <2>5 DEF Die, PayInv, Authorising
    <3> QED
      BY <2>5, <3>1, FinishPay DEF Die, vars
  <2> QED
    BY <1>10, <2>2, <2>3, <2>4, <2>5
<1>11. ASSUME NEW p \in Processes, NEW f \in Files, VerifyArtifact(p, f)
       PROVE  PayInv'
  <2> USE <1>11 DEF VerifyArtifact
  <2>1. /\ \A q \in Processes : q # p => dispatch'[q] = dispatch[q]
        /\ dispatch'[p].step \in {"idle", "result"} /\ dispatch[p].step = "result"
        /\ UNCHANGED <<vars, agent>>
    BY DEF RunnerTypeOK, Dispatches, Finish, NoDispatch
  <2> HIDE <1>11 DEF VerifyArtifact
  <2>2. AgentsWatched'
    BY <2>1 DEF PayInv, AgentsWatched, AtWork, GrantOf, vars
  <2> QED
    BY <2>1, <2>2, RestPay DEF Paid
<1>12. ASSUME NEW g \in Grants, Agent(g)
       PROVE  PayInv'
  <2>1. /\ UNCHANGED <<vars, dispatch>> /\ g \in AtWork
        /\ \A h \in Grants : h # g => agent'[h] = agent[h]
        /\ agent'[g].step # "none" /\ agent[g].step # "none"
        /\ agent'[g].starts = agent[g].starts /\ agent'[g].orphan = agent[g].orphan
    BY <1>12, AgentKeeps DEF Agent, AgentWrites, AgentHashes, AgentFails
  <2>2. AgentsWatched'
    BY <2>1 DEF PayInv, AgentsWatched, AtWork, GrantOf, vars
  <2> QED
    BY <2>1, <2>2, RestPay
<1> QED
  BY <1>1, <1>2, <1>3, <1>4, <1>5, <1>6, <1>7, <1>8, <1>10, <1>11, <1>12 DEF RunnerNext, Runner

-----------------------------------------------------------------------------

\* Agents that stop, and dispatches that begin or end, leave the results true.
LEMMA LessWork ==
  ASSUME RInv, UNCHANGED <<work, accepted>>,
         \A g \in Grants :
             \/ agent'[g].step \in {"over", "failed"}
             \/ /\ agent'[g].step = agent[g].step /\ agent'[g].todo = agent[g].todo
                /\ agent'[g].hashes = agent[g].hashes /\ agent'[g].alone = agent[g].alone
  PROVE  /\ Progress' /\ Alone' /\ Taken' /\ AtWork' \subseteq AtWork
         /\ (\A q \in Processes : dispatch'[q].step = "result" => dispatch'[q] = dispatch[q]) => Handed'
<1> USE DEF RInv, FileInv
<1>1. AtWork' \subseteq AtWork
  BY DEF AtWork
<1>2. Progress'
  BY DEF Progress
<1>3. Alone'
  BY <1>1 DEF Alone
<1>4. Taken'
  BY <1>1 DEF Taken
<1>5. ASSUME \A q \in Processes : dispatch'[q].step = "result" => dispatch'[q] = dispatch[q]
      PROVE  Handed'
  BY <1>1, <1>5 DEF Handed
<1> QED
  BY <1>1, <1>2, <1>3, <1>4, <1>5

\* An agent that is started finds the directory to itself, or nobody's result
\* is said to be alone any more.
LEMMA StartFiles ==
  ASSUME RInv, NEW p \in Processes, StartAgent(p)
  PROVE  FileInv'
<1> DEFINE g == GrantOf(p)
<1> USE DEF RInv
<1>1. g \in Grants
  BY DEF GrantOf, RunnerTypeOK, TypeOK
<1>2. /\ agent'[g].step = "write" /\ agent'[g].todo = Files
      /\ agent'[g].alone => AtWork = {}
  <2>1. agent'[g] = [NoAgent EXCEPT !.step = "write", !.todo = Files, !.alone = AtWork = {},
                                    !.starts = agent[g].starts + 1]
    BY <1>1 DEF StartAgent
  <2> QED
    BY <2>1, Zenon DEF NoAgent
<1>3. \A h \in Grants : h # g =>
          /\ agent'[h].step = agent[h].step /\ agent'[h].todo = agent[h].todo
          /\ agent'[h].hashes = agent[h].hashes /\ ~ agent'[h].alone
  BY DEF StartAgent, RunnerTypeOK, Agents
<1>4. /\ \A q \in Processes : dispatch'[q].step = "result" =>
             /\ dispatch[q].step = "result" /\ dispatch'[q].hashes = dispatch[q].hashes
             /\ ~ dispatch'[q].alone
      /\ work' = work /\ ~ accepted'.alone
  BY DEF StartAgent, RunnerTypeOK, Dispatches, Results
<1>5. agent'[g].alone => AtWork' \subseteq {g}
  BY <1>2, <1>3 DEF AtWork
<1> HIDE DEF g
<1> USE DEF FileInv
<1>6. Progress'
  BY <1>1, <1>2, <1>3, <1>4 DEF Progress
<1>7. Alone'
  BY <1>1, <1>2, <1>3, <1>5 DEF Alone
<1>8. Handed' /\ Taken'
  BY <1>4 DEF Handed, Taken
<1> QED
  BY <1>6, <1>7, <1>8

\* An agent writes its own files, and after it has started no result that is
\* said to be alone is there.
LEMMA WriteFiles ==
  ASSUME RInv, NEW g \in Grants, NEW f \in Files, AgentWrites(g, f)
  PROVE  FileInv'
<1> USE DEF RInv, FileInv
<1>1. /\ agent[g].step = "write" /\ f \in agent[g].todo /\ g \in AtWork
      /\ UNCHANGED <<dispatch, accepted>>
  BY DEF AgentWrites, AtWork
<1>2. /\ work'[f] = g /\ g # Absent
      /\ \A e \in Files : e # f => work'[e] = work[e]
  BY FilesAssumption DEF AgentWrites, RunnerTypeOK, Hashes
<1>3. /\ \A h \in Grants : h # g => agent'[h] = agent[h]
      /\ agent'[g].hashes = agent[g].hashes /\ agent'[g].alone = agent[g].alone
      /\ \/ agent'[g].step = "write" /\ agent'[g].todo = agent[g].todo \ {f}
         \/ agent'[g].step = "hash" /\ agent'[g].todo = Files /\ agent[g].todo = {f}
  BY DEF AgentWrites, Loop, RunnerTypeOK, Agents
<1>4. AtWork' = AtWork
  BY <1>1, <1>3 DEF AtWork
<1>5. Progress'
  <2>1. ASSUME NEW h \in Grants, h # g
        PROVE  /\ agent'[h].step = "write" => \A e \in Files \ agent'[h].todo : work'[e] # Absent
               /\ agent'[h].step = "hash" =>
                      /\ \A e \in Files : work'[e] # Absent
                      /\ \A e \in Files \ agent'[h].todo : agent'[h].hashes[e] # Absent
               /\ agent'[h].step = "printed" => \A e \in Files : agent'[h].hashes[e] # Absent
    BY <1>2, <1>3, <2>1 DEF Progress
  <2>2. /\ agent'[g].step = "write" => \A e \in Files \ agent'[g].todo : work'[e] # Absent
        /\ agent'[g].step = "hash" => \A e \in Files : work'[e] # Absent
        /\ agent'[g].step = "hash" => Files \ agent'[g].todo = {}
        /\ agent'[g].step # "printed"
    BY <1>1, <1>2, <1>3 DEF Progress
  <2> QED
    BY <2>1, <2>2 DEF Progress
<1>6. Alone'
  <2>1. \A h \in Grants : h # g /\ agent'[h].alone =>
            agent'[h].step \notin {"write", "hash", "printed"}
    BY <1>1, <1>3 DEF Alone
  <2>2. agent'[g].alone =>
            /\ AtWork' \subseteq {g}
            /\ agent'[g].step = "write" => \A e \in Files \ agent'[g].todo : work'[e] = g
            /\ agent'[g].step = "hash" => \A e \in Files : work'[e] = g
            /\ agent'[g].step = "hash" => Files \ agent'[g].todo = {}
            /\ agent'[g].step # "printed"
    <3> SUFFICES ASSUME agent[g].alone
                 PROVE  /\ AtWork' \subseteq {g}
                        /\ agent'[g].step = "write" => \A e \in Files \ agent'[g].todo : work'[e] = g
                        /\ agent'[g].step = "hash" => \A e \in Files : work'[e] = g
                        /\ agent'[g].step = "hash" => Files \ agent'[g].todo = {}
                        /\ agent'[g].step # "printed"
      BY <1>3
    <3>1. AtWork \subseteq {g} /\ \A e \in Files \ agent[g].todo : work[e] = g
      BY <1>1 DEF Alone
    <3> QED
      BY <1>1, <1>2, <1>3, <1>4, <3>1
  <2> QED
    BY <2>1, <2>2 DEF Alone
<1>7. Handed'
  BY <1>1, <1>4 DEF Handed
<1>8. Taken'
  BY <1>1, <1>4 DEF Taken
<1> QED
  BY <1>5, <1>6, <1>7, <1>8

\* What an agent hashes is there.
LEMMA HashFiles ==
  ASSUME RInv, NEW g \in Grants, NEW f \in Files, AgentHashes(g, f)
  PROVE  FileInv'
<1> USE DEF RInv, FileInv
<1>1. /\ agent[g].step = "hash" /\ f \in agent[g].todo /\ g \in AtWork
      /\ UNCHANGED <<dispatch, accepted, work>>
  BY DEF AgentHashes, AtWork
<1>2. /\ \A h \in Grants : h # g => agent'[h] = agent[h]
      /\ agent'[g].hashes[f] = work[f] /\ agent'[g].alone = agent[g].alone
      /\ \A e \in Files : e # f => agent'[g].hashes[e] = agent[g].hashes[e]
      /\ \/ agent'[g].step = "hash" /\ agent'[g].todo = agent[g].todo \ {f}
         \/ agent'[g].step = "printed" /\ agent[g].todo = {f}
  <2> DEFINE a == [agent[g] EXCEPT !.hashes[f] = work[f]]
  <2>1. /\ [agent[g].hashes EXCEPT ![f] = work[f]] \in Hashes
        /\ agent[g].hashes \in [Files -> Grants \cup {Absent}]
    BY DEF RunnerTypeOK, Agents, Hashes
  <2>2. /\ a \in Agents /\ a.step = agent[g].step /\ a.todo = agent[g].todo
        /\ a.alone = agent[g].alone /\ a.hashes = [agent[g].hashes EXCEPT ![f] = work[f]]
    BY <2>1 DEF RunnerTypeOK, Agents
  <2>3. Loop(g, f, a, "printed")
    BY DEF AgentHashes
  <2> HIDE DEF a
  <2>4. /\ \A h \in Grants : h # g => agent'[h] = agent[h]
        /\ agent'[g].hashes = a.hashes /\ agent'[g].alone = a.alone
        /\ \/ agent'[g].step = a.step /\ agent'[g].todo = a.todo \ {f} /\ a.todo # {f}
           \/ agent'[g].step = "printed" /\ a.todo = {f}
    BY <2>2, <2>3 DEF Loop, RunnerTypeOK, Agents
  <2> QED
    BY <1>1, <2>1, <2>2, <2>4
<1>3. AtWork' \subseteq AtWork
  BY <1>1, <1>2 DEF AtWork
<1>4. Progress'
  <2>1. /\ agent'[g].step \in {"hash", "printed"}
        /\ \A e \in Files : work[e] # Absent
        /\ agent'[g].step = "hash" => \A e \in Files \ agent'[g].todo : agent'[g].hashes[e] # Absent
        /\ agent'[g].step = "printed" => \A e \in Files : agent'[g].hashes[e] # Absent
    BY <1>1, <1>2 DEF Progress
  <2> QED
    BY <1>1, <1>2, <2>1 DEF Progress
<1>5. Alone'
  <2>1. agent'[g].alone =>
            /\ AtWork' \subseteq {g} /\ \A e \in Files : work[e] = g
            /\ agent'[g].step = "hash" => \A e \in Files \ agent'[g].todo : agent'[g].hashes[e] = g
            /\ agent'[g].step = "printed" => \A e \in Files : agent'[g].hashes[e] = g
    <3> SUFFICES ASSUME agent[g].alone
                 PROVE  /\ AtWork' \subseteq {g} /\ \A e \in Files : work[e] = g
                        /\ agent'[g].step = "hash" =>
                               \A e \in Files \ agent'[g].todo : agent'[g].hashes[e] = g
                        /\ agent'[g].step = "printed" => \A e \in Files : agent'[g].hashes[e] = g
      BY <1>2
    <3>1. /\ AtWork \subseteq {g} /\ \A e \in Files : work[e] = g
          /\ \A e \in Files \ agent[g].todo : agent[g].hashes[e] = g
      BY <1>1 DEF Alone
    <3> QED
      BY <1>1, <1>2, <1>3, <3>1
  <2>2. \A h \in Grants : h # g /\ agent'[h].alone =>
            agent'[h].step \notin {"write", "hash", "printed"}
    BY <1>1, <1>2 DEF Alone
  <2>3. agent'[g].step \in {"hash", "printed"}
    BY <1>2, <1>1
  <2> QED
    BY <1>1, <2>1, <2>2, <2>3 DEF Alone
<1>6. Handed'
  BY <1>1, <1>3 DEF Handed
<1>7. Taken'
  BY <1>1, <1>3 DEF Taken
<1> QED
  BY <1>4, <1>5, <1>6, <1>7

\* The answer of an agent that was alone is what is in the directory.
LEMMA ReturnFiles ==
  ASSUME RInv, NEW p \in Processes, ReturnResult(p)
  PROVE  FileInv'
<1> DEFINE g == GrantOf(p)
<1> USE DEF RInv
<1>1. /\ g \in Grants /\ UNCHANGED <<work, accepted>> /\ agent[g] \in Agents
      /\ agent[g].step \in {"printed", "failed"}
  BY DEF ReturnResult, GrantOf, RunnerTypeOK, TypeOK
<1>2. /\ \A h \in Grants : h # g => agent'[h] = agent[h]
      /\ agent'[g].step = "over"
  BY <1>1 DEF ReturnResult, RunnerTypeOK, Agents
<1>3. Progress' /\ Alone' /\ Taken' /\ AtWork' \subseteq AtWork
  BY <1>1, <1>2, LessWork
<1>4. \A q \in Processes : q # p => dispatch'[q] = dispatch[q]
  BY DEF ReturnResult, RunnerTypeOK
<1>5. dispatch'[p].step = "result" =>
          /\ agent[g].step = "printed"
          /\ dispatch'[p].hashes = agent[g].hashes /\ dispatch'[p].alone = agent[g].alone
  BY DEF ReturnResult, RunnerTypeOK, NoDispatch
<1>6. dispatch'[p].step = "result" =>
          /\ \A f \in Files : dispatch'[p].hashes[f] # Absent
          /\ dispatch'[p].alone => AtWork' = {} /\ work = dispatch'[p].hashes
  <2>1. agent[g].step = "printed" => \A f \in Files : agent[g].hashes[f] # Absent
    BY <1>1 DEF FileInv, Progress
  <2>2. ASSUME agent[g].step = "printed", agent[g].alone
        PROVE  AtWork = {} /\ work = agent[g].hashes
    <3>1. AtWork \subseteq {g} /\ g \notin AtWork
      BY <1>1, <2>2 DEF FileInv, Alone, AtWork
    <3>2. \A f \in Files : work[f] = agent[g].hashes[f]
      BY <1>1, <2>2 DEF FileInv, Alone
    <3>3. work \in Hashes /\ agent[g].hashes \in Hashes
      BY <1>1 DEF RunnerTypeOK, Agents
    <3> QED
      BY <3>1, <3>2, <3>3 DEF Hashes
  <2> QED
    BY <1>3, <1>5, <2>1, <2>2
<1>7. Handed'
  BY <1>1, <1>3, <1>4, <1>6 DEF FileInv, Handed
<1> QED
  BY <1>3, <1>7 DEF FileInv

\* Every step keeps what is said of the directory.
LEMMA StepFiles ==
  ASSUME RInv, [RunnerNext]_<<vars, runnerVars>>
  PROVE  FileInv'
<1> USE DEF RInv
<1>1. ASSUME UNCHANGED <<agent, work, accepted>>,
             \A q \in Processes : dispatch'[q].step = "result" => dispatch'[q] = dispatch[q]
      PROVE  FileInv'
  BY <1>1, LessWork DEF FileInv
<1>2. CASE Outside \/ UNCHANGED <<vars, runnerVars>>
  BY <1>2, <1>1 DEF Outside, runnerVars
<1>3. ASSUME NEW p \in Processes, NEW g \in Grants, RequestRun(p, g)
      PROVE  FileInv'
  BY <1>1, <1>3 DEF RequestRun, RunnerTypeOK
<1>4. ASSUME NEW p \in Processes,
             Authorise(p) \/ CheckRun(p) \/ SpendRun(p) \/ DieAuthorising(p) \/ FailToStart(p)
      PROVE  FileInv'
  <2>1. /\ UNCHANGED <<agent, work, accepted>>
        /\ \/ UNCHANGED dispatch
           \/ Finish(p)
           \/ dispatch' = [dispatch EXCEPT ![p].step = "start"]
    BY <1>4 DEF Authorise, CheckRun, SpendRun, DieAuthorising, FailToStart, runnerVars
  <2>2. \A q \in Processes : dispatch'[q].step = "result" => dispatch'[q] = dispatch[q]
    BY <2>1 DEF Finish, NoDispatch, RunnerTypeOK, Dispatches
  <2> QED
    BY <2>1, <2>2, <1>1
<1>5. ASSUME NEW p \in Processes, Timeout(p) \/ Die(p)
      PROVE  FileInv'
  <2>1. /\ UNCHANGED <<work, accepted>> /\ GrantOf(p) \in Grants
        /\ \A q \in Processes : dispatch'[q].step = "result" => dispatch'[q] = dispatch[q]
    BY <1>5 DEF Timeout, Die, Finish, NoDispatch, RunnerTypeOK, TypeOK, GrantOf
  <2>2. \A g \in Grants :
            \/ agent'[g].step \in {"over", "failed"}
            \/ /\ agent'[g].step = agent[g].step /\ agent'[g].todo = agent[g].todo
               /\ agent'[g].hashes = agent[g].hashes /\ agent'[g].alone = agent[g].alone
    BY <1>5, <2>1 DEF Timeout, Die, RunnerTypeOK, Agents
  <2> QED
    BY <2>1, <2>2, LessWork DEF FileInv
<1>6. ASSUME NEW p \in Processes, NEW f \in Files, VerifyArtifact(p, f)
      PROVE  FileInv'
  <2>1. /\ UNCHANGED <<agent, work>> /\ dispatch[p].step = "result"
        /\ \/ accepted' = accepted
           \/ accepted' = [hashes |-> dispatch[p].hashes, alone |-> dispatch[p].alone]
    BY <1>6 DEF VerifyArtifact
  <2>2. \A q \in Processes : dispatch'[q].step = "result" =>
            /\ dispatch[q].step = "result"
            /\ dispatch'[q].hashes = dispatch[q].hashes /\ dispatch'[q].alone = dispatch[q].alone
    <3>1. /\ \A q \in Processes \ {p} : dispatch'[q] = dispatch[q]
          /\ dispatch'[p] \in {NoDispatch, [dispatch[p] EXCEPT !.todo = @ \ {f}]}
      BY <1>6 DEF VerifyArtifact, Finish, RunnerTypeOK
    <3>2. dispatch[p] \in Dispatches /\ NoDispatch.step # "result"
      BY DEF NoDispatch, RunnerTypeOK
    <3>3. dispatch'[p].step = "result" =>
              /\ dispatch'[p].hashes = dispatch[p].hashes
              /\ dispatch'[p].alone = dispatch[p].alone
      BY <3>1, <3>2 DEF Dispatches
    <3> QED
      BY <2>1, <3>1, <3>3
  <2>3. AtWork' = AtWork
    BY <2>1 DEF AtWork
  <2>4. Progress' /\ Alone'
    BY <2>1, <2>3 DEF FileInv, Progress, Alone
  <2>5. Handed'
    BY <2>1, <2>2, <2>3 DEF FileInv, Handed
  <2>6. Taken'
    BY <2>1, <2>3 DEF FileInv, Handed, Taken
  <2> QED
    BY <2>4, <2>5, <2>6 DEF FileInv
<1>7. ASSUME NEW g \in Grants, AgentFails(g)
      PROVE  FileInv'
  <2>1. /\ UNCHANGED <<work, accepted, dispatch>>
        /\ \A h \in Grants : h # g => agent'[h] = agent[h]
        /\ agent'[g].step = "failed"
    BY <1>7 DEF AgentFails, RunnerTypeOK, Agents
  <2> QED
    BY <2>1, LessWork DEF FileInv
<1> QED
  BY <1>2, <1>3, <1>4, <1>5, <1>6, <1>7, StartFiles, ReturnFiles, WriteFiles, HashFiles
  DEF RunnerNext, Runner, Agent

\* The invariant holds of every reachable state.
LEMMA RunnerInvariance == RunnerSpec => []RInv
<1>1. RInv /\ [RunnerNext]_<<vars, runnerVars>> => RInv'
  <2> SUFFICES ASSUME RInv, [RunnerNext]_<<vars, runnerVars>> PROVE RInv'
    OBVIOUS
  <2>1. IInv'
    BY RunnerStep, StepIInv DEF RInv
  <2> QED
    BY <2>1, StepTyped, StepPay, StepFiles DEF RInv
<1> QED
  BY InitRInv, <1>1, PTL DEF RunnerSpec

-----------------------------------------------------------------------------

\* Dispatches, agents and results have the types of the code.
THEOREM RunnerTyped == RunnerSpec => []RunnerTypeOK
<1>1. RInv => RunnerTypeOK
  BY DEF RInv
<1> QED
  BY <1>1, RunnerInvariance, PTL

\* A grant is worth one agent, and no agent is started without one.
THEOREM AgentsArePaid == RunnerSpec => []AgentsPaid
<1>1. RInv => AgentsPaid
  BY DEF RInv, PayInv
<1> QED
  BY <1>1, RunnerInvariance, PTL

\* Nobody leaves an agent at work but by dying.
THEOREM AgentsAreWatched == RunnerSpec => []AgentsWatched
<1>1. RInv => AgentsWatched
  BY DEF RInv, PayInv
<1> QED
  BY <1>1, RunnerInvariance, PTL

\* Results are complete, and true as long as no other agent was let in.
THEOREM ResultsAreTrue == RunnerSpec => []ResultsStand
<1>1. RInv => ResultsStand
  BY DEF RInv, FileInv, Handed, Taken, ResultsStand
<1> QED
  BY <1>1, RunnerInvariance, PTL
=============================================================================
