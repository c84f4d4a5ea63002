---------------------------- MODULE ServiceProofs ---------------------------
(***************************************************************************)
(* The service keeps its missions well-formed and sound between any two of *)
(* its writes, its stores ahead of its log and its log ahead of the saved  *)
(* mission, and its missions on the course of Lifecycle, for any goals,    *)
(* workers, clients, faults, crashes and bounds on them: proofs about      *)
(* ServiceProperties and ServiceWitness from ServiceInvariants, resting on *)
(* MissionProofs.                                                          *)
(***************************************************************************)
EXTENDS ServiceInvariants, ServiceWitness, MissionProofs, SequenceTheorems

\* Before the first call.
LEMMA InitIInv == Init => IInv
<1> SUFFICES ASSUME Init PROVE IInv
  OBVIOUS
<1> USE DEF Init
<1>1. MissionsValid /\ CallFits
  BY DEF MissionsValid, CallFits
<1>2. LogFits
  BY DEF LogFits, LogShape, EmptyLog
<1>3. StoresTyped
  BY BoundsAssumption DEF StoresTyped, CallTyped, GrantsTyped, StoreTyped, LedgerTyped, NoCall
<1> QED
  BY <1>1, <1>2, <1>3 DEF IInv

-----------------------------------------------------------------------------
(* The missions, call by call and write by write.                          *)

\* A call that ends leaves nothing to establish.
LEMMA Ended == MissionsValid /\ Release /\ UNCHANGED snap => MissionsValid' /\ CallFits'
BY DEF Release, MissionsValid, CallFits

\* A call that loads the snapshot starts from a valid record.
LEMMA Called ==
    ASSUME MissionsValid, NEW kind, NEW t, NEW arg, NEW next, Call(kind, t, arg, next),
           next # "idle"
    PROVE  /\ MissionsValid' /\ Valid(snap) /\ snap # NoMission
           /\ mem' = snap /\ pc' = next /\ pc = "idle" /\ snap' = snap /\ log' = log
           /\ op'.kind = kind /\ op'.task = t /\ op'.arg = arg
BY DEF Call, MissionsValid

\* A task of the present stage, with an operation of its stage.
LEMMA OperationStage ==
    ASSUME NEW m, NEW t, NEW operation, OperationTask(m, t, operation)
    PROVE  /\ t \in DOMAIN m.tasks /\ t \in CurrentTasks(m) /\ t.stage = Kind(m)
           /\ operation = "freeze-candidate" => Kind(m) = "implementation"
           /\ operation = "approve-candidate" => Kind(m) = "validation"
           /\ operation = "package-release" => Kind(m) = "release"
<1>1. t \in DOMAIN m.tasks /\ t \in CurrentTasks(m) /\ t.stage = Kind(m)
  BY DEF OperationTask, CurrentTasks, Current, TaskId
<1>2. operation \in OperationsFor(m.tasks[t], t.stage)
  BY DEF OperationTask
<1>3. /\ operation = "freeze-candidate" => t.stage = "implementation"
      /\ operation = "approve-candidate" => t.stage = "validation"
      /\ operation = "package-release" => t.stage = "release"
  BY <1>2 DEF OperationsFor
<1> QED
  BY <1>1, <1>3

\* Every call a client makes.
LEMMA ClientMissions == IInv /\ Client => MissionsValid' /\ CallFits'
<1> SUFFICES ASSUME IInv, Client PROVE MissionsValid' /\ CallFits'
  OBVIOUS
<1>0. MissionsValid
  BY DEF IInv
<1>1. ASSUME NEW g \in Goals, Start(g) PROVE MissionsValid' /\ CallFits'
  <2>1. Valid(mem') /\ pc' = "tasks" /\ snap' = snap
    BY <1>1, NewMissionValid DEF Start, Goto
  <2> QED
    BY <1>0, <2>1 DEF MissionsValid, CallFits
<1>2. ASSUME Status PROVE MissionsValid' /\ CallFits'
  <2>1. Call("status", None, None, "respond")
    BY <1>2 DEF Status
  <2> QED
    BY <1>0, <2>1, Called DEF CallFits
<1>3. ASSUME NEW g \in Goals, NEW instruction \in Instructions, Revise(g, instruction)
      PROVE  MissionsValid' /\ CallFits'
  <2>1. Call("revise", None, [goal |-> g, instruction |-> instruction], "invalidate")
    BY <1>3 DEF Revise
  <2>2. MissionsValid' /\ pc' = "invalidate" /\ op'.arg.goal = g
    BY <1>0, <2>1, Called
  <2> QED
    BY <2>2 DEF CallFits
<1>4. ASSUME NEW t \in DOMAIN snap.tasks, NEW payload \in Payloads[t.role], Submit(t, payload)
      PROVE  MissionsValid' /\ CallFits'
  <2>1. Call("submit", t, payload, "receive") /\ "submit" \in Commands[t.role]
    BY <1>4 DEF Submit, GrantedCall
  <2>2. /\ MissionsValid' /\ pc' = "receive" /\ op'.arg = payload /\ op'.task = t
        /\ mem' = snap /\ IsMission(snap)
    BY <1>0, <2>1, Called DEF Valid
  <2>3. t.role \in AllRoles
    BY <2>2 DEF IsMission, TaskIds
  <2>4. payload \in AllPayloads
    BY <2>3, BoundsAssumption
  <2> QED
    BY <2>2, <2>4 DEF CallFits
<1>5. ASSUME NEW t \in DOMAIN snap.tasks, Checkpoint(t) PROVE MissionsValid' /\ CallFits'
  <2>1. Call("checkpoint", t, None, "checkpoint")
    BY <1>5 DEF Checkpoint, GrantedCall
  <2>2. MissionsValid' /\ pc' = "checkpoint" /\ op'.task = t /\ mem' = snap
    BY <1>0, <2>1, Called
  <2> QED
    BY <2>2 DEF CallFits
<1>6. ASSUME NEW t \in DOMAIN snap.tasks, InterruptAttempt(t) PROVE MissionsValid' /\ CallFits'
  <2>1. Call("interrupt", t, None, "interrupt")
    BY <1>6 DEF InterruptAttempt, GrantedCall
  <2>2. MissionsValid' /\ pc' = "interrupt" /\ op'.task = t /\ mem' = snap
    BY <1>0, <2>1, Called
  <2> QED
    BY <2>2 DEF CallFits
<1>7. ASSUME NEW t \in DOMAIN snap.tasks, RetryAttempt(t) PROVE MissionsValid' /\ CallFits'
  <2>1. Call("retry", t, None, "retry")
    BY <1>7 DEF RetryAttempt, GrantedCall
  <2>2. MissionsValid' /\ pc' = "retry" /\ op'.task = t /\ mem' = snap
    BY <1>0, <2>1, Called
  <2> QED
    BY <2>2 DEF CallFits
<1>8. ASSUME NEW t \in DOMAIN snap.tasks, NEW content \in Contents, FreezeCandidate(t, content)
      PROVE  MissionsValid' /\ CallFits'
  <2>1. Call("freeze", t, content, "freeze") /\ OperationTask(snap, t, "freeze-candidate")
    BY <1>8 DEF FreezeCandidate, GrantedCall
  <2>2. MissionsValid' /\ pc' = "freeze" /\ op'.arg = content /\ mem' = snap
    BY <1>0, <2>1, Called
  <2>3. Kind(snap) = "implementation" /\ CurrentTasks(snap) # {}
    BY <2>1, OperationStage
  <2> QED
    BY <2>2, <2>3 DEF CallFits
<1>9. ASSUME NEW t \in DOMAIN snap.tasks, NEW type \in RequiredEvidence(snap.goal),
             NEW outcome \in {"pass", "fail", "refused"}, RecordEvidence(t, type, outcome)
      PROVE  MissionsValid' /\ CallFits'
  <2>1. /\ Call("evidence", t, [type |-> type, outcome |-> outcome], "examine")
        /\ snap.active # None
    BY <1>9 DEF RecordEvidence, GrantedCall
  <2>2. /\ MissionsValid' /\ pc' = "examine" /\ mem' = snap
        /\ op'.arg.type = type /\ op'.arg.outcome = outcome
    BY <1>0, <2>1, Called
  <2>3. type \in EvidenceTypes
    BY DEF RequiredEvidence, EvidenceTypes
  <2> QED
    BY <2>1, <2>2, <2>3 DEF CallFits
<1>10. ASSUME NEW t \in DOMAIN snap.tasks, ApproveCandidate(t) PROVE MissionsValid' /\ CallFits'
  <2>1. /\ Call("approve", t, None, "review") /\ OperationTask(snap, t, "approve-candidate")
        /\ snap.active # None
    BY <1>10 DEF ApproveCandidate
  <2>2. MissionsValid' /\ pc' = "review" /\ mem' = snap
    BY <1>0, <2>1, Called
  <2>3. Kind(snap) = "validation"
    BY <2>1, OperationStage
  <2> QED
    BY <2>1, <2>2, <2>3 DEF CallFits
<1>11. ASSUME NEW t \in DOMAIN snap.tasks, NEW packageable \in BOOLEAN,
              PackageRelease(t, packageable)
       PROVE  MissionsValid' /\ CallFits'
  <2>1. /\ Call("package", t, packageable, "pack")
        /\ OperationTask(snap, t, "package-release")
    BY <1>11 DEF PackageRelease, GrantedCall
  <2>2. MissionsValid' /\ pc' = "pack" /\ mem' = snap
    BY <1>0, <2>1, Called
  <2>3. Kind(snap) = "release"
    BY <2>1, OperationStage
  <2> QED
    BY <2>1, <2>2, <2>3 DEF CallFits
<1> QED
  BY <1>1, <1>2, <1>3, <1>4, <1>5, <1>6, <1>7, <1>8, <1>9, <1>10, <1>11 DEF Client

\* A call that goes on with a valid record.
LEMMA Continued ==
    MissionsValid /\ UNCHANGED snap /\ pc' # "idle" /\ Valid(mem') => MissionsValid'
BY DEF MissionsValid

\* Writes that belong to tasks and their attempts.
LEMMA TaskStepMissions ==
    /\ IInv
    /\ \/ ReceiveResult \/ AdvanceStage \/ IssueStageTask \/ StartAttempt
       \/ CheckpointAttempt \/ StopAttempt \/ ScheduleRetry \/ RestartAttempt
    => MissionsValid' /\ CallFits'
<1> SUFFICES ASSUME IInv PROVE
      /\ ReceiveResult => MissionsValid' /\ CallFits'
      /\ AdvanceStage => MissionsValid' /\ CallFits'
      /\ IssueStageTask => MissionsValid' /\ CallFits'
      /\ StartAttempt => MissionsValid' /\ CallFits'
      /\ CheckpointAttempt => MissionsValid' /\ CallFits'
      /\ StopAttempt => MissionsValid' /\ CallFits'
      /\ ScheduleRetry => MissionsValid' /\ CallFits'
      /\ RestartAttempt => MissionsValid' /\ CallFits'
  OBVIOUS
<1>0. MissionsValid /\ CallFits /\ LogFits /\ StoresTyped
  BY DEF IInv
<1>a. pc # "idle" => Valid(mem) /\ DOMAIN mem.tasks \subseteq DOMAIN log.tasks
  BY <1>0 DEF MissionsValid, LogFits
<1>1. ReceiveResult => MissionsValid' /\ CallFits'
  <2> SUFFICES ASSUME ReceiveResult PROVE MissionsValid' /\ CallFits'
    OBVIOUS
  <2>1. pc = "receive" /\ op.task \in DOMAIN mem.tasks /\ op.arg \in AllPayloads
    BY <1>0 DEF ReceiveResult, CallFits
  <2>2. CASE Abandon
    BY <1>0, <2>2, Ended DEF Abandon
  <2>3. CASE Goto("save") /\ UNCHANGED mem
    BY <1>0, <1>a, <2>1, <2>3, Continued DEF Goto, CallFits
  <2>4. CASE /\ op.arg.gate # "invalid" /\ Goto("advance")
             /\ mem' = Receive(mem, op.task, op.arg.gate, op.arg.digest)
    <3>1. op.arg.gate \in {"pass", "fail"} /\ op.arg.digest \in Digests \cup {None}
      BY <2>1, <2>4 DEF AllPayloads
    <3>2. Valid(mem')
      BY <1>a, <2>1, <2>4, <3>1, ReceiveValid
    <3> QED
      BY <1>0, <2>4, <3>2, Continued DEF Goto, CallFits
  <2> QED
    BY <2>2, <2>3, <2>4 DEF ReceiveResult
<1>2. AdvanceStage => MissionsValid' /\ CallFits'
  <2> SUFFICES ASSUME AdvanceStage PROVE MissionsValid' /\ CallFits'
    OBVIOUS
  <2>1. Valid(mem')
    BY <1>a, AdvanceValid DEF AdvanceStage
  <2> QED
    BY <1>0, <2>1, Continued DEF AdvanceStage, Goto, CallFits
<1>3. IssueStageTask => MissionsValid' /\ CallFits'
  <2> SUFFICES ASSUME IssueStageTask PROVE MissionsValid' /\ CallFits'
    OBVIOUS
  <2>1. CASE mem.completed \/ RolesWithoutTask(mem) = {}
    BY <1>0, <1>a, <2>1, Continued DEF IssueStageTask, Goto, CallFits
  <2>2. CASE ~(mem.completed \/ RolesWithoutTask(mem) = {})
    <3> DEFINE role == CHOOSE r \in RolesWithoutTask(mem) : TRUE
    <3>1. role \in RolesWithoutTask(mem)
      BY <2>2
    <3> HIDE DEF role
    <3>2. \/ Abandon
          \/ /\ mem' = IssueTask(mem, role) /\ op' = [op EXCEPT !.task = Current(mem, role)]
             /\ Goto("attempt")
      BY <2>2 DEF IssueStageTask, role
    <3>3. CASE Abandon
      BY <1>0, <3>3, Ended DEF Abandon
    <3>4. CASE /\ mem' = IssueTask(mem, role) /\ op' = [op EXCEPT !.task = Current(mem, role)]
               /\ Goto("attempt")
      <4>1. /\ Valid(mem') /\ Current(mem, role) \in DOMAIN mem'.tasks
            /\ mem'.tasks[Current(mem, role)].attempt = 1
        BY <1>a, <3>1, <3>4, IssueTaskValid DEF IssueStageTask
      <4>2. op'.task = Current(mem, role)
        BY <1>0, <3>4 DEF StoresTyped, CallTyped
      <4> QED
        BY <1>0, <3>4, <4>1, <4>2, Continued DEF Goto, CallFits
    <3> QED
      BY <3>2, <3>3, <3>4
  <2> QED
    BY <2>1, <2>2
<1>4. StartAttempt => MissionsValid' /\ CallFits'
  BY <1>0, <1>a, Continued DEF StartAttempt, Goto, CallFits
<1>5. CheckpointAttempt => MissionsValid' /\ CallFits'
  <2> SUFFICES ASSUME CheckpointAttempt PROVE MissionsValid' /\ CallFits'
    OBVIOUS
  <2>1. CASE Abandon
    BY <1>0, <2>1, Ended DEF Abandon
  <2>2. CASE Goto("respond") /\ UNCHANGED mem
    BY <1>0, <1>a, <2>2, Continued DEF CheckpointAttempt, Goto, CallFits
  <2> QED
    BY <2>1, <2>2 DEF CheckpointAttempt
<1>6. StopAttempt => MissionsValid' /\ CallFits'
  <2> SUFFICES ASSUME StopAttempt PROVE MissionsValid' /\ CallFits'
    OBVIOUS
  <2>1. Valid(mem')
    BY <1>0, <1>a, InterruptValid DEF StopAttempt, CallFits
  <2> QED
    BY <1>0, <2>1, Continued DEF StopAttempt, Goto, CallFits
<1>7. ScheduleRetry => MissionsValid' /\ CallFits'
  <2> SUFFICES ASSUME ScheduleRetry PROVE MissionsValid' /\ CallFits'
    OBVIOUS
  <2> DEFINE t == op.task
             s == log.tasks[t].attempts
  <2>1. /\ t \in DOMAIN mem.tasks /\ t \in DOMAIN log.tasks /\ s \in Seq(AttemptStatus)
        /\ DOMAIN log.tasks[t] = {"current", "attempts"} /\ "tasks" \in DOMAIN log
    BY <1>0, <1>a DEF ScheduleRetry, CallFits, LogFits, LogShape, EmptyLog
  <2>2. Len(s) \in Nat /\ FreshAttempt(log, t) = Len(s) + 1
    BY <2>1, LenProperties DEF FreshAttempt
  <2>3. /\ mem' = Retry(mem, t, Len(s) + 1) /\ op' = op /\ pc' = "restart" /\ snap' = snap
        /\ log' = RetryScheduled(log, t)
    BY <2>2 DEF ScheduleRetry, Goto
  <2>4. Valid(mem')
    BY <1>a, <2>1, <2>2, <2>3, RetryValid DEF ScheduleRetry
  <2>5. t \in DOMAIN mem'.tasks /\ mem'.tasks[t].attempt = Len(s) + 1
    <3>1. IsMission(mem)
      BY <1>a DEF ScheduleRetry, Valid
    <3>2. mem.tasks[t] \in Tasks
      BY <2>1, <3>1, TaskFields
    <3>3. /\ t \in DOMAIN mem'.tasks
          /\ mem'.tasks[t] = [mem.tasks[t] EXCEPT !.attempt = Len(s) + 1, !.status = "issued"]
      BY <2>1, <2>3, <3>1 DEF Retry, WithTask, IsMission
    <3> QED
      BY <3>2, <3>3 DEF Tasks
  <2>6. Len(log'.tasks[t].attempts) = Len(s) + 1
    <3>1. log'.tasks[t].attempts = Append(s, "scheduled")
      BY <2>1, <2>3 DEF RetryScheduled
    <3> QED
      BY <2>1, <3>1 DEF AttemptStatus
  <2> HIDE DEF s
  <2>7. CallFits'
    BY <2>2, <2>3, <2>5, <2>6 DEF CallFits
  <2> QED
    BY <1>0, <2>3, <2>4, <2>7, Continued
<1>8. RestartAttempt => MissionsValid' /\ CallFits'
  BY <1>0, <1>a, Continued DEF RestartAttempt, Goto, CallFits
<1> QED
  BY <1>1, <1>2, <1>3, <1>4, <1>5, <1>6, <1>7, <1>8

\* Writes that belong to steering and to the candidate.
LEMMA CandidateStepMissions ==
    /\ IInv
    /\ \/ InvalidateEvidence \/ SteerMission
       \/ FreezeSnapshot \/ BindFrozen \/ ExamineCandidate \/ AppendEvidence \/ NoteEvidence
       \/ ReviewCandidate \/ SaveDecision \/ MarkDecision
       \/ PackCandidate \/ SaveRelease \/ BindPackage
    => MissionsValid' /\ CallFits'
<1> SUFFICES ASSUME IInv PROVE
      /\ InvalidateEvidence => MissionsValid' /\ CallFits'
      /\ SteerMission => MissionsValid' /\ CallFits'
      /\ FreezeSnapshot => MissionsValid' /\ CallFits'
      /\ BindFrozen => MissionsValid' /\ CallFits'
      /\ ExamineCandidate => MissionsValid' /\ CallFits'
      /\ AppendEvidence => MissionsValid' /\ CallFits'
      /\ NoteEvidence => MissionsValid' /\ CallFits'
      /\ ReviewCandidate => MissionsValid' /\ CallFits'
      /\ SaveDecision => MissionsValid' /\ CallFits'
      /\ MarkDecision => MissionsValid' /\ CallFits'
      /\ PackCandidate => MissionsValid' /\ CallFits'
      /\ SaveRelease => MissionsValid' /\ CallFits'
      /\ BindPackage => MissionsValid' /\ CallFits'
  OBVIOUS
<1>0. MissionsValid /\ CallFits
  BY DEF IInv
<1>a. pc # "idle" => Valid(mem)
  BY <1>0 DEF MissionsValid
<1>b. Abandon => MissionsValid' /\ CallFits'
  BY <1>0, Ended DEF Abandon
<1>1. InvalidateEvidence => MissionsValid' /\ CallFits'
  BY <1>0, <1>a, Continued DEF InvalidateEvidence, Goto, CallFits
<1>2. SteerMission => MissionsValid' /\ CallFits'
  <2> SUFFICES ASSUME SteerMission PROVE MissionsValid' /\ CallFits'
    OBVIOUS
  <2>1. Abandon \/ (mem' = Steer(mem, op.arg.goal) /\ Goto("tasks"))
    BY DEF SteerMission
  <2>2. ASSUME mem' = Steer(mem, op.arg.goal), Goto("tasks") PROVE MissionsValid' /\ CallFits'
    <3>1. op.arg.goal \in Goals /\ Valid(mem)
      BY <1>0, <1>a DEF SteerMission, CallFits
    <3>2. Valid(mem')
      BY <2>2, <3>1, SteerValid
    <3> QED
      BY <1>0, <2>2, <3>2, Continued DEF Goto, CallFits
  <2> QED
    BY <1>b, <2>1, <2>2
<1>3. FreezeSnapshot => MissionsValid' /\ CallFits'
  <2> SUFFICES ASSUME FreezeSnapshot PROVE MissionsValid' /\ CallFits'
    OBVIOUS
  <2>1. Abandon \/ (Goto("bind") /\ UNCHANGED <<mem, op, log>>)
    BY DEF FreezeSnapshot
  <2>2. ASSUME Goto("bind"), UNCHANGED <<mem, op, log>> PROVE MissionsValid' /\ CallFits'
    BY <1>0, <1>a, <2>2, Continued DEF FreezeSnapshot, Goto, CallFits
  <2> QED
    BY <1>b, <2>1, <2>2
<1>4. BindFrozen => MissionsValid' /\ CallFits'
  <2> SUFFICES ASSUME BindFrozen PROVE MissionsValid' /\ CallFits'
    OBVIOUS
  <2> DEFINE c == CandidateId(op.arg, mem.goal)
  <2>1. Abandon \/ (mem' = BindCandidate(mem, c) /\ Goto("save"))
    BY DEF BindFrozen
  <2>2. ASSUME mem' = BindCandidate(mem, c), Goto("save") PROVE MissionsValid' /\ CallFits'
    <3>1. /\ Valid(mem) /\ op.arg \in Contents /\ Kind(mem) = "implementation"
          /\ CurrentTasks(mem) # {}
      BY <1>0, <1>a DEF BindFrozen, CallFits
    <3>2. c \in CandidateIds
      BY <3>1 DEF Valid, IsMission, CandidateIds
    <3>3. Valid(mem')
      BY <2>2, <3>1, <3>2, BindCandidateValid
    <3> QED
      BY <1>0, <2>2, <3>3, Continued DEF Goto, CallFits
  <2> QED
    BY <1>b, <2>1, <2>2
<1>5. ExamineCandidate => MissionsValid' /\ CallFits'
  <2> SUFFICES ASSUME ExamineCandidate PROVE MissionsValid' /\ CallFits'
    OBVIOUS
  <2>1. Abandon \/ (Goto("record") /\ UNCHANGED <<mem, op, log>>)
    BY DEF ExamineCandidate
  <2>2. ASSUME Goto("record"), UNCHANGED <<mem, op, log>> PROVE MissionsValid' /\ CallFits'
    BY <1>0, <1>a, <2>2, Continued DEF ExamineCandidate, Goto, CallFits
  <2> QED
    BY <1>b, <2>1, <2>2
<1>6. AppendEvidence => MissionsValid' /\ CallFits'
  <2> SUFFICES ASSUME AppendEvidence PROVE MissionsValid' /\ CallFits'
    OBVIOUS
  <2>1. Abandon \/ (Goto("note") /\ UNCHANGED <<mem, op, log>>)
    BY DEF AppendEvidence
  <2>2. ASSUME Goto("note"), UNCHANGED <<mem, op, log>> PROVE MissionsValid' /\ CallFits'
    BY <1>0, <1>a, <2>2, Continued DEF AppendEvidence, Goto, CallFits
  <2> QED
    BY <1>b, <2>1, <2>2
<1>7. NoteEvidence => MissionsValid' /\ CallFits'
  BY <1>0, <1>a, Continued DEF NoteEvidence, Goto, CallFits
<1>8. ReviewCandidate => MissionsValid' /\ CallFits'
  <2> SUFFICES ASSUME ReviewCandidate PROVE MissionsValid' /\ CallFits'
    OBVIOUS
  <2>1. Abandon \/ (Goto("decide") /\ UNCHANGED <<mem, op, log>>)
    BY DEF ReviewCandidate
  <2>2. ASSUME Goto("decide"), UNCHANGED <<mem, op, log>> PROVE MissionsValid' /\ CallFits'
    BY <1>0, <1>a, <2>2, Continued DEF ReviewCandidate, Goto, CallFits
  <2> QED
    BY <1>b, <2>1, <2>2
<1>9. SaveDecision => MissionsValid' /\ CallFits'
  BY <1>0, <1>a, Continued DEF SaveDecision, Goto, CallFits
<1>10. MarkDecision => MissionsValid' /\ CallFits'
  <2> SUFFICES ASSUME MarkDecision PROVE MissionsValid' /\ CallFits'
    OBVIOUS
  <2>1. Valid(mem')
    BY <1>0, <1>a, MarkApprovedValid DEF MarkDecision, CallFits
  <2> QED
    BY <1>0, <2>1, Continued DEF MarkDecision, Goto, CallFits
<1>11. PackCandidate => MissionsValid' /\ CallFits'
  <2> SUFFICES ASSUME PackCandidate PROVE MissionsValid' /\ CallFits'
    OBVIOUS
  <2>1. Abandon \/ (Goto("ready") /\ UNCHANGED <<mem, op, log>>)
    BY DEF PackCandidate
  <2>2. ASSUME Goto("ready"), UNCHANGED <<mem, op, log>> PROVE MissionsValid' /\ CallFits'
    BY <1>0, <1>a, <2>2, Continued DEF PackCandidate, Goto, CallFits
  <2> QED
    BY <1>b, <2>1, <2>2
<1>12. SaveRelease => MissionsValid' /\ CallFits'
  BY <1>0, <1>a, Continued DEF SaveRelease, Goto, CallFits
<1>13. BindPackage => MissionsValid' /\ CallFits'
  <2> SUFFICES ASSUME BindPackage PROVE MissionsValid' /\ CallFits'
    OBVIOUS
  <2>1. Abandon \/ (mem.approved /\ mem' = BindRelease(mem) /\ Goto("advance"))
    BY DEF BindPackage
  <2>2. ASSUME mem.approved, mem' = BindRelease(mem), Goto("advance")
        PROVE  MissionsValid' /\ CallFits'
    <3>1. Valid(mem')
      BY <1>0, <1>a, <2>2, BindReleaseValid DEF BindPackage, CallFits
    <3> QED
      BY <1>0, <2>2, <3>1, Continued DEF Goto, CallFits
  <2> QED
    BY <1>b, <2>1, <2>2
<1> QED
  BY <1>1, <1>2, <1>3, <1>4, <1>5, <1>6, <1>7, <1>8, <1>9, <1>10, <1>11, <1>12, <1>13

\* Saving, responding, dying, and what happens to the files.
LEMMA OtherMissions ==
    /\ IInv
    /\ SaveSnapshot \/ Respond \/ RefuseArguments \/ Crash \/ Environment \/ UNCHANGED vars
    => MissionsValid' /\ CallFits'
<1> SUFFICES ASSUME IInv PROVE
      /\ SaveSnapshot => MissionsValid' /\ CallFits'
      /\ Respond \/ RefuseArguments => MissionsValid' /\ CallFits'
      /\ Crash => MissionsValid' /\ CallFits'
      /\ Environment => MissionsValid' /\ CallFits'
      /\ UNCHANGED vars => MissionsValid' /\ CallFits'
  OBVIOUS
<1>0. MissionsValid /\ CallFits
  BY DEF IInv
<1>1. SaveSnapshot => MissionsValid' /\ CallFits'
  BY <1>0 DEF SaveSnapshot, MissionsValid, CallFits
<1>2. Respond \/ RefuseArguments => MissionsValid' /\ CallFits'
  BY <1>0, Ended DEF Respond, RefuseArguments, Abandon
<1>3. Crash => MissionsValid' /\ CallFits'
  BY <1>0, Ended DEF Crash
<1>4. UNCHANGED <<snap, mem, op, pc, log>> => MissionsValid' /\ CallFits'
  BY <1>0 DEF MissionsValid, CallFits
<1>5. Environment => UNCHANGED <<snap, mem, op, pc, log>>
  BY DEF Environment, Tamper, RewriteArtifact, AlterEvidence
<1> QED
  BY <1>1, <1>2, <1>3, <1>4, <1>5 DEF vars

\* Whatever happens next, the missions stay valid.
LEMMA MissionsStep == IInv /\ [Next]_vars => MissionsValid' /\ CallFits'
BY ClientMissions, TaskStepMissions, CandidateStepMissions, OtherMissions DEF Next, Step

-----------------------------------------------------------------------------
(* The log, event by event and write by write.                             *)

\* The projection after l is well-formed and knows the tasks that l knows.
Follows(l, next) == LogShape(next) /\ DOMAIN next.tasks = DOMAIN l.tasks

\* Events that are not about a task leave the tasks alone.
LEMMA MissionEvents ==
    ASSUME NEW l, LogShape(l), NEW stage, NEW rev \in Nat, NEW c, NEW type, NEW instruction
    PROVE  /\ Follows(l, MissionStarted(l, stage))
           /\ Follows(l, RevisionStarted(l, rev, stage, instruction))
           /\ Follows(l, StageAdvanced(l, stage)) /\ Follows(l, MissionCompleted(l))
           /\ Follows(l, CandidateFrozen(l, rev, c)) /\ Follows(l, QualityDecided(l, rev, c))
           /\ Follows(l, PackageCreated(l, rev, c)) /\ Follows(l, EvidenceRecorded(l, c, type))
BY DEF Follows, LogShape, EmptyLog, MissionStarted, RevisionStarted, StageAdvanced,
       MissionCompleted, CandidateFrozen, QualityDecided, PackageCreated, EvidenceRecorded

\* A task the log learns of has no attempts.
LEMMA TaskEvent ==
    ASSUME NEW l, LogShape(l), NEW t \in TaskIds
    PROVE  /\ LogShape(TaskIssued(l, t))
           /\ DOMAIN TaskIssued(l, t).tasks = DOMAIN l.tasks \cup {t}
BY DEF LogShape, EmptyLog, TaskIssued

\* An event about an attempt keeps the attempts of its task a sequence.
LEMMA AttemptEvents ==
    ASSUME NEW l, LogShape(l), NEW t \in DOMAIN l.tasks, NEW a
    PROVE  /\ Follows(l, RetryScheduled(l, t)) /\ Follows(l, CheckpointRecorded(l, t, a))
           /\ Follows(l, AttemptInterrupted(l, t, a)) /\ Follows(l, ResultReceived(l, t, a))
           /\ a = 1 \/ a \in 1..Len(l.tasks[t].attempts) => Follows(l, AttemptStarted(l, t, a))
<1> DEFINE s == l.tasks[t].attempts
           With(z) == [l.tasks EXCEPT ![t].attempts = z]
<1>1. /\ DOMAIN l = DOMAIN EmptyLog /\ l.rev \in Nat /\ DOMAIN l.tasks \subseteq TaskIds
      /\ s \in Seq(AttemptStatus) /\ DOMAIN l.tasks[t] = {"current", "attempts"}
  BY DEF LogShape
<1>2. {"scheduled", "running", "interrupted", "completed"} \subseteq AttemptStatus
  BY DEF AttemptStatus
<1>3. ASSUME NEW next, NEW record, DOMAIN next = DOMAIN l, next.rev = l.rev,
             next.tasks = [l.tasks EXCEPT ![t] = record],
             DOMAIN record = {"current", "attempts"}, record.attempts \in Seq(AttemptStatus)
      PROVE  Follows(l, next)
  BY <1>1, <1>3 DEF Follows, LogShape
<1>4. Follows(l, CheckpointRecorded(l, t, a))
  BY DEF CheckpointRecorded, Follows, LogShape, EmptyLog
<1>5. ASSUME NEW z \in Seq(AttemptStatus), NEW next, DOMAIN next = DOMAIN l,
             next.rev = l.rev, next.tasks = With(z)
      PROVE  Follows(l, next)
  <2>1. /\ DOMAIN [l.tasks[t] EXCEPT !.attempts = z] = {"current", "attempts"}
        /\ [l.tasks[t] EXCEPT !.attempts = z].attempts = z
    BY <1>1
  <2>2. next.tasks = [l.tasks EXCEPT ![t] = [l.tasks[t] EXCEPT !.attempts = z]]
    BY <1>5
  <2> QED
    BY <1>3, <1>5, <2>1, <2>2
<1>6. Follows(l, RetryScheduled(l, t))
  <2> DEFINE next == RetryScheduled(l, t)
  <2>1. Append(s, "scheduled") \in Seq(AttemptStatus)
    BY <1>1, <1>2
  <2>2. /\ DOMAIN next = DOMAIN l /\ next.rev = l.rev
        /\ next.tasks = With(Append(s, "scheduled"))
    BY <1>1 DEF RetryScheduled, EmptyLog
  <2> HIDE DEF next, With, s
  <2>3. Follows(l, next)
    BY <1>5, <2>1, <2>2
  <2> QED
    BY <2>3 DEF next
<1>7. ASSUME NEW status \in AttemptStatus PROVE [s EXCEPT ![a] = status] \in Seq(AttemptStatus)
  <2>1. CASE a \in 1..Len(s)
    BY <1>1, <2>1, ExceptSeq
  <2>2. CASE a \notin 1..Len(s)
    <3>1. a \notin DOMAIN s /\ s = [i \in DOMAIN s |-> s[i]]
      BY <1>1, <2>2, LenProperties
    <3>2. [s EXCEPT ![a] = status] = s
      BY <3>1
    <3> QED
      BY <1>1, <3>2
  <2> QED
    BY <2>1, <2>2
<1>8. Follows(l, AttemptInterrupted(l, t, a)) /\ Follows(l, ResultReceived(l, t, a))
  <2> DEFINE next1 == AttemptInterrupted(l, t, a)
             next2 == ResultReceived(l, t, a)
  <2>1. /\ [s EXCEPT ![a] = "interrupted"] \in Seq(AttemptStatus)
        /\ [s EXCEPT ![a] = "completed"] \in Seq(AttemptStatus)
    BY <1>2, <1>7
  <2>2. /\ DOMAIN next1 = DOMAIN l /\ next1.rev = l.rev
        /\ next1.tasks = With([s EXCEPT ![a] = "interrupted"])
    BY <1>1 DEF AttemptInterrupted, EmptyLog
  <2>3. /\ DOMAIN next2 = DOMAIN l /\ next2.rev = l.rev
        /\ next2.tasks = With([s EXCEPT ![a] = "completed"])
    BY <1>1 DEF ResultReceived, EmptyLog
  <2> HIDE DEF next1, next2, With, s
  <2>4. Follows(l, next1) /\ Follows(l, next2)
    BY <1>5, <2>1, <2>2, <2>3
  <2> QED
    BY <2>4 DEF next1, next2
<1>9. ASSUME a = 1 \/ a \in 1..Len(s) PROVE Follows(l, AttemptStarted(l, t, a))
  <2> DEFINE z == [i \in DOMAIN s \cup {a} |-> IF i = a THEN "running" ELSE s[i]]
             n == IF Len(s) = 0 THEN 1 ELSE Len(s)
  <2>1. Len(s) \in Nat /\ DOMAIN s = 1..Len(s) /\ \A i \in 1..Len(s) : s[i] \in AttemptStatus
    BY <1>1
  <2>2. n \in Nat /\ DOMAIN s \cup {a} = 1..n
    BY <1>9, <2>1
  <2>3. z \in [1..n -> AttemptStatus]
    BY <1>2, <2>1, <2>2
  <2>4. z \in Seq(AttemptStatus)
    BY <2>2, <2>3, SeqDef
  <2> DEFINE next == AttemptStarted(l, t, a)
  <2>5. /\ DOMAIN next = DOMAIN l /\ next.rev = l.rev
        /\ next.tasks = [l.tasks EXCEPT ![t] = [current |-> a, attempts |-> z]]
    BY <1>1 DEF AttemptStarted, EmptyLog
  <2> HIDE DEF next, z
  <2>6. Follows(l, next)
    BY <1>3, <1>9, <2>4, <2>5
  <2> QED
    BY <2>6 DEF next
<1> QED
  BY <1>4, <1>6, <1>8, <1>9

\* No operation on a mission but issuing a task changes which tasks there are.
LEMMA TasksKept ==
    ASSUME NEW m, IsMission(m)
    PROVE  /\ \A t \in DOMAIN m.tasks : \A gate, digest :
                  DOMAIN Receive(m, t, gate, digest).tasks = DOMAIN m.tasks
           /\ \A t \in DOMAIN m.tasks : DOMAIN Interrupt(m, t).tasks = DOMAIN m.tasks
           /\ \A t \in DOMAIN m.tasks : \A attempt :
                  DOMAIN Retry(m, t, attempt).tasks = DOMAIN m.tasks
           /\ DOMAIN Advance(m).tasks = DOMAIN m.tasks
           /\ \A g : DOMAIN Steer(m, g).tasks = DOMAIN m.tasks
           /\ \A c : DOMAIN BindCandidate(m, c).tasks = DOMAIN m.tasks
           /\ DOMAIN MarkApproved(m).tasks = DOMAIN m.tasks
           /\ DOMAIN BindRelease(m).tasks = DOMAIN m.tasks
           /\ \A role : DOMAIN IssueTask(m, role).tasks
                           = DOMAIN m.tasks \cup {Current(m, role)}
BY DEF IsMission, Receive, Interrupt, Retry, WithTask, Advance, Steer, NewMission, BindCandidate,
       MarkApproved, BindRelease, IssueTask

\* What a write has to show of the log: nothing is forgotten.
LEMMA Logged ==
    ASSUME LogFits, LogShape(log'), DOMAIN log.tasks \subseteq DOMAIN log'.tasks, snap' = snap,
           pc' = "idle" \/ DOMAIN mem'.tasks \subseteq DOMAIN log'.tasks
    PROVE  LogFits'
BY DEF LogFits

\* A step that writes neither the log nor the snapshot keeps the log fitting them.
LEMMA Unlogged ==
    ASSUME LogFits, UNCHANGED <<log, snap>>,
           \/ pc' = "idle"
           \/ snap # NoMission /\ mem' = snap
           \/ pc # "idle" /\ DOMAIN mem'.tasks = DOMAIN mem.tasks
    PROVE  LogFits'
BY DEF LogFits

\* Every step keeps the log ahead of the missions.
LEMMA LogStep == IInv /\ [Next]_vars => LogFits'
<1> SUFFICES ASSUME IInv, [Next]_vars PROVE LogFits'
  OBVIOUS
<1>0. MissionsValid /\ CallFits /\ LogFits /\ LogShape(log)
  BY DEF IInv, LogFits
<1>a. /\ pc # "idle" => /\ IsMission(mem) /\ DOMAIN mem.tasks \subseteq DOMAIN log.tasks
      /\ mem.rev \in Nat \/ pc = "idle"
  BY <1>0 DEF MissionsValid, LogFits, Valid, IsMission
<1>b. Abandon => LogFits'
  BY <1>0, Unlogged DEF Abandon, Release
<1>c. ASSUME NEW kind, NEW t, NEW arg, NEW next, Call(kind, t, arg, next) PROVE LogFits'
  BY <1>0, <1>c, Unlogged DEF Call
<1>d. ASSUME NEW next, Goto(next), UNCHANGED <<mem, log>>, pc # "idle" PROVE LogFits'
  BY <1>0, <1>d, Unlogged DEF Goto
<1>e. ASSUME NEW next, Goto(next), pc # "idle", Follows(log, log'),
             DOMAIN mem'.tasks = DOMAIN mem.tasks
      PROVE  LogFits'
  BY <1>0, <1>a, <1>e, Logged DEF Goto, Follows
<1>1. CASE Client
  <2>1. ASSUME NEW g \in Goals, Start(g) PROVE LogFits'
    <3>1. Follows(log, log')
      BY <1>0, <2>1, MissionEvents DEF Start
    <3>2. DOMAIN mem'.tasks = {} /\ snap' = snap
      BY <2>1 DEF Start, NewMission, Goto
    <3> QED
      BY <1>0, <3>1, <3>2, Logged DEF Follows
  <2> QED
    BY <1>1, <1>c, <2>1 DEF Client, Status, Revise, Submit, Checkpoint, InterruptAttempt,
       RetryAttempt, FreezeCandidate, RecordEvidence, ApproveCandidate, PackageRelease,
       GrantedCall
<1>2. CASE ReceiveResult
  <2>1. pc = "receive" /\ op.task \in DOMAIN mem.tasks /\ op.task \in DOMAIN log.tasks
    BY <1>0, <1>2, <1>a DEF ReceiveResult, CallFits
  <2>2. CASE /\ mem' = Receive(mem, op.task, op.arg.gate, op.arg.digest) /\ Goto("advance")
             /\ log' = ResultReceived(log, op.task, mem.tasks[op.task].attempt)
    <3>1. Follows(log, log')
      BY <1>0, <2>1, <2>2, AttemptEvents
    <3>2. DOMAIN mem'.tasks = DOMAIN mem.tasks
      BY <1>a, <2>1, <2>2, TasksKept
    <3> QED
      BY <1>e, <2>1, <2>2, <3>1, <3>2
  <2> QED
    BY <1>2, <1>b, <1>d, <2>1, <2>2 DEF ReceiveResult
<1>3. CASE AdvanceStage
  <2>1. DOMAIN mem'.tasks = DOMAIN mem.tasks
    BY <1>3, <1>a, TasksKept DEF AdvanceStage
  <2>2. Follows(log, log')
    <3>1. \/ log' = log \/ log' = MissionCompleted(log)
          \/ log' = StageAdvanced(log, Kind(Advance(mem)))
      BY <1>3 DEF AdvanceStage
    <3>2. Follows(log, log)
      BY <1>0 DEF Follows
    <3> QED
      BY <1>0, <3>1, <3>2, MissionEvents
  <2> QED
    BY <1>3, <1>e, <2>1, <2>2 DEF AdvanceStage
<1>4. CASE IssueStageTask
  <2>1. CASE mem.completed \/ RolesWithoutTask(mem) = {}
    BY <1>4, <1>d, <2>1 DEF IssueStageTask
  <2>2. CASE ~(mem.completed \/ RolesWithoutTask(mem) = {})
    <3> DEFINE role == CHOOSE r \in RolesWithoutTask(mem) : TRUE
               t == Current(mem, role)
    <3>1. role \in RolesWithoutTask(mem) /\ Valid(mem)
      BY <1>0, <1>4, <2>2 DEF MissionsValid, IssueStageTask
    <3> HIDE DEF role
    <3>2. \/ Abandon
          \/ mem' = IssueTask(mem, role) /\ log' = TaskIssued(log, t) /\ Goto("attempt")
      BY <1>4, <2>2 DEF IssueStageTask, role
    <3>3. CASE /\ mem' = IssueTask(mem, role) /\ log' = TaskIssued(log, t)
               /\ Goto("attempt")
      <4>1. t \in TaskIds
        BY <3>1, IssueTaskValid
      <4>2. LogShape(log') /\ DOMAIN log'.tasks = DOMAIN log.tasks \cup {t}
        BY <1>0, <3>3, <4>1, TaskEvent
      <4>3. DOMAIN mem'.tasks = DOMAIN mem.tasks \cup {t}
        BY <1>4, <1>a, <3>3, TasksKept DEF IssueStageTask
      <4> QED
        BY <1>0, <1>4, <1>a, <3>3, <4>2, <4>3, Logged DEF IssueStageTask, Goto
    <3> QED
      BY <1>b, <3>2, <3>3
  <2> QED
    BY <2>1, <2>2
<1>5. CASE StartAttempt \/ RestartAttempt
  <2> DEFINE t == op.task
             a == mem.tasks[t].attempt
  <2>1. /\ pc # "idle" /\ t \in DOMAIN mem.tasks /\ t \in DOMAIN log.tasks
        /\ a = 1 \/ a \in 1..Len(log.tasks[t].attempts)
    BY <1>0, <1>5, <1>a DEF StartAttempt, RestartAttempt, CallFits
  <2>2. Follows(log, AttemptStarted(log, t, a))
    BY <1>0, <2>1, AttemptEvents
  <2> QED
    BY <1>5, <1>e, <2>1, <2>2 DEF StartAttempt, RestartAttempt
<1>6. CASE CheckpointAttempt
  <2>1. pc # "idle" /\ op.task \in DOMAIN log.tasks
    BY <1>0, <1>6, <1>a DEF CheckpointAttempt, CallFits
  <2>2. Follows(log, CheckpointRecorded(log, op.task, mem.tasks[op.task].attempt))
    BY <1>0, <2>1, AttemptEvents
  <2> QED
    BY <1>6, <1>b, <1>e, <2>1, <2>2 DEF CheckpointAttempt
<1>7. CASE StopAttempt
  <2>1. pc # "idle" /\ op.task \in DOMAIN mem.tasks /\ op.task \in DOMAIN log.tasks
    BY <1>0, <1>7, <1>a DEF StopAttempt, CallFits
  <2>2. Follows(log, log')
    BY <1>0, <1>7, <2>1, AttemptEvents DEF StopAttempt
  <2>3. DOMAIN mem'.tasks = DOMAIN mem.tasks
    BY <1>7, <1>a, <2>1, TasksKept DEF StopAttempt
  <2> QED
    BY <1>7, <1>e, <2>1, <2>2, <2>3 DEF StopAttempt
<1>8. CASE ScheduleRetry
  <2>1. pc # "idle" /\ op.task \in DOMAIN mem.tasks /\ op.task \in DOMAIN log.tasks
    BY <1>0, <1>8, <1>a DEF ScheduleRetry, CallFits
  <2>2. Follows(log, log')
    BY <1>0, <1>8, <2>1, AttemptEvents DEF ScheduleRetry
  <2>3. DOMAIN mem'.tasks = DOMAIN mem.tasks
    BY <1>8, <1>a, <2>1, TasksKept DEF ScheduleRetry
  <2> QED
    BY <1>8, <1>e, <2>1, <2>2, <2>3 DEF ScheduleRetry
<1>9. CASE SteerMission
  <2>1. ASSUME mem' = Steer(mem, op.arg.goal), Goto("tasks"),
               log' = RevisionStarted(log, mem.rev + 1, Kind(Steer(mem, op.arg.goal)),
                                      op.arg.instruction)
        PROVE  LogFits'
    <3>1. pc # "idle" /\ mem.rev + 1 \in Nat
      BY <1>9, <1>a DEF SteerMission
    <3>2. Follows(log, log')
      BY <1>0, <2>1, <3>1, MissionEvents
    <3>3. DOMAIN mem'.tasks = DOMAIN mem.tasks
      BY <1>a, <2>1, <3>1, TasksKept
    <3> QED
      BY <1>e, <2>1, <3>1, <3>2, <3>3
  <2> QED
    BY <1>9, <1>b, <2>1 DEF SteerMission
<1>10. CASE BindFrozen
  <2> DEFINE c == CandidateId(op.arg, mem.goal)
  <2>1. ASSUME mem' = BindCandidate(mem, c), Goto("save"), log' = CandidateFrozen(log, mem.rev, c)
        PROVE  LogFits'
    <3>1. pc # "idle" /\ mem.rev \in Nat
      BY <1>10, <1>a DEF BindFrozen
    <3>2. Follows(log, log')
      BY <1>0, <2>1, <3>1, MissionEvents
    <3>3. DOMAIN mem'.tasks = DOMAIN mem.tasks
      BY <1>a, <2>1, <3>1, TasksKept
    <3> QED
      BY <1>e, <2>1, <3>1, <3>2, <3>3
  <2> QED
    BY <1>10, <1>b, <2>1 DEF BindFrozen
<1>11. CASE MarkDecision
  <2>1. Follows(log, log')
    BY <1>0, <1>11, <1>a, MissionEvents DEF MarkDecision
  <2>2. DOMAIN mem'.tasks = DOMAIN mem.tasks
    BY <1>11, <1>a, TasksKept DEF MarkDecision
  <2> QED
    BY <1>11, <1>e, <2>1, <2>2 DEF MarkDecision
<1>12. CASE BindPackage
  <2>1. ASSUME mem' = BindRelease(mem), Goto("advance"),
               log' = PackageCreated(log, mem.rev, mem.active)
        PROVE  LogFits'
    <3>1. pc # "idle" /\ mem.rev \in Nat
      BY <1>12, <1>a DEF BindPackage
    <3>2. Follows(log, log')
      BY <1>0, <2>1, <3>1, MissionEvents
    <3>3. DOMAIN mem'.tasks = DOMAIN mem.tasks
      BY <1>a, <2>1, <3>1, TasksKept
    <3> QED
      BY <1>e, <2>1, <3>1, <3>2, <3>3
  <2> QED
    BY <1>12, <1>b, <2>1 DEF BindPackage
<1>13. CASE NoteEvidence
  <2>1. Follows(log, log')
    BY <1>0, <1>13, MissionEvents DEF NoteEvidence
  <2> QED
    BY <1>13, <1>e, <2>1 DEF NoteEvidence
<1>14. CASE InvalidateEvidence \/ FreezeSnapshot \/ ExamineCandidate \/ AppendEvidence
  BY <1>14, <1>b, <1>d DEF InvalidateEvidence, FreezeSnapshot, ExamineCandidate, AppendEvidence
<1>15. CASE ReviewCandidate \/ SaveDecision \/ PackCandidate \/ SaveRelease
  BY <1>15, <1>b, <1>d DEF ReviewCandidate, SaveDecision, PackCandidate, SaveRelease
<1>16. CASE SaveSnapshot \/ Respond \/ RefuseArguments
  BY <1>0, <1>16, <1>a, <1>b DEF SaveSnapshot, Respond, RefuseArguments, LogFits
<1>17. CASE Crash
  <2>1. LogShape(EmptyLog)
    BY DEF LogShape, EmptyLog
  <2> QED
    BY <1>0, <1>17, <2>1 DEF Crash, Release, LogFits
<1>18. CASE Environment \/ UNCHANGED vars
  <2>1. UNCHANGED <<snap, mem, pc, log>>
    BY <1>18 DEF Environment, Tamper, RewriteArtifact, AlterEvidence, vars
  <2> QED
    BY <1>0, <2>1 DEF LogFits
<1> QED
  BY <1>1, <1>2, <1>3, <1>4, <1>5, <1>6, <1>7, <1>8, <1>9, <1>10, <1>11, <1>12, <1>13, <1>14,
     <1>15, <1>16, <1>17, <1>18 DEF Next, Step

-----------------------------------------------------------------------------
(* The other stores.                                                       *)

\* The running call.
LEMMA CallStep == IInv /\ [Next]_vars => CallTyped'
<1> SUFFICES ASSUME IInv, [Next]_vars PROVE CallTyped'
  OBVIOUS
<1>0. CallTyped /\ MissionsValid /\ MaxCrashes \in Nat /\ crashes \in Nat
  BY BoundsAssumption DEF IInv, StoresTyped, CallTyped
<1>a. UNCHANGED <<op, crashes>> => CallTyped'
  BY <1>0 DEF CallTyped
<1>b. Abandon => CallTyped'
  BY <1>0 DEF Abandon, Release, NoCall, CallTyped
<1>c. ASSUME NEW kind, NEW t, NEW arg, NEW next, Call(kind, t, arg, next),
             t = None \/ t \in DOMAIN snap.tasks
      PROVE  CallTyped'
  <2>1. t \in TaskIds \cup {None}
    BY <1>0, <1>c DEF Call, MissionsValid, Valid, IsMission
  <2> QED
    BY <1>0, <1>c, <2>1 DEF Call, CallTyped
<1>1. CASE Client
  <2>1. ASSUME NEW g \in Goals, Start(g) PROVE CallTyped'
    BY <1>0, <2>1 DEF Start, Goto, CallTyped
  <2> QED
    BY <1>1, <1>c, <2>1 DEF Client, Status, Revise, Submit, Checkpoint, InterruptAttempt,
       RetryAttempt, FreezeCandidate, RecordEvidence, ApproveCandidate, PackageRelease,
       GrantedCall
<1>2. CASE IssueStageTask
  <2>1. CASE mem.completed \/ RolesWithoutTask(mem) = {}
    BY <1>2, <1>a, <2>1 DEF IssueStageTask, Goto
  <2>2. CASE ~(mem.completed \/ RolesWithoutTask(mem) = {})
    <3> DEFINE role == CHOOSE r \in RolesWithoutTask(mem) : TRUE
               t == Current(mem, role)
    <3>1. role \in RolesWithoutTask(mem) /\ Valid(mem)
      BY <1>0, <1>2, <2>2 DEF MissionsValid, IssueStageTask
    <3> HIDE DEF role
    <3>2. Abandon \/ (op' = [op EXCEPT !.task = t] /\ Goto("attempt"))
      BY <1>2, <2>2 DEF IssueStageTask, role
    <3>3. t \in TaskIds
      BY <3>1, IssueTaskValid
    <3> QED
      BY <1>0, <1>b, <3>2, <3>3 DEF Goto, CallTyped
  <2> QED
    BY <2>1, <2>2
<1>3. CASE \/ ReceiveResult \/ AdvanceStage \/ StartAttempt \/ CheckpointAttempt \/ StopAttempt
           \/ ScheduleRetry \/ RestartAttempt \/ InvalidateEvidence \/ SteerMission
           \/ RefuseArguments
  BY <1>3, <1>a, <1>b DEF RefuseArguments, ReceiveResult, AdvanceStage, StartAttempt,
     CheckpointAttempt, StopAttempt, ScheduleRetry, RestartAttempt, InvalidateEvidence,
     SteerMission, Goto
<1>4. CASE FreezeSnapshot \/ BindFrozen \/ ExamineCandidate \/ AppendEvidence \/ NoteEvidence
  BY <1>4, <1>a, <1>b DEF FreezeSnapshot, BindFrozen, ExamineCandidate, AppendEvidence,
     NoteEvidence, Goto
<1>5. CASE \/ ReviewCandidate \/ SaveDecision \/ MarkDecision \/ PackCandidate \/ SaveRelease
           \/ BindPackage \/ SaveSnapshot \/ Respond
  BY <1>5, <1>a, <1>b DEF ReviewCandidate, SaveDecision, MarkDecision, PackCandidate,
     SaveRelease, BindPackage, SaveSnapshot, Respond, Goto
<1>6. CASE Crash
  BY <1>0, <1>6 DEF Crash, Release, NoCall, CallTyped
<1>7. CASE Environment \/ UNCHANGED vars
  BY <1>7, <1>a DEF Environment, Tamper, RewriteArtifact, AlterEvidence, vars
<1> QED
  BY <1>1, <1>2, <1>3, <1>4, <1>5, <1>6, <1>7 DEF Next, Step

\* A response issues grants for tasks of the mission only.
LEMMA GrantsIssued ==
    ASSUME NEW m, IsMission(m), NEW g \in FreshGrants(m)
    PROVE  /\ g.task \in TaskIds /\ g.operation \in Operations
           /\ g.attempt \in Nat \ {0} /\ g.cand \in CandidateIds \cup {None}
<1>1. PICK t \in OpenTasks(m), operation \in Operations : g = GrantFor(m, t, operation)
  BY DEF FreshGrants, Spendable
<1>2. t \in DOMAIN m.tasks
  BY DEF OpenTasks, CurrentTasks
<1> QED
  BY <1>1, <1>2, TaskFields DEF GrantFor

\* Grants are spent and revoked, and issued by responses.
LEMMA GrantsStep == IInv /\ [Next]_vars => GrantsTyped'
<1> SUFFICES ASSUME IInv, [Next]_vars PROVE GrantsTyped'
  OBVIOUS
<1>0. GrantsTyped /\ MissionsValid
  BY DEF IInv, StoresTyped
<1>a. grants' \subseteq grants => GrantsTyped'
  BY <1>0 DEF GrantsTyped
<1>1. CASE Client
  BY <1>1, <1>a DEF Client, Start, Status, Revise, Submit, Checkpoint, InterruptAttempt,
     RetryAttempt, FreezeCandidate, RecordEvidence, ApproveCandidate, PackageRelease, GrantedCall
<1>2. CASE Respond
  <2>1. IsMission(mem)
    BY <1>0, <1>2 DEF Respond, MissionsValid, Valid
  <2>2. grants' \subseteq grants \cup FreshGrants(mem)
    BY <1>2 DEF Respond, Reissued
  <2> QED
    BY <1>0, <2>1, <2>2, GrantsIssued DEF GrantsTyped
<1>3. CASE \/ ReceiveResult \/ AdvanceStage \/ IssueStageTask \/ StartAttempt
           \/ CheckpointAttempt \/ StopAttempt \/ ScheduleRetry \/ RestartAttempt
           \/ RefuseArguments
  BY <1>3, <1>a DEF RefuseArguments, ReceiveResult, AdvanceStage, IssueStageTask, StartAttempt,
     CheckpointAttempt, StopAttempt, ScheduleRetry, RestartAttempt
<1>4. CASE \/ InvalidateEvidence \/ SteerMission \/ FreezeSnapshot \/ BindFrozen
           \/ ExamineCandidate \/ AppendEvidence \/ NoteEvidence
  BY <1>4, <1>a DEF InvalidateEvidence, SteerMission, FreezeSnapshot, BindFrozen,
     ExamineCandidate, AppendEvidence, NoteEvidence
<1>5. CASE \/ ReviewCandidate \/ SaveDecision \/ MarkDecision \/ PackCandidate \/ SaveRelease
           \/ BindPackage \/ SaveSnapshot
  BY <1>5, <1>a DEF ReviewCandidate, SaveDecision, MarkDecision, PackCandidate, SaveRelease,
     BindPackage, SaveSnapshot
<1>6. CASE Crash \/ Environment \/ UNCHANGED vars
  BY <1>6, <1>a DEF Crash, Environment, Tamper, RewriteArtifact, AlterEvidence, vars
<1> QED
  BY <1>1, <1>2, <1>3, <1>4, <1>5, <1>6 DEF Next, Step

\* Candidates appear frozen, and then only their state and their files change.
LEMMA StoreStep == IInv /\ [Next]_vars => StoreTyped'
<1> SUFFICES ASSUME IInv, [Next]_vars PROVE StoreTyped'
  OBVIOUS
<1>0. StoreTyped /\ MissionsValid /\ CallFits
  BY DEF IInv, StoresTyped
<1>a. store' = store => StoreTyped'
  BY <1>0 DEF StoreTyped
<1>b. ASSUME NEW c, NEW state \in CandidateStates, SetState(c, state) PROVE StoreTyped'
  BY <1>0, <1>b DEF SetState, StoreTyped
<1>c. ASSUME NEW c, MarkCorrupt(c) PROVE StoreTyped'
  BY <1>a, <1>b, <1>c DEF MarkCorrupt, CandidateStates
<1>1. CASE Client
  BY <1>1, <1>a DEF Client, Start, Status, Revise, Submit, Checkpoint, InterruptAttempt,
     RetryAttempt, FreezeCandidate, RecordEvidence, ApproveCandidate, PackageRelease, GrantedCall,
     Call
<1>2. CASE FreezeSnapshot
  <2> DEFINE c == CandidateId(op.arg, mem.goal)
             new == [rev |-> mem.rev, state |-> "FROZEN", intact |-> TRUE]
  <2>1. c \in CandidateIds /\ mem.rev \in Nat \ {0}
    BY <1>0, <1>2 DEF FreezeSnapshot, CallFits, MissionsValid, Valid, IsMission, CandidateIds
  <2>2. new \in [rev : Nat \ {0}, state : CandidateStates, intact : BOOLEAN]
    BY <2>1 DEF CandidateStates
  <2>3. \/ store' = store
        \/ store' = [d \in DOMAIN store \cup {c} |-> IF d = c THEN new ELSE store[d]]
    BY <1>2 DEF FreezeSnapshot
  <2> HIDE DEF c, new
  <2> QED
    BY <1>0, <1>a, <2>1, <2>2, <2>3 DEF StoreTyped
<1>3. CASE ExamineCandidate
  <2>1. CASE Verified(mem, mem.active)
    <3>1. StateOnEvidence(store[mem.active].state) \in CandidateStates
      BY <1>0, <2>1 DEF Verified, StoreTyped, StateOnEvidence, CandidateStates
    <3> QED
      BY <1>3, <1>b, <1>c, <3>1 DEF ExamineCandidate
  <2>2. CASE ~Verified(mem, mem.active)
    BY <1>3, <1>c, <2>2 DEF ExamineCandidate
  <2> QED
    BY <2>1, <2>2
<1>4. CASE SaveDecision \/ SaveRelease
  BY <1>4, <1>b DEF SaveDecision, SaveRelease, CandidateStates
<1>5. CASE BindFrozen \/ ReviewCandidate \/ PackCandidate \/ Respond
  BY <1>5, <1>a, <1>c DEF BindFrozen, ReviewCandidate, PackCandidate, Respond
<1>6. CASE \/ ReceiveResult \/ AdvanceStage \/ IssueStageTask \/ StartAttempt
           \/ CheckpointAttempt \/ StopAttempt \/ ScheduleRetry \/ RestartAttempt
           \/ RefuseArguments
  BY <1>6, <1>a DEF RefuseArguments, ReceiveResult, AdvanceStage, IssueStageTask, StartAttempt,
     CheckpointAttempt, StopAttempt, ScheduleRetry, RestartAttempt
<1>7. CASE \/ InvalidateEvidence \/ SteerMission \/ AppendEvidence \/ NoteEvidence
           \/ MarkDecision \/ BindPackage \/ SaveSnapshot
  BY <1>7, <1>a DEF InvalidateEvidence, SteerMission, AppendEvidence, NoteEvidence,
     MarkDecision, BindPackage, SaveSnapshot
<1>8. CASE Crash \/ UNCHANGED vars
  BY <1>8, <1>a DEF Crash, vars
<1>9. CASE Environment
  <2>1. ASSUME NEW c \in DOMAIN store, Tamper(c) PROVE StoreTyped'
    BY <1>0, <2>1 DEF Tamper, StoreTyped
  <2> QED
    BY <1>9, <1>a, <2>1 DEF Environment, RewriteArtifact, AlterEvidence
<1> QED
  BY <1>1, <1>2, <1>3, <1>4, <1>5, <1>6, <1>7, <1>8, <1>9 DEF Next, Step

\* Evidence is recorded for the active candidate, and altered where it is.
LEMMA LedgerStep == IInv /\ [Next]_vars => LedgerTyped'
<1> SUFFICES ASSUME IInv, [Next]_vars PROVE LedgerTyped'
  OBVIOUS
<1>0. LedgerTyped /\ MissionsValid /\ CallFits
  BY DEF IInv, StoresTyped
<1>a. ledger' = ledger => LedgerTyped'
  BY <1>0 DEF LedgerTyped
<1>b. ASSUME NEW c \in CandidateIds, NEW type \in EvidenceTypes,
             NEW outcome \in {"pass", "fail", "stale", "altered"}, SetEvidence(c, type, outcome)
      PROVE  LedgerTyped'
  BY <1>0, <1>b DEF SetEvidence, LedgerTyped
<1>c. pc # "idle" /\ mem.active # None => mem.active \in CandidateIds
  BY <1>0 DEF MissionsValid, Valid, IsMission
<1>1. CASE Client
  BY <1>1, <1>a DEF Client, Start, Status, Revise, Submit, Checkpoint, InterruptAttempt,
     RetryAttempt, FreezeCandidate, RecordEvidence, ApproveCandidate, PackageRelease, GrantedCall,
     Call
<1>2. CASE InvalidateEvidence
  <2>1. \/ ledger' = ledger
        \/ /\ mem.active # None
           /\ \E type \in EvidenceTypes : SetEvidence(mem.active, type, "stale")
    BY <1>2 DEF InvalidateEvidence, ValidEvidence
  <2> QED
    BY <1>2, <1>a, <1>b, <1>c, <2>1 DEF InvalidateEvidence
<1>3. CASE AppendEvidence
  <2>1. /\ mem.active \in CandidateIds /\ op.arg.type \in EvidenceTypes
        /\ op.arg.outcome \in {"pass", "fail", "refused"}
    BY <1>0, <1>3, <1>c DEF AppendEvidence, CallFits
  <2> QED
    BY <1>3, <1>a, <1>b, <2>1 DEF AppendEvidence
<1>4. CASE \/ ReceiveResult \/ AdvanceStage \/ IssueStageTask \/ StartAttempt
           \/ CheckpointAttempt \/ StopAttempt \/ ScheduleRetry \/ RestartAttempt \/ SteerMission
           \/ RefuseArguments
  BY <1>4, <1>a DEF RefuseArguments, ReceiveResult, AdvanceStage, IssueStageTask, StartAttempt,
     CheckpointAttempt, StopAttempt, ScheduleRetry, RestartAttempt, SteerMission
<1>5. CASE FreezeSnapshot \/ BindFrozen \/ ExamineCandidate \/ NoteEvidence \/ ReviewCandidate
  BY <1>5, <1>a DEF FreezeSnapshot, BindFrozen, ExamineCandidate, NoteEvidence, ReviewCandidate
<1>6. CASE \/ SaveDecision \/ MarkDecision \/ PackCandidate \/ SaveRelease \/ BindPackage
           \/ SaveSnapshot \/ Respond
  BY <1>6, <1>a DEF SaveDecision, MarkDecision, PackCandidate, SaveRelease, BindPackage,
     SaveSnapshot, Respond
<1>7. CASE Crash \/ UNCHANGED vars
  BY <1>7, <1>a DEF Crash, vars
<1>8. CASE Environment
  <2>1. ASSUME NEW e \in DOMAIN ledger, AlterEvidence(e[1], e[2]) PROVE LedgerTyped'
    <3>1. e[1] \in CandidateIds /\ e[2] \in EvidenceTypes
      BY <1>0 DEF LedgerTyped
    <3> QED
      BY <1>b, <2>1, <3>1 DEF AlterEvidence
  <2> QED
    BY <1>8, <1>a, <2>1 DEF Environment, Tamper, RewriteArtifact
<1> QED
  BY <1>1, <1>2, <1>3, <1>4, <1>5, <1>6, <1>7, <1>8 DEF Next, Step

-----------------------------------------------------------------------------
(* What follows for every mission and every store.                         *)

\* The inductive invariant.
LEMMA Invariance == Spec => []IInv
<1>1. IInv /\ [Next]_vars => IInv'
  BY MissionsStep, LogStep, CallStep, GrantsStep, StoreStep, LedgerStep DEF IInv, StoresTyped
<1> QED
  BY <1>1, InitIInv, PTL DEF Spec

\* The service's working values and its stores are always of their types: in
\* particular every saved mission, and every working copy a crash can lose, is
\* a record that restore() accepts as far as its fields go.
THEOREM ServiceTyped == Spec => []TypeOK
<1>1. IInv => TypeOK
  <2> SUFFICES ASSUME IInv PROVE TypeOK
    OBVIOUS
  <2>1. MissionsValid /\ LogShape(log) /\ StoresTyped
    BY DEF IInv, LogFits
  <2>2. /\ snap = NoMission \/ IsMission(snap)
        /\ IF pc = "idle" THEN mem = NoMission ELSE IsMission(mem)
    BY <2>1 DEF MissionsValid, Valid
  <2>3. /\ log.rev \in Nat /\ DOMAIN log.tasks \subseteq TaskIds
        /\ \A t \in DOMAIN log.tasks : log.tasks[t].attempts \in Seq(AttemptStatus)
    BY <2>1 DEF LogShape
  <2> QED
    BY <2>1, <2>2, <2>3 DEF TypeOK, StoresTyped, CallTyped, GrantsTyped, StoreTyped, LedgerTyped
<1> QED
  BY <1>1, Invariance, PTL

\* Whatever is called in whatever order, and wherever the process dies, a
\* mission record carries exactly the bindings its stage has earned, has the
\* documents its stage needs, and has its tasks bound to its one candidate
\* (bind_candidate, mark_candidate_approved, bind_release, advance_if_ready).
THEOREM MissionsStaySound == Spec => []MissionsSound
<1>1. IInv => MissionsSound
  <2> SUFFICES ASSUME IInv PROVE MissionsSound
    OBVIOUS
  <2>1. (snap # NoMission => Valid(snap)) /\ (mem # NoMission => Valid(mem))
    BY DEF IInv, MissionsValid
  <2> QED
    BY <2>1, ValidSound DEF MissionsSound
<1> QED
  BY <1>1, Invariance, PTL

\* No saved mission has passed a stage without passing results, accepted in this
\* revision, of every role of that stage, on one digest (advance_if_ready).
THEOREM StagesAreEarned == Spec => []SavedStagesEarned
<1>1. IInv => SavedStagesEarned
  <2> SUFFICES ASSUME IInv, snap # NoMission PROVE StagesEarned(snap)
    BY DEF SavedStagesEarned
  <2>1. Valid(snap)
    BY DEF IInv, MissionsValid
  <2> QED
    BY <2>1, ValidSound
<1> QED
  BY <1>1, Invariance, PTL

\* The steps, once and for all by what they leave alone: only saving writes the
\* snapshot, only responding issues grants, and few steps write the candidate
\* store, the ledger or the log.
LEMMA Writers ==
    [Next]_vars =>
        /\ UNCHANGED snap \/ SaveSnapshot
        /\ grants' \subseteq grants \/ Respond
        /\ \/ UNCHANGED store \/ (pc' = "idle" /\ \E c : MarkCorrupt(c))
           \/ (\E c \in DOMAIN store : Tamper(c))
           \/ FreezeSnapshot \/ ExamineCandidate \/ SaveDecision \/ SaveRelease
        /\ \/ UNCHANGED ledger \/ (\E e \in DOMAIN ledger : AlterEvidence(e[1], e[2]))
           \/ InvalidateEvidence \/ AppendEvidence
        /\ \/ UNCHANGED log \/ Crash \/ (\E g \in Goals : Start(g))
           \/ ReceiveResult \/ AdvanceStage \/ IssueStageTask \/ StartAttempt
           \/ CheckpointAttempt \/ StopAttempt \/ ScheduleRetry \/ RestartAttempt
           \/ SteerMission \/ BindFrozen \/ NoteEvidence \/ MarkDecision \/ BindPackage
<1> SUFFICES ASSUME [Next]_vars
    PROVE /\ UNCHANGED snap \/ SaveSnapshot
          /\ grants' \subseteq grants \/ Respond
          /\ \/ UNCHANGED store \/ (pc' = "idle" /\ \E c : MarkCorrupt(c))
             \/ (\E c \in DOMAIN store : Tamper(c))
             \/ FreezeSnapshot \/ ExamineCandidate \/ SaveDecision \/ SaveRelease
          /\ \/ UNCHANGED ledger \/ (\E e \in DOMAIN ledger : AlterEvidence(e[1], e[2]))
             \/ InvalidateEvidence \/ AppendEvidence
          /\ \/ UNCHANGED log \/ Crash \/ (\E g \in Goals : Start(g))
             \/ ReceiveResult \/ AdvanceStage \/ IssueStageTask \/ StartAttempt
             \/ CheckpointAttempt \/ StopAttempt \/ ScheduleRetry \/ RestartAttempt
             \/ SteerMission \/ BindFrozen \/ NoteEvidence \/ MarkDecision \/ BindPackage
  OBVIOUS
<1>1. CASE Client
  BY <1>1 DEF Client, Start, Goto, Status, Revise, Submit, Checkpoint, InterruptAttempt,
     RetryAttempt, FreezeCandidate, RecordEvidence, ApproveCandidate, PackageRelease, GrantedCall,
     Call
<1>2. CASE \/ ReceiveResult \/ AdvanceStage \/ IssueStageTask \/ StartAttempt
           \/ CheckpointAttempt \/ StopAttempt \/ ScheduleRetry \/ RestartAttempt
           \/ RefuseArguments
  BY <1>2 DEF RefuseArguments, ReceiveResult, AdvanceStage, IssueStageTask, StartAttempt,
     CheckpointAttempt, StopAttempt, ScheduleRetry, RestartAttempt, Abandon, Goto
<1>3. CASE \/ InvalidateEvidence \/ SteerMission \/ FreezeSnapshot \/ BindFrozen
           \/ ExamineCandidate \/ AppendEvidence \/ NoteEvidence
  BY <1>3 DEF InvalidateEvidence, SteerMission, FreezeSnapshot, BindFrozen, ExamineCandidate,
     AppendEvidence, NoteEvidence, Abandon, Release, Goto
<1>4. CASE \/ ReviewCandidate \/ SaveDecision \/ MarkDecision \/ PackCandidate \/ SaveRelease
           \/ BindPackage
  BY <1>4 DEF ReviewCandidate, SaveDecision, MarkDecision, PackCandidate, SaveRelease,
     BindPackage, Abandon, Release, Goto
<1>5. CASE SaveSnapshot \/ Respond \/ Crash
  BY <1>5 DEF SaveSnapshot, Respond, Crash, Abandon, Release
<1>6. CASE Environment \/ UNCHANGED vars
  BY <1>6 DEF Environment, Tamper, RewriteArtifact, AlterEvidence, vars
<1> QED
  BY <1>1, <1>2, <1>3, <1>4, <1>5, <1>6 DEF Next, Step

\* Revoking before issuing leaves one grant per task and operation.
LEMMA GrantsStaySingle == OneGrantPerOperation /\ [Next]_vars => OneGrantPerOperation'
<1> SUFFICES ASSUME OneGrantPerOperation, [Next]_vars PROVE OneGrantPerOperation'
  OBVIOUS
<1>1. ASSUME grants' \subseteq grants PROVE OneGrantPerOperation'
  BY <1>1 DEF OneGrantPerOperation
<1>2. ASSUME grants' = (grants \ (GrantsOf(mem, OpenTasks(mem)) \cup Dead(mem)))
                           \cup FreshGrants(mem)
      PROVE  OneGrantPerOperation'
  <2>1. ASSUME NEW g \in FreshGrants(mem)
        PROVE  /\ g.task \in OpenTasks(mem) /\ g = GrantFor(mem, g.task, g.operation)
               /\ g.operation \in OperationsFor(mem.tasks[g.task], g.task.stage)
    BY DEF FreshGrants, GrantFor
  <2>2. ASSUME NEW g \in FreshGrants(mem), NEW h \in grants \ GrantsOf(mem, OpenTasks(mem)),
               g.task = h.task, g.operation = h.operation
        PROVE  FALSE
    BY <2>1, <2>2 DEF GrantsOf
  <2>3. ASSUME NEW g \in FreshGrants(mem), NEW h \in FreshGrants(mem),
               g.task = h.task, g.operation = h.operation
        PROVE  g = h
    BY <2>1, <2>3
  <2> QED
    BY <1>2, <2>2, <2>3 DEF OneGrantPerOperation
<1> QED
  BY <1>1, <1>2, Writers DEF Respond, Reissued

-----------------------------------------------------------------------------
(* What the operations on a mission do to its fields and to its tasks.     *)

\* An operation on one task leaves the other tasks and all other fields alone.
LEMMA TaskOperations ==
    ASSUME NEW m, IsMission(m), NEW t \in DOMAIN m.tasks, NEW gate, NEW digest, NEW attempt
    PROVE  \A n \in {Receive(m, t, gate, digest), Interrupt(m, t), Retry(m, t, attempt)} :
              /\ SameButTasks(n, m) /\ DOMAIN n.tasks = DOMAIN m.tasks
              /\ \A u \in DOMAIN m.tasks : u # t => n.tasks[u] = m.tasks[u]
<1>1. ASSUME NEW task
      PROVE  LET n == WithTask(m, t, task)
             IN /\ SameButTasks(n, m) /\ DOMAIN n.tasks = DOMAIN m.tasks
                /\ \A u \in DOMAIN m.tasks : u # t => n.tasks[u] = m.tasks[u]
  BY DEF WithTask, SameButTasks, IsMission
<1> QED
  BY <1>1 DEF Receive, Interrupt, Retry

\* So does any record that one of them has made.
LEMMA OtherTasks ==
    ASSUME NEW m, IsMission(m), NEW t \in DOMAIN m.tasks, NEW n,
           \/ \E gate, digest : n = Receive(m, t, gate, digest)
           \/ n = Interrupt(m, t)
           \/ \E attempt : n = Retry(m, t, attempt)
    PROVE  /\ n.rev = m.rev /\ DOMAIN n.tasks = DOMAIN m.tasks
           /\ \A u \in DOMAIN m.tasks : u # t => n.tasks[u] = m.tasks[u]
<1>1. PICK task : n = WithTask(m, t, task)
  BY DEF Receive, Interrupt, Retry
<1> QED
  BY <1>1 DEF WithTask, IsMission

\* What each of them does to its task.
LEMMA TaskReplacement ==
    ASSUME NEW m, IsMission(m), NEW t \in DOMAIN m.tasks, NEW task
    PROVE  WithTask(m, t, task).tasks[t] = task
BY DEF WithTask, IsMission

\* Accepting a result closes the attempt it was sent in.
LEMMA ReceiveFields ==
    ASSUME NEW m, IsMission(m), NEW t \in DOMAIN m.tasks, NEW gate, NEW digest
    PROVE  LET task == Receive(m, t, gate, digest).tasks[t]
           IN /\ task.status = "result-received" /\ task.attempt = m.tasks[t].attempt
              /\ task.result.attempt = m.tasks[t].attempt
<1> DEFINE old == m.tasks[t]
           result == [gate |-> gate, digest |-> digest, cand |-> old.cand,
                      attempt |-> old.attempt]
           new == [old EXCEPT !.status = "result-received",
                              !.passed = IF gate = "pass" THEN @ \cup {digest} ELSE @,
                              !.result = result]
<1>1. DOMAIN old = {"status", "attempt", "cand", "result", "passed"}
  BY TaskFields DEF Tasks
<1>2. Receive(m, t, gate, digest) = WithTask(m, t, new)
  BY DEF Receive
<1> HIDE DEF old
<1>3. /\ new.status = "result-received" /\ new.attempt = old.attempt
      /\ new.result.attempt = old.attempt
  BY <1>1
<1> HIDE DEF new
<1> QED
  BY <1>2, <1>3, TaskReplacement DEF old

\* Interrupting keeps the attempt and the last result.
LEMMA InterruptFields ==
    ASSUME NEW m, IsMission(m), NEW t \in DOMAIN m.tasks
    PROVE  LET task == Interrupt(m, t).tasks[t]
           IN /\ task.status = "interrupted" /\ task.attempt = m.tasks[t].attempt
              /\ task.result = m.tasks[t].result
<1> DEFINE old == m.tasks[t]
           new == [old EXCEPT !.status = "interrupted"]
<1>1. DOMAIN old = {"status", "attempt", "cand", "result", "passed"}
  BY TaskFields DEF Tasks
<1>2. Interrupt(m, t) = WithTask(m, t, new)
  BY DEF Interrupt
<1> HIDE DEF old
<1>3. new.status = "interrupted" /\ new.attempt = old.attempt /\ new.result = old.result
  BY <1>1
<1> HIDE DEF new
<1> QED
  BY <1>2, <1>3, TaskReplacement DEF old

\* A retry opens the task again at the given attempt.
LEMMA RetryFields ==
    ASSUME NEW m, IsMission(m), NEW t \in DOMAIN m.tasks, NEW attempt
    PROVE  LET task == Retry(m, t, attempt).tasks[t]
           IN /\ task.status = "issued" /\ task.attempt = attempt
              /\ task.result = m.tasks[t].result
<1> DEFINE old == m.tasks[t]
           new == [old EXCEPT !.attempt = attempt, !.status = "issued"]
<1>1. DOMAIN old = {"status", "attempt", "cand", "result", "passed"}
  BY TaskFields DEF Tasks
<1>2. Retry(m, t, attempt) = WithTask(m, t, new)
  BY DEF Retry
<1> HIDE DEF old
<1>3. new.status = "issued" /\ new.attempt = attempt /\ new.result = old.result
  BY <1>1
<1> HIDE DEF new
<1> QED
  BY <1>2, <1>3, TaskReplacement DEF old

\* Operations on the whole mission.
LEMMA NewFields ==
    ASSUME NEW g
    PROVE  LET n == NewMission(g)
           IN /\ n.rev = 1 /\ n.goal = g /\ n.stage = 1 /\ DOMAIN n.tasks = {}
              /\ n.active = None /\ n.approved = FALSE /\ n.released = FALSE
              /\ n.completed = FALSE
BY DEF NewMission

\* Issuing adds the task of a role to those of the stage, at its first attempt.
LEMMA IssueFields ==
    ASSUME NEW m, IsMission(m), NEW role
    PROVE  LET n == IssueTask(m, role)
               t == Current(m, role)
           IN /\ SameButTasks(n, m) /\ DOMAIN n.tasks = DOMAIN m.tasks \cup {t}
              /\ \A u \in DOMAIN m.tasks : u # t => n.tasks[u] = m.tasks[u]
              /\ n.tasks[t].status = "issued" /\ n.tasks[t].attempt = 1
              /\ n.tasks[t].result = NoResult
BY DEF IssueTask, SameButTasks, IsMission

\* Advancing completes the tasks of the stage, and leaves the stage or, after
\* the last one, ends the mission.
LEMMA AdvanceFields ==
    ASSUME NEW m, IsMission(m)
    PROVE  LET n == Advance(m)
           IN /\ n.rev = m.rev /\ n.goal = m.goal /\ n.active = m.active
              /\ n.approved = m.approved /\ n.released = m.released
              /\ n.completed = LastStage(m)
              /\ n.stage = IF LastStage(m) THEN m.stage ELSE m.stage + 1
              /\ DOMAIN n.tasks = DOMAIN m.tasks
              /\ \A t \in DOMAIN m.tasks :
                    /\ t \notin CurrentTasks(m) => n.tasks[t] = m.tasks[t]
                    /\ t \in CurrentTasks(m) => n.tasks[t].status = "completed"
                    /\ n.tasks[t].attempt = m.tasks[t].attempt
                    /\ n.tasks[t].result = m.tasks[t].result
<1> DEFINE n == Advance(m)
<1>1. /\ n.rev = m.rev /\ n.goal = m.goal /\ n.active = m.active
      /\ n.approved = m.approved /\ n.released = m.released
      /\ n.completed = LastStage(m)
      /\ n.stage = IF LastStage(m) THEN m.stage ELSE m.stage + 1
      /\ DOMAIN n.tasks = DOMAIN m.tasks
      /\ \A t \in DOMAIN m.tasks :
            n.tasks[t] = IF t \in CurrentTasks(m)
                         THEN [m.tasks[t] EXCEPT !.status = "completed"] ELSE m.tasks[t]
  BY DEF Advance, IsMission
<1>2. ASSUME NEW t \in DOMAIN m.tasks
      PROVE  DOMAIN m.tasks[t] = {"status", "attempt", "cand", "result", "passed"}
  BY TaskFields DEF Tasks
<1> HIDE DEF n
<1> QED
  BY <1>1, <1>2 DEF n

\* Steering begins a revision at the first stage, and leaves no task open.
LEMMA SteerFields ==
    ASSUME NEW m, IsMission(m), NEW g
    PROVE  LET n == Steer(m, g)
           IN /\ n.rev = m.rev + 1 /\ n.goal = g /\ n.stage = 1 /\ n.active = None
              /\ DOMAIN n.tasks = DOMAIN m.tasks
              /\ \A t \in DOMAIN m.tasks :
                    /\ n.tasks[t].status \in {"completed", "stale"}
                    /\ m.tasks[t].status \in {"completed", "stale"} => n.tasks[t] = m.tasks[t]
                    /\ n.tasks[t].attempt = m.tasks[t].attempt
                    /\ n.tasks[t].result = m.tasks[t].result
<1> DEFINE n == Steer(m, g)
<1>1. /\ n.rev = m.rev + 1 /\ n.goal = g /\ n.stage = 1 /\ n.active = None
      /\ DOMAIN n.tasks = DOMAIN m.tasks
      /\ \A t \in DOMAIN m.tasks :
            n.tasks[t] = IF m.tasks[t].status = "completed" THEN m.tasks[t]
                         ELSE [m.tasks[t] EXCEPT !.status = "stale"]
  BY DEF Steer, NewMission
<1>2. ASSUME NEW t \in DOMAIN m.tasks
      PROVE  /\ DOMAIN m.tasks[t] = {"status", "attempt", "cand", "result", "passed"}
             /\ m.tasks[t].status = "stale" =>
                    [m.tasks[t] EXCEPT !.status = "stale"] = m.tasks[t]
  BY TaskFields DEF Tasks
<1> HIDE DEF n
<1>3. ASSUME NEW t \in DOMAIN m.tasks
      PROVE  /\ n.tasks[t].status \in {"completed", "stale"}
             /\ m.tasks[t].status \in {"completed", "stale"} => n.tasks[t] = m.tasks[t]
             /\ n.tasks[t].attempt = m.tasks[t].attempt
             /\ n.tasks[t].result = m.tasks[t].result
  <2>1. CASE m.tasks[t].status = "completed"
    BY <1>1, <2>1
  <2>2. CASE m.tasks[t].status # "completed"
    <3>1. n.tasks[t] = [m.tasks[t] EXCEPT !.status = "stale"]
      BY <1>1, <2>2
    <3> QED
      BY <1>2, <2>2, <3>1
  <2> QED
    BY <2>1, <2>2
<1> QED
  BY <1>1, <1>3 DEF n

\* Binding a candidate changes nothing of a task but the candidate.
LEMMA BindFields ==
    ASSUME NEW m, IsMission(m), NEW c
    PROVE  LET n == BindCandidate(m, c)
           IN /\ n.rev = m.rev /\ n.goal = m.goal /\ n.stage = m.stage /\ n.active = c
              /\ DOMAIN n.tasks = DOMAIN m.tasks
              /\ \A t \in DOMAIN m.tasks :
                    /\ t.rev # m.rev => n.tasks[t] = m.tasks[t]
                    /\ n.tasks[t].status = m.tasks[t].status
                    /\ n.tasks[t].attempt = m.tasks[t].attempt
                    /\ n.tasks[t].result = m.tasks[t].result
<1>1. ASSUME NEW t \in DOMAIN m.tasks
      PROVE  DOMAIN m.tasks[t] = {"status", "attempt", "cand", "result", "passed"}
  BY TaskFields DEF Tasks
<1> DEFINE n == BindCandidate(m, c)
<1>2. /\ n.rev = m.rev /\ n.goal = m.goal /\ n.stage = m.stage /\ n.active = c
      /\ DOMAIN n.tasks = DOMAIN m.tasks
      /\ \A t \in DOMAIN m.tasks :
            n.tasks[t] = IF t.rev = m.rev /\ t.stage = "implementation"
                         THEN [m.tasks[t] EXCEPT !.cand = c] ELSE m.tasks[t]
  BY DEF BindCandidate, IsMission
<1> HIDE DEF n
<1>3. ASSUME NEW t \in DOMAIN m.tasks
      PROVE  /\ t.rev # m.rev => n.tasks[t] = m.tasks[t]
             /\ n.tasks[t].status = m.tasks[t].status
             /\ n.tasks[t].attempt = m.tasks[t].attempt
             /\ n.tasks[t].result = m.tasks[t].result
  BY <1>1, <1>2
<1> QED
  BY <1>2, <1>3 DEF n

\* Approving and releasing change nothing but their own marks.
LEMMA MarkFields ==
    ASSUME NEW m, IsMission(m)
    PROVE  \A n \in {MarkApproved(m), BindRelease(m)} :
              /\ n.rev = m.rev /\ n.goal = m.goal /\ n.stage = m.stage
              /\ n.active = m.active /\ n.tasks = m.tasks
BY DEF MarkApproved, BindRelease, IsMission

\* The approval, the release and the completion of a mission after each of them.
LEMMA SteerFlags ==
    ASSUME NEW m, NEW g
    PROVE  LET n == Steer(m, g)
           IN n.approved = FALSE /\ n.released = FALSE /\ n.completed = FALSE
BY DEF Steer, NewMission

\* Binding a candidate takes an approval and a release back.
LEMMA BindFlags ==
    ASSUME NEW m, IsMission(m), NEW c
    PROVE  LET n == BindCandidate(m, c)
           IN n.approved = FALSE /\ n.released = FALSE /\ n.completed = m.completed
BY DEF BindCandidate, IsMission

\* Approving approves, and releasing releases.
LEMMA MarkFlags ==
    ASSUME NEW m, IsMission(m)
    PROVE  /\ LET n == MarkApproved(m)
              IN n.approved = TRUE /\ n.released = m.released /\ n.completed = m.completed
           /\ LET n == BindRelease(m)
              IN n.approved = m.approved /\ n.released = TRUE /\ n.completed = m.completed
BY DEF MarkApproved, BindRelease, IsMission

-----------------------------------------------------------------------------
(* The saved mission and the working copy of a call.                       *)

\* What a mission is to the abstract specification.
LEMMA LifeOf ==
    ASSUME NEW m, IsMission(m)
    PROVE  /\ m # NoMission /\ Life(m) # Abstract!Unborn
           /\ Life(m) = [rev |-> m.rev, goal |-> m.goal, stage |-> m.stage,
                         active |-> m.active, approved |-> m.approved,
                         released |-> m.released, completed |-> m.completed]
           /\ Abstract!Stage(Life(m)) = Kind(m)
BY DEF IsMission, NoMission, Life, Abstract!Unborn, Abstract!Stage, Kind

\* Tasks are no part of it.
LEMMA LifeWithoutTasks ==
    ASSUME NEW m, NEW n, IsMission(m), SameButTasks(n, m) PROVE Life(n) = Life(m)
BY DEF SameButTasks, IsMission, NoMission, Life

\* The operations on a mission are operations of its abstract life.
LEMMA LifeOperations ==
    ASSUME NEW m, Valid(m)
    PROVE  /\ MayAdvance(m) => /\ Abstract!MayLeave(Life(m))
                               /\ Life(Advance(m)) = Abstract!Advanced(Life(m))
           /\ \A g \in Goals : Life(Steer(m, g)) = Abstract!Fresh(m.rev + 1, g)
           /\ \A c \in CandidateIds : ~m.approved =>
                  Life(BindCandidate(m, c)) = [Life(m) EXCEPT !.active = c]
           /\ Life(MarkApproved(m)) = [Life(m) EXCEPT !.approved = TRUE]
           /\ Life(BindRelease(m)) = [Life(m) EXCEPT !.released = TRUE]
<1>0. IsMission(m)
  BY DEF Valid
<1>1. ASSUME MayAdvance(m)
      PROVE  Abstract!MayLeave(Life(m)) /\ Life(Advance(m)) = Abstract!Advanced(Life(m))
  <2>1. IsMission(Advance(m))
    BY <1>1, AdvanceValid DEF Valid
  <2>2. Abstract!MayLeave(Life(m))
    BY <1>0, <1>1, LifeOf DEF MayAdvance, StageCondition, Abstract!MayLeave, Abstract!Bound
  <2>3. ~m.completed
    BY <1>1 DEF MayAdvance
  <2>4. LastStage(m) <=> Life(m).stage = Len(Plan(Life(m).goal))
    BY <1>0, LifeOf DEF LastStage
  <2>5. Life(Advance(m)) = Abstract!Advanced(Life(m))
    BY <1>0, <2>1, <2>3, <2>4, LifeOf, AdvanceFields DEF Abstract!Advanced, IsMission
  <2> QED
    BY <2>2, <2>5
<1>2. ASSUME NEW g \in Goals PROVE Life(Steer(m, g)) = Abstract!Fresh(m.rev + 1, g)
  <2> DEFINE n == Steer(m, g)
  <2>1. IsMission(n)
    BY SteerValid DEF Valid
  <2>2. /\ n.rev = m.rev + 1 /\ n.goal = g /\ n.stage = 1 /\ n.active = None
        /\ n.approved = FALSE /\ n.released = FALSE /\ n.completed = FALSE
    BY DEF Steer, NewMission
  <2> HIDE DEF n
  <2>3. Life(n) = Abstract!Fresh(m.rev + 1, g)
    BY <2>1, <2>2, LifeOf DEF Abstract!Fresh
  <2> QED
    BY <2>3 DEF n
<1>3. ASSUME NEW n, DOMAIN n = DOMAIN m
      PROVE  Life(n) = [rev |-> n.rev, goal |-> n.goal, stage |-> n.stage,
                        active |-> n.active, approved |-> n.approved,
                        released |-> n.released, completed |-> n.completed]
  BY <1>0, <1>3 DEF IsMission, NoMission, Life
<1>a. Life(m) = [rev |-> m.rev, goal |-> m.goal, stage |-> m.stage,
                 active |-> m.active, approved |-> m.approved,
                 released |-> m.released, completed |-> m.completed]
  BY <1>3
<1>4. ASSUME NEW c \in CandidateIds, ~m.approved
      PROVE  Life(BindCandidate(m, c)) = [Life(m) EXCEPT !.active = c]
  <2> DEFINE n == BindCandidate(m, c)
  <2>1. m.released = FALSE /\ m.approved = FALSE
    BY <1>4 DEF Valid, BindingsEarned, IsMission
  <2>2. /\ DOMAIN n = DOMAIN m /\ n.rev = m.rev /\ n.goal = m.goal /\ n.stage = m.stage
        /\ n.active = c /\ n.approved = m.approved /\ n.released = m.released
        /\ n.completed = m.completed
    BY <1>0, <2>1 DEF BindCandidate, IsMission
  <2> HIDE DEF n
  <2>3. Life(n) = [Life(m) EXCEPT !.active = c]
    BY <1>3, <1>a, <2>2
  <2> QED
    BY <2>3 DEF n
<1>5. Life(MarkApproved(m)) = [Life(m) EXCEPT !.approved = TRUE]
  <2> DEFINE n == MarkApproved(m)
  <2>1. /\ DOMAIN n = DOMAIN m /\ n.rev = m.rev /\ n.goal = m.goal /\ n.stage = m.stage
        /\ n.active = m.active /\ n.approved = TRUE /\ n.released = m.released
        /\ n.completed = m.completed
    BY <1>0, MarkFields, MarkFlags DEF MarkApproved
  <2> HIDE DEF n
  <2>2. Life(n) = [Life(m) EXCEPT !.approved = TRUE]
    BY <1>3, <1>a, <2>1
  <2> QED
    BY <2>2 DEF n
<1>6. Life(BindRelease(m)) = [Life(m) EXCEPT !.released = TRUE]
  <2> DEFINE n == BindRelease(m)
  <2>1. /\ DOMAIN n = DOMAIN m /\ n.rev = m.rev /\ n.goal = m.goal /\ n.stage = m.stage
        /\ n.active = m.active /\ n.approved = m.approved /\ n.released = TRUE
        /\ n.completed = m.completed
    BY <1>0, MarkFields, MarkFlags DEF BindRelease
  <2> HIDE DEF n
  <2>2. Life(n) = [Life(m) EXCEPT !.released = TRUE]
    BY <1>3, <1>a, <2>1
  <2> QED
    BY <2>2 DEF n
<1> QED
  BY <1>1, <1>2, <1>4, <1>5, <1>6

\* Before the first call, and whenever a call has ended, there is no copy.
LEMMA NoCopy == pc = "idle" => CopyStory
BY DEF CopyStory, Changing

\* The points at which a call begins its work.
Begins == {"respond", "receive", "checkpoint", "interrupt", "retry", "invalidate", "freeze",
           "examine", "review", "pack"}

\* A call that loads the saved mission has looked at what it is about.
Loaded(kind, t, arg, next) ==
    /\ Call(kind, t, arg, next) /\ next \in Begins
    /\ next = "invalidate" <=> kind = "revise"
    /\ next = "freeze" => snap.active = None
    /\ next \in {"checkpoint", "interrupt", "retry"} => t \in CurrentTasks(snap)
    /\ next = "examine" => Kind(snap) \in {"integration-verification", "validation"}

Loading == \E kind, t, arg, next : Loaded(kind, t, arg, next)

\* Every call but the first loads the saved mission.
LEMMA Loads == Client => (\E g \in Goals : Start(g)) \/ Loading
<1> SUFFICES ASSUME Client PROVE (\E g \in Goals : Start(g)) \/ Loading
  OBVIOUS
<1>a. ASSUME NEW kind, NEW t, NEW arg, NEW next, Loaded(kind, t, arg, next) PROVE Loading
  BY <1>a DEF Loading
<1>b. ASSUME NEW t, NEW operation, OperationTask(snap, t, operation)
      PROVE  /\ t \in CurrentTasks(snap)
             /\ operation = "record-evidence" =>
                    Kind(snap) \in {"integration-verification", "validation"}
  BY <1>b, OperationStage DEF OperationTask, OperationsFor
<1>1. Status => Loaded("status", None, None, "respond")
  BY DEF Status, Loaded, Begins
<1>2. ASSUME NEW g, NEW instruction, Revise(g, instruction)
      PROVE  Loaded("revise", None, [goal |-> g, instruction |-> instruction], "invalidate")
  BY <1>2 DEF Revise, Loaded, Begins
<1>3. ASSUME NEW t, NEW payload, Submit(t, payload)
      PROVE  Loaded("submit", t, payload, "receive")
  BY <1>3 DEF Submit, GrantedCall, Loaded, Begins
<1>4. ASSUME NEW t
      PROVE  /\ Checkpoint(t) => Loaded("checkpoint", t, None, "checkpoint")
             /\ InterruptAttempt(t) => Loaded("interrupt", t, None, "interrupt")
             /\ RetryAttempt(t) => Loaded("retry", t, None, "retry")
  BY <1>b DEF Checkpoint, InterruptAttempt, RetryAttempt, GrantedCall, Loaded, Begins
<1>5. ASSUME NEW t, NEW content, FreezeCandidate(t, content)
      PROVE  Loaded("freeze", t, content, "freeze")
  BY <1>5 DEF FreezeCandidate, GrantedCall, Loaded, Begins
<1>6. ASSUME NEW t, NEW type, NEW outcome, RecordEvidence(t, type, outcome)
      PROVE  Loaded("evidence", t, [type |-> type, outcome |-> outcome], "examine")
  BY <1>6, <1>b DEF RecordEvidence, GrantedCall, Loaded, Begins
<1>7. ASSUME NEW t, NEW packageable
      PROVE  /\ ApproveCandidate(t) => Loaded("approve", t, None, "review")
             /\ PackageRelease(t, packageable) => Loaded("package", t, packageable, "pack")
  BY DEF ApproveCandidate, PackageRelease, GrantedCall, Loaded, Begins
<1> QED
  BY <1>a, <1>1, <1>2, <1>3, <1>4, <1>5, <1>6, <1>7 DEF Client

\* A write that leaves the copy as it was loaded.
LEMMA CopyUntouched ==
    ASSUME CopyStory, pc \notin Changing \cup {"idle"}, NEW next, Goto(next), UNCHANGED mem,
           next \notin Changing, next \in {"freeze", "bind"} => pc = "freeze"
    PROVE  CopyStory'
BY DEF Goto, CopyStory, Changing

\* The working copy stays within one abstract step of the saved mission.
LEMMA CopyStep == IInv /\ CopyStory /\ [Next]_vars => CopyStory'
<1> SUFFICES ASSUME IInv, CopyStory, [Next]_vars PROVE CopyStory'
  OBVIOUS
<1>0. MissionsValid /\ CallFits
  BY DEF IInv
<1>a. pc # "idle" => Valid(mem) /\ IsMission(mem) /\ Life(mem) # Abstract!Unborn
  BY <1>0, LifeOf DEF MissionsValid, Valid
<1>b. snap # NoMission =>
          /\ Valid(snap) /\ IsMission(snap) /\ Life(snap) # Abstract!Unborn
          /\ Abstract!Stage(Life(snap)) = Kind(snap) /\ Life(snap).rev = snap.rev
          /\ Life(snap).active = snap.active /\ Life(snap).approved = snap.approved
  BY <1>0, LifeOf DEF MissionsValid, Valid
<1>c. Abandon => CopyStory'
  <2> SUFFICES ASSUME Abandon PROVE CopyStory'
    OBVIOUS
  <2>1. pc' = "idle"
    BY DEF Abandon, Release
  <2> QED
    BY <2>1 DEF CopyStory, Changing
<1>1. CASE Client
  <2>1. ASSUME NEW g \in Goals, Start(g) PROVE CopyStory'
    <3>1. snap = NoMission /\ snap' = snap /\ mem' = NewMission(g) /\ pc' = "tasks"
      BY <2>1 DEF Start, Goto
    <3>2. IsMission(mem')
      BY <3>1, NewMissionValid DEF Valid
    <3>a. /\ mem'.rev = 1 /\ mem'.goal = g /\ mem'.stage = 1 /\ mem'.active = None
          /\ mem'.approved = FALSE /\ mem'.released = FALSE /\ mem'.completed = FALSE
      BY <3>1 DEF NewMission
    <3>3. Life(mem') = Abstract!Fresh(1, g)
      BY <3>2, <3>a, LifeOf DEF Abstract!Fresh
    <3>4. Life(snap') = Abstract!Unborn
      BY <3>1 DEF Life, NoMission, Abstract!Unborn
    <3> QED
      BY <3>1, <3>3, <3>4 DEF CopyStory, Changing, LifeStep
  <2>2. ASSUME NEW kind, NEW t, NEW arg, NEW next \in Begins, Call(kind, t, arg, next),
               next = "freeze" => snap.active = None
        PROVE  CopyStory'
    BY <2>2 DEF Call, CopyStory, Changing, Begins
  <2> QED
    BY <1>1, <2>1, <2>2, Loads DEF Loading, Loaded
<1>2. CASE ReceiveResult
  <2>1. pc = "receive" /\ mem = snap /\ snap # NoMission
    BY <1>2 DEF ReceiveResult, CopyStory, Changing
  <2>2. CASE Goto("save") /\ UNCHANGED mem
    BY <2>1, <2>2 DEF Goto, CopyStory, Changing, LifeStep
  <2>3. CASE Goto("advance") /\ mem' = Receive(mem, op.task, op.arg.gate, op.arg.digest)
    <3>1. op.task \in DOMAIN mem.tasks
      BY <1>0, <2>1 DEF CallFits
    <3>2. SameButTasks(mem', mem)
      BY <1>a, <2>1, <2>3, <3>1, TaskOperations
    <3>3. Life(mem') = Life(mem)
      BY <1>a, <2>1, <3>2, LifeWithoutTasks
    <3> QED
      BY <2>1, <2>3, <3>3 DEF Goto, CopyStory, Changing
  <2> QED
    BY <1>2, <1>c, <2>2, <2>3 DEF ReceiveResult
<1>3. CASE AdvanceStage
  <2>1. /\ pc = "advance" /\ snap # NoMission /\ snap' = snap /\ pc' = "tasks"
        /\ mem' = IF MayAdvance(mem) THEN Advance(mem) ELSE mem
    BY <1>3 DEF AdvanceStage, Goto, CopyStory
  <2>2. MayAdvance(mem) => /\ Abstract!MayLeave(Life(mem))
                           /\ Life(mem') = Abstract!Advanced(Life(mem))
    BY <1>a, <2>1, LifeOperations
  <2>3. LifeStep(Life(snap), Life(mem'))
    <3>1. CASE Life(mem) = Life(snap)
      BY <1>b, <2>1, <2>2, <3>1 DEF LifeStep
    <3>2. CASE /\ Kind(snap) = "validation" /\ snap.active # None
               /\ Life(mem) = [Life(snap) EXCEPT !.approved = TRUE]
      BY <1>b, <2>1, <2>2, <3>2 DEF LifeStep
    <3>3. CASE /\ Kind(snap) = "release" /\ snap.approved
               /\ Life(mem) = [Life(snap) EXCEPT !.released = TRUE]
      BY <1>b, <2>1, <2>2, <3>3 DEF LifeStep
    <3> QED
      BY <2>1, <3>1, <3>2, <3>3 DEF CopyStory
  <2> QED
    BY <2>1, <2>3 DEF CopyStory, Changing
<1>4. CASE IssueStageTask
  <2>1. CASE Goto("save") /\ UNCHANGED mem
    BY <1>4, <2>1 DEF IssueStageTask, Goto, CopyStory, Changing
  <2>2. ASSUME NEW role, Goto("attempt"), mem' = IssueTask(mem, role) PROVE CopyStory'
    <3>1. Life(mem') = Life(mem)
      BY <1>4, <1>a, <2>2, IssueFields, LifeWithoutTasks DEF IssueStageTask
    <3> QED
      BY <1>4, <2>2, <3>1 DEF IssueStageTask, Goto, CopyStory, Changing
  <2> QED
    BY <1>4, <1>c, <2>1, <2>2 DEF IssueStageTask
<1>5. CASE StartAttempt
  BY <1>5 DEF StartAttempt, Goto, CopyStory, Changing
<1>6. CASE CheckpointAttempt
  BY <1>6, <1>c, CopyUntouched DEF CheckpointAttempt, Changing
<1>7. CASE StopAttempt \/ ScheduleRetry
  <2>1. pc \in {"interrupt", "retry"} /\ mem = snap /\ snap # NoMission /\ snap' = snap
    BY <1>7 DEF StopAttempt, ScheduleRetry, Goto, CopyStory, Changing
  <2>2. op.task \in DOMAIN mem.tasks
    BY <1>0, <2>1 DEF CallFits
  <2>3. SameButTasks(mem', mem)
    BY <1>7, <1>a, <2>1, <2>2, TaskOperations DEF StopAttempt, ScheduleRetry
  <2>4. Life(mem') = Life(mem)
    BY <1>a, <2>1, <2>3, LifeWithoutTasks
  <2> QED
    BY <1>7, <2>1, <2>4 DEF StopAttempt, ScheduleRetry, Goto, CopyStory, Changing, LifeStep
<1>8. CASE RestartAttempt
  BY <1>8 DEF RestartAttempt, Goto, CopyStory, Changing, LifeStep
<1>9. CASE SteerMission
  <2>1. pc = "steer" /\ mem = snap /\ snap # NoMission /\ op.arg.goal \in Goals
    BY <1>0, <1>9 DEF SteerMission, CopyStory, Changing, CallFits
  <2>2. CASE Goto("tasks") /\ mem' = Steer(mem, op.arg.goal)
    <3>1. Life(mem') = Abstract!Fresh(Life(snap).rev + 1, op.arg.goal)
      BY <1>a, <1>b, <2>1, <2>2, LifeOperations
    <3> QED
      BY <1>b, <2>1, <2>2, <3>1 DEF Goto, CopyStory, Changing, LifeStep
  <2> QED
    BY <1>9, <1>c, <2>2 DEF SteerMission
<1>10. CASE BindFrozen
  <2> DEFINE c == CandidateId(op.arg, mem.goal)
  <2>1. /\ pc = "bind" /\ mem = snap /\ snap # NoMission /\ snap.active = None
        /\ Kind(mem) = "implementation" /\ op.arg \in Contents
    BY <1>0, <1>10 DEF BindFrozen, CopyStory, Changing, CallFits
  <2>2. CASE Goto("save") /\ mem' = BindCandidate(mem, c)
    <3>1. c \in CandidateIds
      BY <1>a, <2>1 DEF IsMission, CandidateIds
    <3>2. ~mem.approved
      BY <1>b, <2>1 DEF Valid, BindingsEarned
    <3>3. Life(mem') = [Life(snap) EXCEPT !.active = c]
      BY <1>b, <2>1, <2>2, <3>1, <3>2, LifeOperations
    <3> QED
      BY <1>b, <2>1, <2>2, <3>1, <3>3 DEF Goto, CopyStory, Changing, LifeStep
  <2> QED
    BY <1>10, <1>c, <2>2 DEF BindFrozen
<1>11. CASE MarkDecision
  <2>1. /\ pc = "mark" /\ mem = snap /\ snap # NoMission /\ snap' = snap /\ pc' = "advance"
        /\ Kind(mem) = "validation" /\ mem.active # None /\ mem' = MarkApproved(mem)
    BY <1>0, <1>11 DEF MarkDecision, Goto, CopyStory, Changing, CallFits
  <2>2. Life(mem') = [Life(snap) EXCEPT !.approved = TRUE]
    BY <1>b, <2>1, LifeOperations
  <2> QED
    BY <2>1, <2>2 DEF CopyStory, Changing
<1>12. CASE BindPackage
  <2>1. /\ pc = "release" /\ mem = snap /\ snap # NoMission /\ Kind(mem) = "release"
    BY <1>0, <1>12 DEF BindPackage, CopyStory, Changing, CallFits
  <2>2. CASE mem.approved /\ Goto("advance") /\ mem' = BindRelease(mem)
    <3>1. Life(mem') = [Life(snap) EXCEPT !.released = TRUE]
      BY <1>b, <2>1, <2>2, LifeOperations
    <3> QED
      BY <2>1, <2>2, <3>1 DEF Goto, CopyStory, Changing
  <2> QED
    BY <1>12, <1>c, <2>2 DEF BindPackage
<1>13. CASE \/ InvalidateEvidence \/ FreezeSnapshot \/ ExamineCandidate \/ AppendEvidence
            \/ NoteEvidence
  BY <1>13, <1>c, CopyUntouched DEF InvalidateEvidence, FreezeSnapshot, ExamineCandidate,
     AppendEvidence, NoteEvidence, Changing
<1>14. CASE ReviewCandidate \/ SaveDecision \/ PackCandidate \/ SaveRelease
  BY <1>14, <1>c, CopyUntouched DEF ReviewCandidate, SaveDecision, PackCandidate, SaveRelease,
     Changing
<1>15. CASE SaveSnapshot
  BY <1>15, <1>a, LifeOf DEF SaveSnapshot, CopyStory, Changing
<1>16. CASE Respond \/ RefuseArguments
  BY <1>16, <1>c DEF Respond, RefuseArguments
<1>17. CASE Crash
  BY <1>17 DEF Crash, Release, CopyStory, Changing
<1>18. CASE Environment \/ UNCHANGED vars
  <2>1. UNCHANGED <<snap, mem, pc>>
    BY <1>18 DEF Environment, Tamper, RewriteArtifact, AlterEvidence, vars
  <2> QED
    BY <2>1 DEF CopyStory
<1> QED
  BY <1>1, <1>2, <1>3, <1>4, <1>5, <1>6, <1>7, <1>8, <1>9, <1>10, <1>11, <1>12, <1>13, <1>14,
     <1>15, <1>16, <1>17, <1>18 DEF Next, Step

\* The copies of all calls, along every behaviour.
LEMMA CopyInvariance == Spec => []CopyStory
<1>1. Init => CopyStory
  BY NoCopy DEF Init
<1> QED
  BY <1>1, CopyStep, Invariance, PTL DEF Spec

\* The saved mission goes through the stages as the abstract life cycle says:
\* one at a time, each with what it had to bind, a new revision with nothing of
\* the old, whatever the calls and wherever the process dies (the operations of
\* MissionManager, and the save with which each call of the service ends).
THEOREM LifecycleImplemented == Spec => ImplementsLifecycle
<1>1. Init => Abstract!Init
  BY DEF Init, Abstract!Init, Life, NoMission, Abstract!Unborn
<1>2. CopyStory /\ [Next]_vars => [Abstract!Next]_(Life(snap))
  <2> SUFFICES ASSUME CopyStory, [Next]_vars PROVE Life(snap)' = Life(snap) \/ Abstract!Next
    OBVIOUS
  <2>1. CASE UNCHANGED snap
    BY <2>1 DEF Life
  <2>2. CASE SaveSnapshot
    <3>1. LifeStep(Life(snap), Life(snap'))
      BY <2>2 DEF SaveSnapshot, CopyStory
    <3> QED
      BY <3>1 DEF LifeStep, Abstract!Next, Abstract!Launch, Abstract!Steer, Abstract!Leave,
         Abstract!BindCandidate, Abstract!Approve, Abstract!BindPackage
  <2> QED
    BY <2>1, <2>2, Writers
<1> QED
  BY <1>1, <1>2, CopyInvariance, PTL DEF Spec, ImplementsLifecycle, Abstract!Spec

-----------------------------------------------------------------------------
(* What the events change in the log.                                      *)

\* Where the mission is, according to a log; what became of its tasks; and what
\* was said of candidates.
Course(l) == <<l.rev, l.stage, l.completed, l.steered>>
Work(l) == <<l.tasks, l.results, l.checkpoints>>
Marks(l) == <<l.frozen, l.decided, l.packaged, l.evidence>>

\* Events about tasks say nothing of the mission or of candidates.
LEMMA WorkEvents ==
    ASSUME NEW l, LogShape(l)
    PROVE  /\ \A t : \A n \in {TaskIssued(l, t), RetryScheduled(l, t)} :
                  Course(n) = Course(l) /\ Marks(n) = Marks(l)
           /\ \A t, a : \A n \in {AttemptStarted(l, t, a), AttemptInterrupted(l, t, a),
                                  ResultReceived(l, t, a), CheckpointRecorded(l, t, a)} :
                  Course(n) = Course(l) /\ Marks(n) = Marks(l)
BY DEF LogShape, EmptyLog, Course, Marks, TaskIssued, RetryScheduled, AttemptStarted,
   AttemptInterrupted, ResultReceived, CheckpointRecorded

\* Events about the mission's course say nothing of tasks or of candidates.
LEMMA CourseEvents ==
    ASSUME NEW l, LogShape(l)
    PROVE  /\ Work(MissionCompleted(l)) = Work(l) /\ Marks(MissionCompleted(l)) = Marks(l)
           /\ \A stage : \A n \in {MissionStarted(l, stage), StageAdvanced(l, stage)} :
                  Work(n) = Work(l) /\ Marks(n) = Marks(l)
           /\ \A rev, stage, instruction :
                  LET n == RevisionStarted(l, rev, stage, instruction)
                  IN Work(n) = Work(l) /\ Marks(n) = Marks(l)
BY DEF LogShape, EmptyLog, Work, Marks, MissionStarted, RevisionStarted, StageAdvanced,
   MissionCompleted

\* Events about candidates say nothing of anything else.
LEMMA MarkEvents ==
    ASSUME NEW l, LogShape(l)
    PROVE  /\ \A rev, c :
                  /\ \A n \in {CandidateFrozen(l, rev, c), QualityDecided(l, rev, c),
                               PackageCreated(l, rev, c)} :
                         Course(n) = Course(l) /\ Work(n) = Work(l)
                  /\ Marks(CandidateFrozen(l, rev, c)) =
                         <<l.frozen \cup {<<rev, c>>}, l.decided, l.packaged, l.evidence>>
                  /\ Marks(QualityDecided(l, rev, c)) =
                         <<l.frozen, l.decided \cup {<<rev, c>>}, l.packaged, l.evidence>>
                  /\ Marks(PackageCreated(l, rev, c)) =
                         <<l.frozen, l.decided, l.packaged \cup {<<rev, c>>}, l.evidence>>
           /\ \A c, type :
                  LET n == EvidenceRecorded(l, c, type)
                  IN /\ Course(n) = Course(l) /\ Work(n) = Work(l)
                     /\ Marks(n) =
                            <<l.frozen, l.decided, l.packaged, l.evidence \cup {<<c, type>>}>>
BY DEF LogShape, EmptyLog, Course, Work, Marks, CandidateFrozen, QualityDecided, PackageCreated,
   EvidenceRecorded

\* A crash of the first call erases the log nobody has a mission id for.
LogErased == Crash /\ snap = NoMission /\ log' = EmptyLog

\* What a step may do to what the log says of candidates.
MarksStep ==
    \/ Marks(log') = Marks(log)
    \/ LogErased
    \/ /\ BindFrozen
       /\ Marks(log') = <<log.frozen \cup {<<mem.rev, CandidateId(op.arg, mem.goal)>>},
                          log.decided, log.packaged, log.evidence>>
    \/ /\ MarkDecision
       /\ Marks(log') = <<log.frozen, log.decided \cup {<<mem.rev, mem.active>>},
                          log.packaged, log.evidence>>
    \/ /\ BindPackage
       /\ Marks(log') = <<log.frozen, log.decided,
                          log.packaged \cup {<<mem.rev, mem.active>>}, log.evidence>>
    \/ /\ NoteEvidence
       /\ Marks(log') = <<log.frozen, log.decided, log.packaged,
                          log.evidence \cup {<<mem.active, op.arg.type>>}>>

\* Four places say something of a candidate, and a crash may erase a log that
\* belongs to no saved mission.
LEMMA MarksWritten == LogShape(log) /\ [Next]_vars => MarksStep
<1> SUFFICES ASSUME LogShape(log), [Next]_vars PROVE MarksStep
  OBVIOUS
<1>a. log' = log => Marks(log') = Marks(log)
  OBVIOUS
<1>b. Abandon => Marks(log') = Marks(log)
  BY <1>a DEF Abandon
<1>1. ASSUME NEW g, Start(g) PROVE Marks(log') = Marks(log)
  BY <1>1, CourseEvents DEF Start
<1>2. CASE ReceiveResult \/ IssueStageTask
  <2>1. \/ log' = log \/ Abandon \/ log' = ResultReceived(log, op.task, mem.tasks[op.task].attempt)
        \/ \E t : log' = TaskIssued(log, t)
    BY <1>2 DEF ReceiveResult, IssueStageTask
  <2>2. Marks(log') = Marks(log)
    BY <1>a, <1>b, <2>1, WorkEvents
  <2> QED
    BY <2>2 DEF MarksStep
<1>3. CASE StartAttempt \/ CheckpointAttempt \/ StopAttempt \/ ScheduleRetry \/ RestartAttempt
  <2>1. Marks(log') = Marks(log)
    BY <1>3, <1>a, <1>b, WorkEvents DEF StartAttempt, CheckpointAttempt, StopAttempt,
       ScheduleRetry, RestartAttempt
  <2> QED
    BY <2>1 DEF MarksStep
<1>4. CASE AdvanceStage \/ SteerMission
  <2>1. Marks(log') = Marks(log)
    BY <1>4, <1>a, <1>b, CourseEvents DEF AdvanceStage, SteerMission
  <2> QED
    BY <2>1 DEF MarksStep
<1>5. CASE BindFrozen
  <2>1. CASE log' = CandidateFrozen(log, mem.rev, CandidateId(op.arg, mem.goal))
    <3>1. Marks(log') = <<log.frozen \cup {<<mem.rev, CandidateId(op.arg, mem.goal)>>},
                          log.decided, log.packaged, log.evidence>>
      BY <2>1, MarkEvents
    <3> QED
      BY <1>5, <3>1 DEF MarksStep
  <2> QED
    BY <1>5, <1>b, <2>1 DEF BindFrozen, MarksStep
<1>6. CASE MarkDecision
  <2>1. Marks(log') = <<log.frozen, log.decided \cup {<<mem.rev, mem.active>>},
                        log.packaged, log.evidence>>
    BY <1>6, MarkEvents DEF MarkDecision
  <2> QED
    BY <1>6, <2>1 DEF MarksStep
<1>7. CASE BindPackage
  <2>1. CASE log' = PackageCreated(log, mem.rev, mem.active)
    <3>1. Marks(log') = <<log.frozen, log.decided,
                          log.packaged \cup {<<mem.rev, mem.active>>}, log.evidence>>
      BY <2>1, MarkEvents
    <3> QED
      BY <1>7, <3>1 DEF MarksStep
  <2> QED
    BY <1>7, <1>b, <2>1 DEF BindPackage, MarksStep
<1>8. CASE NoteEvidence
  <2>1. Marks(log') = <<log.frozen, log.decided, log.packaged,
                        log.evidence \cup {<<mem.active, op.arg.type>>}>>
    BY <1>8, MarkEvents DEF NoteEvidence
  <2> QED
    BY <1>8, <2>1 DEF MarksStep
<1>9. CASE Crash
  <2>1. log' = log \/ LogErased
    BY <1>9 DEF Crash, LogErased
  <2> QED
    BY <1>a, <2>1 DEF MarksStep
<1>10. CASE UNCHANGED log
  BY <1>a, <1>10 DEF MarksStep
<1>11. ASSUME NEW g, Start(g) PROVE MarksStep
  BY <1>1, <1>11 DEF MarksStep
<1> QED
  BY <1>2, <1>3, <1>4, <1>5, <1>6, <1>7, <1>8, <1>9, <1>10, <1>11, Writers

-----------------------------------------------------------------------------
(* How a call gets to where it is.                                         *)

\* The service itself does nothing: the environment's steps, and none at all.
Aside == UNCHANGED <<snap, mem, op, pc, log, grants, crashes>>

\* The points of a call at which it neither begins nor has changed its copy.
Between == {"steer", "bind", "record", "note", "decide", "mark", "ready", "release"}

\* Which steps lead to which point of a call.
Arrivals ==
    /\ pc' \in Begins \cup Between \cup Changing
    /\ pc' \in Begins \ {"respond", "invalidate"} => Loading
    /\ pc' = "invalidate" => Loading \/ InvalidateEvidence
    /\ pc' = "steer" => InvalidateEvidence
    /\ pc' = "bind" => FreezeSnapshot
    /\ pc' = "record" => ExamineCandidate
    /\ pc' = "note" => AppendEvidence
    /\ pc' = "decide" => ReviewCandidate
    /\ pc' = "mark" => SaveDecision
    /\ pc' = "ready" => PackCandidate
    /\ pc' = "release" => SaveRelease
    /\ pc' = "restart" => ScheduleRetry
    /\ pc' = "attempt" => IssueStageTask
    /\ pc' = "advance" => ReceiveResult \/ MarkDecision \/ BindPackage
    /\ pc' = "tasks" => (\E g \in Goals : Start(g)) \/ AdvanceStage \/ StartAttempt \/ SteerMission
    /\ pc' = "save" => \/ ReceiveResult \/ IssueStageTask \/ StopAttempt \/ RestartAttempt
                       \/ BindFrozen
    /\ pc' = "respond" => Loading \/ CheckpointAttempt \/ NoteEvidence \/ SaveSnapshot

\* The steps that write the working copy of a call that goes on.
Rewriting ==
    \/ (\E g \in Goals : Start(g)) \/ Loading
    \/ ReceiveResult \/ AdvanceStage \/ IssueStageTask \/ StopAttempt \/ ScheduleRetry
    \/ SteerMission \/ BindFrozen \/ MarkDecision \/ BindPackage

\* A step is the environment's, ends the call, or takes it to its next write.
LEMMA Progress ==
    ASSUME [Next]_vars
    PROVE  \/ Aside
           \/ Release
           \/ /\ Arrivals
              /\ (pc # "idle" /\ mem' = mem) \/ Rewriting
              /\ op' = op \/ (\E g \in Goals : Start(g)) \/ Loading \/ IssueStageTask
<1>a. Abandon => Release
  BY DEF Abandon
<1>1. CASE Client
  <2>1. ASSUME NEW g \in Goals, Start(g) PROVE Arrivals /\ Rewriting
    BY <2>1 DEF Start, Goto, Arrivals, Rewriting, Begins, Between, Changing
  <2>2. ASSUME Loading PROVE Arrivals /\ Rewriting
    <3>1. pc' \in Begins
      BY <2>2 DEF Loading, Loaded, Call
    <3> QED
      BY <2>2, <3>1 DEF Arrivals, Rewriting, Begins, Between, Changing
  <2> QED
    BY <1>1, <2>1, <2>2, Loads
<1>2. CASE \/ ReceiveResult \/ AdvanceStage \/ IssueStageTask \/ StartAttempt
           \/ CheckpointAttempt \/ StopAttempt \/ ScheduleRetry \/ RestartAttempt
           \/ RefuseArguments
  <2>0. pc # "idle"
    BY <1>2 DEF RefuseArguments, ReceiveResult, AdvanceStage, IssueStageTask, StartAttempt,
       CheckpointAttempt, StopAttempt, ScheduleRetry, RestartAttempt
  <2>1. \/ Release
        \/ ReceiveResult /\ pc' \in {"save", "advance"} /\ op' = op
        \/ AdvanceStage /\ pc' = "tasks" /\ op' = op
        \/ IssueStageTask /\ pc' \in {"save", "attempt"}
        \/ StartAttempt /\ pc' = "tasks" /\ UNCHANGED <<mem, op>>
        \/ CheckpointAttempt /\ pc' = "respond" /\ UNCHANGED <<mem, op>>
        \/ StopAttempt /\ pc' = "save" /\ op' = op
        \/ ScheduleRetry /\ pc' = "restart" /\ op' = op
        \/ RestartAttempt /\ pc' = "save" /\ UNCHANGED <<mem, op>>
    BY <1>2, <1>a DEF RefuseArguments, ReceiveResult, AdvanceStage, IssueStageTask, StartAttempt,
       CheckpointAttempt, StopAttempt, ScheduleRetry, RestartAttempt, Goto
  <2> QED
    BY <2>0, <2>1 DEF Arrivals, Rewriting, Begins, Between, Changing
<1>3. CASE \/ InvalidateEvidence \/ SteerMission \/ FreezeSnapshot \/ BindFrozen
           \/ ExamineCandidate \/ AppendEvidence \/ NoteEvidence
  <2>0. pc # "idle"
    BY <1>3 DEF InvalidateEvidence, SteerMission, FreezeSnapshot, BindFrozen,
       ExamineCandidate, AppendEvidence, NoteEvidence
  <2>1. \/ Release
        \/ InvalidateEvidence /\ pc' \in {"invalidate", "steer"} /\ UNCHANGED <<mem, op>>
        \/ SteerMission /\ pc' = "tasks" /\ op' = op
        \/ FreezeSnapshot /\ pc' = "bind" /\ UNCHANGED <<mem, op>>
        \/ BindFrozen /\ pc' = "save" /\ op' = op
        \/ ExamineCandidate /\ pc' = "record" /\ UNCHANGED <<mem, op>>
        \/ AppendEvidence /\ pc' = "note" /\ UNCHANGED <<mem, op>>
        \/ NoteEvidence /\ pc' = "respond" /\ UNCHANGED <<mem, op>>
    BY <1>3, <1>a DEF InvalidateEvidence, SteerMission, FreezeSnapshot, BindFrozen,
       ExamineCandidate, AppendEvidence, NoteEvidence, Goto
  <2> QED
    BY <2>0, <2>1 DEF Arrivals, Rewriting, Begins, Between, Changing
<1>4. CASE \/ ReviewCandidate \/ SaveDecision \/ MarkDecision \/ PackCandidate \/ SaveRelease
           \/ BindPackage
  <2>0. pc # "idle"
    BY <1>4 DEF ReviewCandidate, SaveDecision, MarkDecision, PackCandidate, SaveRelease,
       BindPackage
  <2>1. \/ Release
        \/ ReviewCandidate /\ pc' = "decide" /\ UNCHANGED <<mem, op>>
        \/ SaveDecision /\ pc' = "mark" /\ UNCHANGED <<mem, op>>
        \/ MarkDecision /\ pc' = "advance" /\ op' = op
        \/ PackCandidate /\ pc' = "ready" /\ UNCHANGED <<mem, op>>
        \/ SaveRelease /\ pc' = "release" /\ UNCHANGED <<mem, op>>
        \/ BindPackage /\ pc' = "advance" /\ op' = op
    BY <1>4, <1>a DEF ReviewCandidate, SaveDecision, MarkDecision, PackCandidate, SaveRelease,
       BindPackage, Goto
  <2> QED
    BY <2>0, <2>1 DEF Arrivals, Rewriting, Begins, Between, Changing
<1>5. CASE SaveSnapshot \/ Respond \/ Crash
  <2>1. \/ Release
        \/ SaveSnapshot /\ pc # "idle" /\ pc' = "respond" /\ UNCHANGED <<mem, op>>
    BY <1>5, <1>a DEF SaveSnapshot, Respond, Crash
  <2> QED
    BY <2>1 DEF Arrivals, Begins, Between, Changing
<1>6. CASE Environment \/ UNCHANGED vars
  BY <1>6 DEF Environment, Tamper, RewriteArtifact, AlterEvidence, vars, Aside
<1> QED
  BY <1>1, <1>2, <1>3, <1>4, <1>5, <1>6 DEF Next, Step

\* Where a call is when it takes a step.
LEMMA Departures ==
    /\ ReceiveResult => pc = "receive"
    /\ AdvanceStage => pc = "advance"
    /\ IssueStageTask => pc = "tasks"
    /\ StartAttempt => pc = "attempt"
    /\ CheckpointAttempt => pc = "checkpoint"
    /\ StopAttempt => pc = "interrupt"
    /\ ScheduleRetry => pc = "retry"
    /\ RestartAttempt => pc = "restart"
    /\ InvalidateEvidence => pc = "invalidate"
    /\ SteerMission => pc = "steer"
    /\ FreezeSnapshot => pc = "freeze"
    /\ BindFrozen => pc = "bind"
    /\ ExamineCandidate => pc = "examine"
    /\ AppendEvidence => pc = "record"
    /\ NoteEvidence => pc = "note"
    /\ ReviewCandidate => pc = "review"
    /\ SaveDecision => pc = "decide"
    /\ MarkDecision => pc = "mark"
    /\ PackCandidate => pc = "pack"
    /\ SaveRelease => pc = "ready"
    /\ BindPackage => pc = "release"
    /\ SaveSnapshot => pc = "save"
BY DEF ReceiveResult, AdvanceStage, IssueStageTask, StartAttempt, CheckpointAttempt, StopAttempt,
   ScheduleRetry, RestartAttempt, InvalidateEvidence, SteerMission, FreezeSnapshot, BindFrozen,
   ExamineCandidate, AppendEvidence, NoteEvidence, ReviewCandidate, SaveDecision, MarkDecision,
   PackCandidate, SaveRelease, BindPackage, SaveSnapshot

\* A call that goes on is the call it was.
LEMMA SameCall ==
    CallTyped /\ [Next]_vars =>
        \/ Release \/ (\E g \in Goals : Start(g)) \/ Loading
        \/ op'.kind = op.kind /\ op'.arg = op.arg
<1> SUFFICES ASSUME CallTyped, [Next]_vars, ~Release, ~Loading,
                    ~\E g \in Goals : Start(g)
    PROVE op'.kind = op.kind /\ op'.arg = op.arg
  OBVIOUS
<1>1. op' = op \/ IssueStageTask
  BY Progress DEF Aside
<1>2. IssueStageTask => op' = op \/ \E t : op' = [op EXCEPT !.task = t]
  BY DEF IssueStageTask, Abandon
<1> QED
  BY <1>1, <1>2 DEF CallTyped

-----------------------------------------------------------------------------
(* The candidate store and the ledger behind the log.                      *)

\* What a step may do to a stored candidate's state.
StateStep(c) ==
    \/ store'[c].state = store[c].state
    \/ pc' = "idle" /\ store'[c].state = "CORRUPT"
    \/ store[c].state = "FROZEN" /\ store'[c].state = "VERIFYING"
    \/ SaveDecision /\ c = mem.active /\ store'[c].state = "APPROVED"
    \/ SaveRelease /\ c = mem.active /\ store'[c].state = "RELEASE_READY"

\* Candidates stay in the store with their revision.
LEMMA StoreWritten ==
    ASSUME StoreTyped, [Next]_vars, NEW c \in DOMAIN store
    PROVE  c \in DOMAIN store' /\ store'[c].rev = store[c].rev /\ StateStep(c)
<1>0. \A d \in DOMAIN store : DOMAIN store[d] = {"rev", "state", "intact"}
  BY DEF StoreTyped
<1>a. ASSUME NEW d, NEW state, SetState(d, state)
      PROVE  /\ DOMAIN store' = DOMAIN store /\ store'[c].rev = store[c].rev
             /\ IF c = d THEN store'[c].state = state ELSE store'[c].state = store[c].state
  BY <1>0, <1>a DEF SetState
<1>1. CASE UNCHANGED store
  BY <1>1 DEF StateStep
<1>2. ASSUME NEW d, MarkCorrupt(d), pc' = "idle"
      PROVE  c \in DOMAIN store' /\ store'[c].rev = store[c].rev /\ StateStep(c)
  BY <1>1, <1>2, <1>a DEF MarkCorrupt, StateStep
<1>3. ASSUME NEW d \in DOMAIN store, Tamper(d)
      PROVE  c \in DOMAIN store' /\ store'[c].rev = store[c].rev /\ StateStep(c)
  BY <1>0, <1>3 DEF Tamper, StateStep
<1>4. CASE FreezeSnapshot
  <2> DEFINE d == CandidateId(op.arg, mem.goal)
             new == [rev |-> mem.rev, state |-> "FROZEN", intact |-> TRUE]
  <2>1. \/ UNCHANGED store
        \/ /\ d \notin DOMAIN store
           /\ store' = [e \in DOMAIN store \cup {d} |-> IF e = d THEN new ELSE store[e]]
    BY <1>4 DEF FreezeSnapshot
  <2> HIDE DEF d, new
  <2> QED
    BY <1>1, <2>1 DEF StateStep
<1>5. CASE ExamineCandidate
  <2>1. CASE SetState(mem.active, StateOnEvidence(store[mem.active].state))
    BY <1>a, <2>1 DEF StateOnEvidence, StateStep
  <2> QED
    BY <1>2, <1>5, <2>1 DEF ExamineCandidate, Abandon, Release
<1>6. CASE SaveDecision
  <2>1. SetState(mem.active, "APPROVED")
    BY <1>6 DEF SaveDecision
  <2> QED
    BY <1>6, <1>a, <2>1 DEF StateStep
<1>7. CASE SaveRelease
  <2>1. SetState(mem.active, "RELEASE_READY")
    BY <1>7 DEF SaveRelease
  <2> QED
    BY <1>7, <1>a, <2>1 DEF StateStep
<1> QED
  BY <1>1, <1>2, <1>3, <1>4, <1>5, <1>6, <1>7, Writers

\* Evidence once recorded stays recorded.
LEMMA LedgerWritten == [Next]_vars => DOMAIN ledger \subseteq DOMAIN ledger'
<1> SUFFICES ASSUME [Next]_vars PROVE DOMAIN ledger \subseteq DOMAIN ledger'
  OBVIOUS
<1>1. ASSUME NEW c, NEW type, NEW outcome, SetEvidence(c, type, outcome)
      PROVE  DOMAIN ledger \subseteq DOMAIN ledger'
  BY <1>1 DEF SetEvidence
<1> QED
  BY <1>1, Writers DEF AlterEvidence, InvalidateEvidence, AppendEvidence

\* The stores stay ahead of the log.
LEMMA StoresStep == IInv /\ StoresStory /\ [Next]_vars => StoresStory'
<1> SUFFICES ASSUME IInv, StoresStory, [Next]_vars PROVE StoresStory'
  OBVIOUS
<1>0. StoreTyped /\ LogShape(log)
  BY DEF IInv, StoresTyped, LogFits
<1>a. \A c \in DOMAIN store :
          /\ c \in DOMAIN store' /\ store'[c].rev = store[c].rev
          /\ \/ store'[c].state = store[c].state
             \/ store'[c].state = "CORRUPT" /\ pc' = "idle"
             \/ store[c].state = "FROZEN"
             \/ /\ store[c].state \in {"VERIFYING", "REVIEWING"} /\ store'[c].state = "APPROVED"
                /\ pc = "decide" /\ pc' = "mark"
             \/ /\ store[c].state = "APPROVED" /\ store'[c].state = "RELEASE_READY"
                /\ pc = "ready" /\ pc' = "release"
  BY <1>0, StoreWritten DEF StateStep, StoresStory, SaveDecision, SaveRelease, Goto
<1>b. DOMAIN ledger \subseteq DOMAIN ledger'
  BY LedgerWritten
<1>1. \A r \in log'.frozen : r[2] \in DOMAIN store' /\ store'[r[2]].rev = r[1]
  <2>1. ASSUME NEW r \in log'.frozen, r \notin log.frozen
        PROVE  /\ BindFrozen /\ r[1] = mem.rev /\ r[2] = CandidateId(op.arg, mem.goal)
    BY <1>0, <2>1, MarksWritten DEF MarksStep, Marks, LogErased, EmptyLog
  <2>2. BindFrozen => pc = "bind"
    BY DEF BindFrozen
  <2> QED
    BY <1>a, <2>1, <2>2 DEF StoresStory
<1>2. \A r \in log'.decided :
          /\ r[2] \in DOMAIN store'
          /\ store'[r[2]].state \in {"APPROVED", "RELEASE_READY", "CORRUPT"}
  <2>1. ASSUME NEW r \in log'.decided, r \notin log.decided
        PROVE  MarkDecision /\ r[2] = mem.active
    BY <1>0, <2>1, MarksWritten DEF MarksStep, Marks, LogErased, EmptyLog
  <2>2. MarkDecision => pc = "mark" /\ UNCHANGED store
    BY DEF MarkDecision
  <2> QED
    BY <1>a, <2>1, <2>2 DEF StoresStory
<1>3. \A r \in log'.packaged :
          r[2] \in DOMAIN store' /\ store'[r[2]].state \in {"RELEASE_READY", "CORRUPT"}
  <2>1. ASSUME NEW r \in log'.packaged, r \notin log.packaged
        PROVE  BindPackage /\ r[2] = mem.active
    BY <1>0, <2>1, MarksWritten DEF MarksStep, Marks, LogErased, EmptyLog
  <2>2. BindPackage => pc = "release" /\ UNCHANGED store
    BY DEF BindPackage
  <2> QED
    BY <1>a, <2>1, <2>2 DEF StoresStory
<1>4. log'.evidence \subseteq DOMAIN ledger'
  <2>1. ASSUME NEW e \in log'.evidence, e \notin log.evidence
        PROVE  NoteEvidence /\ e = <<mem.active, op.arg.type>>
    BY <1>0, <2>1, MarksWritten DEF MarksStep, Marks, LogErased, EmptyLog
  <2>2. NoteEvidence => pc = "note"
    BY DEF NoteEvidence
  <2> QED
    BY <1>b, <2>1, <2>2 DEF StoresStory
<1> DEFINE OnCall ==
        /\ pc = "bind" => LET c == CandidateId(op.arg, mem.goal)
                          IN c \in DOMAIN store /\ store[c].rev = mem.rev
        /\ pc \in {"decide", "mark", "ready", "release"} => mem.active \in DOMAIN store
        /\ pc = "decide" => store[mem.active].state \in {"VERIFYING", "REVIEWING"}
        /\ pc \in {"mark", "ready"} => store[mem.active].state = "APPROVED"
        /\ pc = "release" => store[mem.active].state = "RELEASE_READY"
        /\ pc = "note" => <<mem.active, op.arg.type>> \in DOMAIN ledger
<1>5. OnCall'
  <2>0. OnCall
    BY DEF StoresStory
  <2>1. CASE Aside
    BY <1>a, <1>b, <2>0, <2>1 DEF Aside
  <2>2. CASE pc' = "idle"
    BY <2>2
  <2>3. CASE Arrivals
    <3>1. CASE FreezeSnapshot /\ pc' = "bind"
      <4> DEFINE c == CandidateId(op.arg, mem.goal)
                 new == [rev |-> mem.rev, state |-> "FROZEN", intact |-> TRUE]
      <4>1. UNCHANGED <<mem, op>> /\ c \in DOMAIN store' /\ store'[c] = new
        BY <3>1 DEF FreezeSnapshot, Abandon, Release
      <4>2. new.rev = mem.rev
        OBVIOUS
      <4>3. c' = c
        BY <4>1
      <4> HIDE DEF c, new
      <4>4. c' \in DOMAIN store' /\ store'[c'].rev = mem'.rev
        BY <4>1, <4>2, <4>3
      <4> QED
        BY <3>1, <4>4 DEF c
    <3>2. CASE AppendEvidence /\ pc' = "note"
      BY <3>2 DEF AppendEvidence, SetEvidence, Abandon, Release
    <3>3. CASE ReviewCandidate /\ pc' = "decide"
      BY <3>3 DEF ReviewCandidate, ReviewPasses, Verified, Abandon, Release
    <3>4. CASE SaveDecision /\ pc' = "mark"
      <4>1. /\ mem.active \in DOMAIN store /\ mem' = mem
            /\ store' = [store EXCEPT ![mem.active].state = "APPROVED"]
        BY <2>0, <3>4 DEF SaveDecision, SetState
      <4>2. DOMAIN store[mem.active] = {"rev", "state", "intact"}
        BY <1>0, <4>1 DEF StoreTyped
      <4> QED
        BY <3>4, <4>1, <4>2
    <3>5. CASE PackCandidate /\ pc' = "ready"
      BY <3>5 DEF PackCandidate, Verified, Abandon, Release
    <3>6. CASE SaveRelease /\ pc' = "release"
      <4>1. /\ mem.active \in DOMAIN store /\ mem' = mem
            /\ store' = [store EXCEPT ![mem.active].state = "RELEASE_READY"]
        BY <2>0, <3>6 DEF SaveRelease, SetState
      <4>2. DOMAIN store[mem.active] = {"rev", "state", "intact"}
        BY <1>0, <4>1 DEF StoreTyped
      <4> QED
        BY <3>6, <4>1, <4>2
    <3> QED
      BY <2>3, <3>1, <3>2, <3>3, <3>4, <3>5, <3>6 DEF Arrivals
  <2> QED
    BY <2>1, <2>2, <2>3, Progress DEF Release
<1> QED
  BY <1>1, <1>2, <1>3, <1>4, <1>5 DEF StoresStory, OnCall

\* The stores of every behaviour.
LEMMA StoresInvariance == Spec => []StoresStory
<1>1. Init => StoresStory
  BY DEF Init, StoresStory, EmptyLog
<1> QED
  BY <1>1, StoresStep, Invariance, PTL DEF Spec

\* Of each operation of a task there is one live grant at most, however many
\* responses were sent, cut short or lost (revoke_issued before issue).
THEOREM GrantsAreSingle == Spec => []OneGrantPerOperation
<1>1. Init => OneGrantPerOperation
  BY DEF Init, OneGrantPerOperation
<1> QED
  BY <1>1, GrantsStaySingle, PTL DEF Spec

\* Whatever the log says of a candidate can be looked up in the stores, after
\* any crash between the write to a store and its event
\* (freeze_candidate, approve_candidate, package_release, record_evidence).
THEOREM StoresAreAhead == Spec => []StoresCoverLog
<1>1. StoresStory => StoresCoverLog
  BY DEF StoresStory, StoresCoverLog
<1> QED
  BY <1>1, StoresInvariance, PTL

\* A candidate stays with its revision, and its approval or release is undone
\* by nothing but finding it corrupt (_verified_candidate, approve).
THEOREM DecisionsStand == Spec => DecisionsKept
<1> DEFINE Kept ==
        \A c \in DOMAIN store :
            /\ c \in DOMAIN store' /\ store'[c].rev = store[c].rev
            /\ store[c].state = "APPROVED" =>
                   store'[c].state \in {"APPROVED", "RELEASE_READY", "CORRUPT"}
            /\ store[c].state = "RELEASE_READY" =>
                   store'[c].state \in {"RELEASE_READY", "CORRUPT"}
<1>1. IInv /\ StoresStory /\ [Next]_vars => Kept
  <2> SUFFICES ASSUME IInv, StoresStory, [Next]_vars, NEW c \in DOMAIN store
      PROVE  /\ c \in DOMAIN store' /\ store'[c].rev = store[c].rev
             /\ store[c].state = "APPROVED" =>
                    store'[c].state \in {"APPROVED", "RELEASE_READY", "CORRUPT"}
             /\ store[c].state = "RELEASE_READY" =>
                    store'[c].state \in {"RELEASE_READY", "CORRUPT"}
    OBVIOUS
  <2>1. c \in DOMAIN store' /\ store'[c].rev = store[c].rev /\ StateStep(c)
    BY StoreWritten DEF IInv, StoresTyped
  <2>2. /\ SaveDecision => store[mem.active].state \in {"VERIFYING", "REVIEWING"}
        /\ SaveRelease => store[mem.active].state = "APPROVED"
    BY DEF StoresStory, SaveDecision, SaveRelease
  <2> QED
    BY <2>1, <2>2 DEF StateStep
<1>2. IInv /\ StoresStory /\ [Next]_vars => [Kept]_store
  BY <1>1
<1> HIDE DEF Kept
<1>3. Spec => [][Kept]_store
  BY <1>2, Invariance, StoresInvariance, PTL DEF Spec
<1> QED
  BY <1>3 DEF Kept, DecisionsKept

-----------------------------------------------------------------------------
(* The evidence behind a release.                                          *)

\* Only recording evidence can make an outcome worse than that.
LEMMA OutcomesKept ==
    ASSUME [Next]_vars, NEW c, NEW type, Evidence(c, type) \in Bearing,
           AppendEvidence => c # mem.active
    PROVE  Evidence(c, type)' \in Bearing
<1>1. ASSUME NEW d, NEW other, NEW outcome, SetEvidence(d, other, outcome),
             outcome \in Bearing \/ c # d
      PROVE  Evidence(c, type)' \in Bearing
  BY <1>1 DEF SetEvidence, Evidence, Bearing
<1>2. CASE UNCHANGED ledger
  BY <1>2 DEF Evidence
<1> QED
  BY <1>1, <1>2, Writers DEF AlterEvidence, InvalidateEvidence, AppendEvidence, Bearing

\* A mission in the stages in which evidence is recorded has not been released.
LEMMA NotReleasedYet ==
    ASSUME NEW m, Valid(m), Kind(m) \in {"integration-verification", "validation"}
    PROVE  ~m.released
BY Positions DEF Valid, BindingsEarned, LastStage

\* Steps of a call about one task change nothing else, and no task is added.
LEMMA TaskRewritten ==
    ASSUME IsMission(mem), op.task \in DOMAIN mem.tasks, pc' # "idle",
           ReceiveResult \/ StopAttempt \/ ScheduleRetry
    PROVE  \/ mem' = mem
           \/ SameButTasks(mem', mem) /\ DOMAIN mem'.tasks = DOMAIN mem.tasks
<1> DEFINE InTask(n) == SameButTasks(n, mem) /\ DOMAIN n.tasks = DOMAIN mem.tasks
<1>1. /\ \A gate, digest : InTask(Receive(mem, op.task, gate, digest))
      /\ InTask(Interrupt(mem, op.task))
      /\ \A attempt : InTask(Retry(mem, op.task, attempt))
  BY TaskOperations
<1>2. \/ mem' = mem
      \/ \E gate, digest : mem' = Receive(mem, op.task, gate, digest)
      \/ mem' = Interrupt(mem, op.task)
      \/ \E attempt : mem' = Retry(mem, op.task, attempt)
  BY DEF ReceiveResult, StopAttempt, ScheduleRetry, Abandon, Release
<1>3. mem' = mem \/ InTask(mem')
  <2> HIDE DEF InTask
  <2> QED
    BY <1>1, <1>2
<1> QED
  BY <1>3

\* A copy that is rewritten bears the marks it had, on what it had them on, but for
\* the one it is given.
LEMMA MarkedBefore ==
    ASSUME IInv, [Next]_vars, pc' # "idle", mem'.approved \/ mem'.released
    PROVE  \/ mem' = snap /\ snap # NoMission
           \/ /\ pc # "idle" /\ mem'.goal = mem.goal /\ mem'.active = mem.active
              /\ mem'.approved => mem.approved \/ pc = "mark"
              /\ mem'.released => mem.released \/ pc = "release"
<1>0. MissionsValid /\ CallFits
  BY DEF IInv
<1>a. pc # "idle" => IsMission(mem)
  BY <1>0 DEF MissionsValid, Valid
<1>1. CASE Aside \/ (pc # "idle" /\ mem' = mem)
  BY <1>1 DEF Aside
<1>2. CASE Rewriting
  <2>1. ASSUME NEW g \in Goals, Start(g) PROVE FALSE
    BY <2>1, NewFields DEF Start
  <2>2. CASE Loading
    BY <2>2 DEF Loading, Loaded, Call, Begins
  <2>3. CASE ReceiveResult \/ StopAttempt \/ ScheduleRetry
    <3>1. pc # "idle" /\ op.task \in DOMAIN mem.tasks
      BY <1>0, <2>3 DEF ReceiveResult, StopAttempt, ScheduleRetry, CallFits
    <3>2. mem' = mem \/ SameButTasks(mem', mem)
      BY <1>a, <2>3, <3>1, TaskRewritten
    <3> QED
      BY <3>1, <3>2 DEF SameButTasks
  <2>4. CASE AdvanceStage
    BY <1>a, <2>4, AdvanceFields DEF AdvanceStage
  <2>5. CASE IssueStageTask
    <3>1. mem' = mem \/ SameButTasks(mem', mem)
      BY <1>a, <2>5, IssueFields DEF IssueStageTask, Abandon, Release
    <3> QED
      BY <2>5, <3>1 DEF IssueStageTask, SameButTasks
  <2>6. CASE SteerMission
    <3>1. mem' = Steer(mem, op.arg.goal) /\ pc # "idle"
      BY <2>6 DEF SteerMission, Abandon, Release
    <3> QED
      BY <1>a, <3>1, SteerFlags
  <2>7. CASE BindFrozen
    <3> DEFINE c == CandidateId(op.arg, mem.goal)
    <3>1. mem' = BindCandidate(mem, c) /\ pc # "idle"
      BY <2>7 DEF BindFrozen, Abandon, Release
    <3> HIDE DEF c
    <3>2. BindCandidate(mem, c).approved = FALSE /\ BindCandidate(mem, c).released = FALSE
      BY <1>a, <3>1, BindFlags
    <3> QED
      BY <3>1, <3>2
  <2>8. CASE MarkDecision
    BY <1>a, <2>8, MarkFields, MarkFlags DEF MarkDecision
  <2>9. CASE BindPackage
    <3>1. mem' = BindRelease(mem) /\ pc = "release"
      BY <2>9 DEF BindPackage, Abandon, Release
    <3> QED
      BY <1>a, <3>1, MarkFields, MarkFlags
  <2> QED
    BY <1>2, <2>1, <2>2, <2>3, <2>4, <2>5, <2>6, <2>7, <2>8, <2>9 DEF Rewriting
<1> QED
  BY <1>1, <1>2, Progress DEF Release

\* The evidence behind a release is never lost.
LEMMA EvidenceStep ==
    IInv /\ CopyStory /\ EvidenceStory /\ [Next]_vars => EvidenceStory'
<1> SUFFICES ASSUME IInv, CopyStory, EvidenceStory, [Next]_vars PROVE EvidenceStory'
  OBVIOUS
<1>0. MissionsValid /\ CallFits
  BY DEF IInv
<1>a. AppendEvidence => /\ pc = "record" /\ mem = snap /\ snap # NoMission /\ ~mem.released
                        /\ UNCHANGED snap /\ pc' \in {"idle", "note"}
                        /\ pc' = "note" => mem' = mem
  <2> SUFFICES ASSUME AppendEvidence
      PROVE /\ pc = "record" /\ mem = snap /\ snap # NoMission /\ ~mem.released
            /\ UNCHANGED snap /\ pc' \in {"idle", "note"} /\ (pc' = "note" => mem' = mem)
    OBVIOUS
  <2>1. pc = "record" /\ mem = snap /\ snap # NoMission
    BY DEF AppendEvidence, CopyStory, Changing
  <2>2. Valid(mem) /\ Kind(mem) \in {"integration-verification", "validation"}
    BY <1>0, <2>1 DEF MissionsValid, EvidenceStory
  <2> QED
    BY <2>1, <2>2, NotReleasedYet DEF AppendEvidence, Abandon, Release, Goto
<1>b. ASSUME NEW m, Backed(m), ~AppendEvidence
      PROVE  \A n : n.goal = m.goal /\ n.active = m.active =>
                 \A type \in RequiredEvidence(n.goal) : Evidence(n.active, type)' \in Bearing
  BY <1>b, OutcomesKept DEF Backed
<1>1. (snap # NoMission /\ snap.released => Backed(snap))'
  <2>1. CASE AppendEvidence
    BY <1>a, <2>1
  <2>2. CASE ~AppendEvidence /\ UNCHANGED snap
    BY <1>b, <2>2 DEF EvidenceStory, Backed
  <2>3. CASE ~AppendEvidence /\ SaveSnapshot
    <3>1. snap' = mem /\ pc # "idle"
      BY <2>3 DEF SaveSnapshot
    <3> QED
      BY <1>b, <2>3, <3>1 DEF EvidenceStory, Backed
  <2> QED
    BY <2>1, <2>2, <2>3, Writers
<1>2. (pc # "idle" /\ mem.released => Backed(mem))'
  <2> SUFFICES ASSUME pc' # "idle", mem'.released PROVE Backed(mem)'
    OBVIOUS
  <2>1. CASE AppendEvidence
    BY <1>a, <2>1
  <2>2. CASE ~AppendEvidence
    <3>1. CASE mem' = snap /\ snap # NoMission
      BY <1>b, <2>2, <3>1 DEF EvidenceStory, Backed
    <3>2. CASE /\ pc # "idle" /\ mem'.goal = mem.goal /\ mem'.active = mem.active
               /\ mem.released \/ pc = "release"
      BY <1>b, <2>2, <3>2 DEF EvidenceStory, Backed
    <3> QED
      BY <3>1, <3>2, MarkedBefore
  <2> QED
    BY <2>1, <2>2
<1>3. (pc \in {"ready", "release"} => Backed(mem))'
  <2>1. CASE Aside
    <3>1. ~AppendEvidence
      BY <1>a, <2>1 DEF Aside
    <3> QED
      BY <1>b, <2>1, <3>1 DEF Aside, EvidenceStory, Backed
  <2>2. CASE PackCandidate /\ pc' = "ready"
    BY <2>2 DEF PackCandidate, Abandon, Release, EvidenceSuffices, Evidence, Backed, Bearing
  <2>3. CASE SaveRelease /\ pc' = "release"
    BY <2>3 DEF SaveRelease, EvidenceStory, Evidence, Backed
  <2> QED
    BY <2>1, <2>2, <2>3, Progress DEF Arrivals, Release
<1>4. (pc \in {"examine", "record"} =>
           Kind(mem) \in {"integration-verification", "validation"})'
  <2> SUFFICES ASSUME pc' \in {"examine", "record"}
      PROVE Kind(mem') \in {"integration-verification", "validation"}
    BY DEF Kind
  <2>1. CASE Aside
    BY <2>1 DEF Aside, EvidenceStory
  <2>2. CASE Loading
    BY <2>2 DEF Loading, Loaded, Call, Begins
  <2>3. CASE ExamineCandidate /\ pc' = "record"
    BY <2>3 DEF ExamineCandidate, Abandon, Release, EvidenceStory
  <2>4. ~InvalidateEvidence
    BY DEF InvalidateEvidence, Goto
  <2>5. Aside \/ Arrivals
    BY Progress DEF Release
  <2>6. pc' = "examine" \/ pc' = "record"
    OBVIOUS
  <2> QED
    BY <2>1, <2>2, <2>3, <2>4, <2>5, <2>6 DEF Arrivals, Begins
<1> QED
  BY <1>1, <1>2, <1>3, <1>4 DEF EvidenceStory

\* No mission is released on evidence that is missing or failing: packaging
\* looks at the ledger again, and nothing is recorded any more in its stage
\* (package_release, record_evidence, _require_evidence).
THEOREM ReleasesAreBacked == Spec => []ReleasedOnEvidence
<1>1. Init => EvidenceStory
  BY DEF Init, EvidenceStory
<1>2. EvidenceStory => ReleasedOnEvidence
  BY DEF EvidenceStory, Backed, Bearing, ReleasedOnEvidence
<1> QED
  BY <1>1, <1>2, EvidenceStep, Invariance, CopyInvariance, PTL DEF Spec

\* What passes when a gate looks at it has passed since the call began.
LEMMA PassingBefore ==
    ASSUME IInv, FoundStory, [Next]_vars, Witness, pc' \in {"review", "pack"},
           NEW e \in DOMAIN ledger', ledger'[e] = "pass"
    PROVE  e \in DOMAIN found' /\ found'[e] = "pass"
<1>1. CASE pc = "idle"
  BY <1>1 DEF Witness
<1>2. CASE pc # "idle"
  <2>1. Aside
    <3>1. ~Loading /\ ~InvalidateEvidence
      BY <1>2 DEF Loading, Loaded, Call, InvalidateEvidence, Goto
    <3> QED
      BY <3>1, Progress DEF Arrivals, Release, Begins
  <2>2. pc \in {"review", "pack"} /\ found' = found
    BY <1>2, <2>1 DEF Aside, Witness
  <2>3. ~InvalidateEvidence /\ ~AppendEvidence
    BY <2>2 DEF InvalidateEvidence, AppendEvidence
  <2>4. e \in DOMAIN ledger /\ ledger[e] = "pass"
    <3>1. CASE UNCHANGED ledger
      BY <3>1
    <3>2. CASE \E d \in DOMAIN ledger : AlterEvidence(d[1], d[2])
      <4>1. PICK d \in DOMAIN ledger : AlterEvidence(d[1], d[2])
        BY <3>2
      <4> QED
        BY <4>1 DEF AlterEvidence, SetEvidence
    <3> QED
      BY <2>3, <3>1, <3>2, Writers
  <2> QED
    BY <2>2, <2>4 DEF FoundStory
<1> QED
  BY <1>1, <1>2

\* A gate lets a call through only on what the call found.
LEMMA FoundStep ==
    IInv /\ CopyStory /\ FoundStory /\ [Next]_vars /\ Witness => FoundStory'
<1> SUFFICES ASSUME IInv, CopyStory, FoundStory, [Next]_vars, Witness PROVE FoundStory'
  OBVIOUS
<1>a. ASSUME NEW m, NEW n, FoundSufficient(m), n.goal = m.goal, n.active = m.active,
             found' = found
      PROVE  \A type \in RequiredEvidence(n.goal) :
                 <<n.active, type>> \in DOMAIN found' /\ found'[<<n.active, type>>] = "pass"
  BY <1>a DEF FoundSufficient
<1>b. pc # "idle" => found' = found
  BY DEF Witness
<1>1. (pc \in {"review", "pack"} =>
          \A e \in DOMAIN ledger :
              ledger[e] = "pass" => e \in DOMAIN found /\ found[e] = "pass")'
  BY PassingBefore
<1>2. (pc \in {"decide", "mark", "ready", "release"} => FoundSufficient(mem))'
  <2> SUFFICES ASSUME pc' \in {"decide", "mark", "ready", "release"}
               PROVE  FoundSufficient(mem)'
    OBVIOUS
  <2>1. CASE Aside
    BY <1>a, <1>b, <2>1 DEF Aside, FoundStory, FoundSufficient
  <2>2. CASE (ReviewCandidate \/ PackCandidate) /\ pc' \in {"decide", "ready"}
    <3>1. /\ pc \in {"review", "pack"} /\ mem' = mem /\ EvidenceSuffices(mem)
      BY <2>2 DEF ReviewCandidate, PackCandidate, ReviewPasses, Abandon, Release
    <3>2. FoundSufficient(mem)
      BY <3>1 DEF EvidenceSuffices, Evidence, FoundStory, FoundSufficient
    <3> QED
      BY <1>a, <1>b, <3>1, <3>2 DEF FoundSufficient
  <2>3. CASE SaveDecision \/ SaveRelease
    <3>1. pc \in {"decide", "ready"} /\ mem' = mem
      BY <2>3 DEF SaveDecision, SaveRelease
    <3> QED
      BY <1>a, <1>b, <3>1 DEF FoundStory, FoundSufficient
  <2> QED
    BY <2>1, <2>2, <2>3, Progress DEF Arrivals, Release
<1>3. (pc # "idle" /\ snap # NoMission /\ NewlyMarked(mem) => FoundSufficient(mem))'
  <2> SUFFICES ASSUME pc' # "idle", snap' # NoMission, NewlyMarked(mem)'
               PROVE  FoundSufficient(mem)'
    OBVIOUS
  <2>1. snap' = snap
    BY Writers DEF SaveSnapshot, NewlyMarked
  <2>2. \/ /\ mem'.approved /\ ~snap.approved
        \/ /\ mem'.released /\ ~snap.released
    BY <2>1 DEF NewlyMarked
  <2>3. /\ pc # "idle" /\ mem'.goal = mem.goal /\ mem'.active = mem.active
        /\ NewlyMarked(mem) \/ pc \in {"mark", "release"}
    BY <2>2, MarkedBefore DEF NewlyMarked
  <2>4. FoundSufficient(mem)
    BY <2>1, <2>3 DEF FoundStory
  <2> QED
    BY <1>a, <1>b, <2>3, <2>4 DEF FoundSufficient
<1> QED
  BY <1>1, <1>2, <1>3 DEF FoundStory

\* No call saves an approval, or a release, but on evidence it found to pass when it
\* began: what was invalidated by a revise that got no further, and what was altered
\* since it was recorded, is not passed over (GatePolicy.approve, package_release).
THEOREM MarksAreFounded == WitnessedSpec => GatedOnFoundEvidence
<1>1. WitnessedInit => FoundStory
  BY DEF WitnessedInit, Init, FoundStory
<1>2. IInv /\ CopyStory /\ FoundStory /\ [Next /\ Witness]_<<vars, found>> => FoundStory'
  <2>1. ASSUME UNCHANGED <<vars, found>>, FoundStory PROVE FoundStory'
    BY <2>1 DEF vars, FoundStory, FoundSufficient, NewlyMarked
  <2> QED
    BY <2>1, FoundStep
<1>3. IInv /\ FoundStory /\ [Next]_vars =>
          [BecomesApproved \/ BecomesReleased => FoundSufficient(snap')]_snap
  <2> SUFFICES ASSUME FoundStory, [Next]_vars, snap' # snap, BecomesApproved \/ BecomesReleased
               PROVE  FoundSufficient(snap')
    OBVIOUS
  <2>1. SaveSnapshot
    BY Writers
  <2>2. pc # "idle" /\ snap # NoMission /\ NewlyMarked(mem) /\ snap' = mem
    BY <2>1 DEF SaveSnapshot, BecomesApproved, BecomesReleased, NewlyMarked
  <2> QED
    BY <2>2 DEF FoundStory
<1>4. WitnessedInit => Init
  BY DEF WitnessedInit
<1>5. [Next /\ Witness]_<<vars, found>> => [Next]_vars
  BY DEF vars
<1>6. WitnessedSpec => Spec
  BY <1>4, <1>5, PTL DEF WitnessedSpec, Spec
<1> QED
  BY <1>1, <1>2, <1>3, <1>5, <1>6, Invariance, CopyInvariance, PTL
     DEF WitnessedSpec, GatedOnFoundEvidence

-----------------------------------------------------------------------------
(* Revisions: the work they leave behind, the instruction they follow.     *)

\* Only starting, advancing and steering say where the mission is.
LEMMA CourseWritten ==
    LogShape(log) /\ [Next]_vars =>
        \/ Course(log') = Course(log) \/ LogErased
        \/ (\E g \in Goals : Start(g)) \/ AdvanceStage \/ SteerMission
<1> SUFFICES ASSUME LogShape(log), [Next]_vars
    PROVE \/ Course(log') = Course(log) \/ LogErased
          \/ (\E g \in Goals : Start(g)) \/ AdvanceStage \/ SteerMission
  OBVIOUS
<1>1. CASE log' = log
  BY <1>1
<1>2. CASE ReceiveResult \/ IssueStageTask
  <2>1. \/ log' = log \/ log' = ResultReceived(log, op.task, mem.tasks[op.task].attempt)
        \/ \E t : log' = TaskIssued(log, t)
    BY <1>2 DEF ReceiveResult, IssueStageTask, Abandon
  <2> QED
    BY <1>1, <2>1, WorkEvents
<1>3. CASE StartAttempt \/ CheckpointAttempt \/ StopAttempt \/ ScheduleRetry \/ RestartAttempt
  BY <1>3, <1>1, WorkEvents DEF StartAttempt, CheckpointAttempt, StopAttempt, ScheduleRetry,
     RestartAttempt, Abandon
<1>4. CASE BindFrozen \/ NoteEvidence \/ MarkDecision \/ BindPackage
  BY <1>4, <1>1, MarkEvents DEF BindFrozen, NoteEvidence, MarkDecision, BindPackage, Abandon
<1>5. CASE Crash
  BY <1>1, <1>5 DEF Crash, LogErased
<1> QED
  BY <1>1, <1>2, <1>3, <1>4, <1>5, Writers

\* Only the steps on tasks say what became of tasks.
LEMMA WorkWritten ==
    LogShape(log) /\ [Next]_vars =>
        \/ Work(log') = Work(log) \/ LogErased
        \/ ReceiveResult \/ IssueStageTask \/ StartAttempt \/ CheckpointAttempt \/ StopAttempt
        \/ ScheduleRetry \/ RestartAttempt
<1> SUFFICES ASSUME LogShape(log), [Next]_vars
    PROVE \/ Work(log') = Work(log) \/ LogErased
          \/ ReceiveResult \/ IssueStageTask \/ StartAttempt \/ CheckpointAttempt \/ StopAttempt
          \/ ScheduleRetry \/ RestartAttempt
  OBVIOUS
<1>1. CASE log' = log
  BY <1>1
<1>2. ASSUME NEW g \in Goals, Start(g) PROVE Work(log') = Work(log)
  BY <1>2, CourseEvents DEF Start
<1>3. CASE AdvanceStage \/ SteerMission
  BY <1>3, <1>1, CourseEvents DEF AdvanceStage, SteerMission, Abandon
<1>4. CASE BindFrozen \/ NoteEvidence \/ MarkDecision \/ BindPackage
  BY <1>4, <1>1, MarkEvents DEF BindFrozen, NoteEvidence, MarkDecision, BindPackage, Abandon
<1>5. CASE Crash
  BY <1>1, <1>5 DEF Crash, LogErased
<1> QED
  BY <1>1, <1>2, <1>3, <1>4, <1>5, Writers

\* Calls stay what they are.
LEMMA KindStep == IInv /\ CallStory /\ [Next]_vars => CallStory'
<1> SUFFICES ASSUME IInv, CallStory, [Next]_vars PROVE CallStory'
  OBVIOUS
<1>1. CASE Aside
  BY <1>1 DEF Aside, CallStory, CurrentTasks, Current, CurrentRoles, Kind
<1>2. CASE Release
  BY <1>2 DEF Release, NoCall, CallStory
<1>3. CASE \E g \in Goals : Start(g)
  BY <1>3 DEF Start, Goto, CallStory
<1>4. CASE Loading
  <2>1. PICK kind, t, arg, next : Loaded(kind, t, arg, next)
    BY <1>4 DEF Loading
  <2>2. /\ mem' = snap /\ pc' = next /\ op'.kind = kind /\ op'.task = t
        /\ next = "invalidate" <=> kind = "revise"
        /\ next \in {"checkpoint", "interrupt", "retry"} => t \in CurrentTasks(snap)
    BY <2>1 DEF Loaded, Call
  <2> QED
    BY <2>2 DEF CallStory, CurrentTasks, Current, CurrentRoles, Kind
<1>5. CASE Arrivals /\ ~Loading /\ ~\E g \in Goals : Start(g)
  <2>1. op'.kind = op.kind \/ Release
    BY <1>5, SameCall DEF IInv, StoresTyped
  <2>2. pc' \in Begins \ {"invalidate", "respond"} => FALSE
    BY <1>5 DEF Arrivals
  <2>3. pc' \in {"bind", "record", "note", "decide", "mark", "ready", "release",
                   "restart", "advance"} =>
            \/ FreezeSnapshot \/ ExamineCandidate \/ AppendEvidence \/ ReviewCandidate
            \/ SaveDecision \/ PackCandidate \/ SaveRelease \/ ScheduleRetry
            \/ ReceiveResult \/ MarkDecision \/ BindPackage
    BY <1>5 DEF Arrivals
  <2>4. \/ pc' \in {"invalidate", "steer", "tasks", "attempt", "save", "respond"}
        \/ pc' \in {"bind", "record", "note", "decide", "mark", "ready", "release",
                    "restart", "advance"}
    BY <1>5, <2>2 DEF Arrivals, Begins, Between, Changing
  <2> QED
    BY <1>2, <2>1, <2>2, <2>3, <2>4, Departures DEF CallStory, Begins
<1> QED
  BY <1>1, <1>2, <1>3, <1>4, <1>5, Progress

\* An operation on a task of the mission's revision, and the operations on the
\* whole mission.
LEMMA OldTasks ==
    ASSUME NEW m, Valid(m), OldClosed(m)
    PROVE  /\ \A t \in DOMAIN m.tasks : t.rev = m.rev =>
                  \A gate, digest, attempt :
                      \A n \in {Receive(m, t, gate, digest), Interrupt(m, t),
                                Retry(m, t, attempt)} :
                          OldClosed(n) /\ OldKept(m, n)
           /\ \A role : LET n == IssueTask(m, role) IN OldClosed(n) /\ OldKept(m, n)
           /\ LET n == Advance(m) IN OldClosed(n) /\ OldKept(m, n)
           /\ \A g : LET n == Steer(m, g) IN OldClosed(n) /\ OldKept(m, n)
           /\ \A c : LET n == BindCandidate(m, c) IN OldClosed(n) /\ OldKept(m, n)
           /\ LET n == MarkApproved(m) IN OldClosed(n) /\ OldKept(m, n)
           /\ LET n == BindRelease(m) IN OldClosed(n) /\ OldKept(m, n)
<1>0. IsMission(m) /\ m.rev \in Nat /\ \A t \in DOMAIN m.tasks : t.rev \in Nat
  BY DEF Valid, IsMission, TaskIds
<1>1. ASSUME NEW n, n.rev = m.rev, DOMAIN m.tasks \subseteq DOMAIN n.tasks,
             \A t \in DOMAIN n.tasks : t.rev # m.rev => t \in DOMAIN m.tasks,
             \A t \in DOMAIN m.tasks : t.rev # m.rev => n.tasks[t] = m.tasks[t]
      PROVE  OldClosed(n) /\ OldKept(m, n)
  <2>1. ASSUME NEW t \in DOMAIN n.tasks, t.rev < n.rev
        PROVE  n.tasks[t].status \in {"completed", "stale"}
    <3>1. t.rev # m.rev /\ t \in DOMAIN m.tasks
      <4>1. t.rev # m.rev
        BY <1>0, <1>1, <2>1
      <4> QED
        BY <1>1, <4>1
    <3> QED
      BY <1>1, <2>1, <3>1 DEF OldClosed
  <2> QED
    BY <1>0, <1>1, <2>1 DEF OldClosed, OldKept
<1>2. ASSUME NEW t \in DOMAIN m.tasks, t.rev = m.rev, NEW gate, NEW digest, NEW attempt,
             NEW n \in {Receive(m, t, gate, digest), Interrupt(m, t), Retry(m, t, attempt)}
      PROVE  OldClosed(n) /\ OldKept(m, n)
  <2>1. /\ n.rev = m.rev /\ DOMAIN n.tasks = DOMAIN m.tasks
        /\ \A u \in DOMAIN m.tasks : u # t => n.tasks[u] = m.tasks[u]
    BY <1>0, TaskOperations DEF SameButTasks
  <2> QED
    BY <1>1, <1>2, <2>1
<1>3. ASSUME NEW role PROVE LET n == IssueTask(m, role) IN OldClosed(n) /\ OldKept(m, n)
  <2> DEFINE n == IssueTask(m, role)
             t == Current(m, role)
  <2>1. /\ n.rev = m.rev /\ DOMAIN n.tasks = DOMAIN m.tasks \cup {t} /\ t.rev = m.rev
        /\ \A u \in DOMAIN m.tasks : u # t => n.tasks[u] = m.tasks[u]
    BY <1>0, IssueFields DEF SameButTasks, Current, TaskId
  <2> HIDE DEF n, t
  <2> QED
    BY <1>1, <2>1 DEF n
<1>4. LET n == Advance(m) IN OldClosed(n) /\ OldKept(m, n)
  <2> DEFINE n == Advance(m)
  <2>1. /\ n.rev = m.rev /\ DOMAIN n.tasks = DOMAIN m.tasks
        /\ \A t \in DOMAIN m.tasks : t \notin CurrentTasks(m) => n.tasks[t] = m.tasks[t]
        /\ \A t \in CurrentTasks(m) : t.rev = m.rev
    BY <1>0, AdvanceFields DEF CurrentTasks, Current, TaskId
  <2> HIDE DEF n
  <2> QED
    BY <1>1, <2>1 DEF n
<1>5. ASSUME NEW g PROVE LET n == Steer(m, g) IN OldClosed(n) /\ OldKept(m, n)
  <2> DEFINE n == Steer(m, g)
  <2>1. /\ n.rev = m.rev + 1 /\ DOMAIN n.tasks = DOMAIN m.tasks
        /\ \A t \in DOMAIN m.tasks :
              /\ n.tasks[t].status \in {"completed", "stale"}
              /\ m.tasks[t].status \in {"completed", "stale"} => n.tasks[t] = m.tasks[t]
    BY <1>0, SteerFields
  <2> HIDE DEF n
  <2>2. OldClosed(n) /\ OldKept(m, n)
    BY <1>0, <2>1 DEF OldClosed, OldKept
  <2> QED
    BY <2>2 DEF n
<1>6. ASSUME NEW c PROVE LET n == BindCandidate(m, c) IN OldClosed(n) /\ OldKept(m, n)
  <2> DEFINE n == BindCandidate(m, c)
  <2>1. /\ n.rev = m.rev /\ DOMAIN n.tasks = DOMAIN m.tasks
        /\ \A t \in DOMAIN m.tasks : t.rev # m.rev => n.tasks[t] = m.tasks[t]
    BY <1>0, BindFields
  <2> HIDE DEF n
  <2> QED
    BY <1>1, <2>1 DEF n
<1>7. /\ LET n == MarkApproved(m) IN OldClosed(n) /\ OldKept(m, n)
      /\ LET n == BindRelease(m) IN OldClosed(n) /\ OldKept(m, n)
  BY <1>0, <1>1, MarkFields
<1> QED
  BY <1>2, <1>3, <1>4, <1>5, <1>6, <1>7

\* What any step does to the working copy's old tasks.
LEMMA CopyTasks ==
    ASSUME IInv, CopyStory, CallStory, [Next]_vars, pc' # "idle", pc # "idle" => OldClosed(mem)
    PROVE  \/ Aside \/ Loading
           \/ snap = NoMission /\ snap' = snap /\ OldClosed(mem')
           \/ pc # "idle" /\ OldClosed(mem') /\ OldKept(mem, mem')
<1>0. MissionsValid /\ CallFits
  BY DEF IInv
<1>a. pc # "idle" => Valid(mem) /\ IsMission(mem) /\ OldClosed(mem) /\ mem.rev \in Nat
  BY <1>0 DEF MissionsValid, Valid, IsMission
<1>b. pc # "idle" /\ mem' = mem => OldClosed(mem') /\ OldKept(mem, mem')
  BY <1>a DEF OldKept, OldClosed
<1>1. ASSUME NEW g \in Goals, Start(g) PROVE snap = NoMission /\ snap' = snap /\ OldClosed(mem')
  BY <1>1, NewFields DEF Start, Goto, OldClosed
<1>2. CASE ReceiveResult
  <2>1. pc = "receive" /\ op.task \in DOMAIN mem.tasks
    BY <1>0, <1>2 DEF ReceiveResult, CallFits
  <2>2. CASE ~Quarantined(mem, op.task) /\ mem' = Receive(mem, op.task, op.arg.gate, op.arg.digest)
    BY <1>a, <2>1, <2>2, OldTasks DEF Quarantined
  <2> QED
    BY <1>2, <1>b, <2>1, <2>2 DEF ReceiveResult, Abandon, Release
<1>3. CASE StopAttempt \/ ScheduleRetry
  <2>1. pc \in {"interrupt", "retry"} /\ op.task \in CurrentTasks(mem)
    BY <1>3, Departures DEF CallStory
  <2>2. op.task \in DOMAIN mem.tasks /\ op.task.rev = mem.rev
    BY <2>1 DEF CurrentTasks, Current, TaskId
  <2> QED
    BY <1>3, <1>a, <2>1, <2>2, OldTasks DEF StopAttempt, ScheduleRetry
<1>4. CASE AdvanceStage
  BY <1>4, <1>a, <1>b, OldTasks DEF AdvanceStage
<1>5. CASE IssueStageTask
  <2>1. mem' = mem \/ \E role : mem' = IssueTask(mem, role)
    BY <1>5 DEF IssueStageTask, Abandon, Release, Goto
  <2> QED
    BY <1>5, <1>a, <1>b, <2>1, OldTasks, Departures
<1>6. CASE SteerMission
  BY <1>6, <1>a, OldTasks DEF SteerMission, Abandon, Release
<1>7. CASE BindFrozen
  BY <1>7, <1>a, OldTasks DEF BindFrozen, Abandon, Release
<1>8. CASE MarkDecision \/ BindPackage
  BY <1>8, <1>a, OldTasks DEF MarkDecision, BindPackage, Abandon, Release
<1> QED
  BY <1>b, <1>1, <1>2, <1>3, <1>4, <1>5, <1>6, <1>7, <1>8, Progress DEF Rewriting, Release

\* Every step keeps what earlier revisions left behind as it was.
LEMMA TaskStep ==
    IInv /\ CopyStory /\ CallStory /\ TaskStory /\ [Next]_vars => TaskStory'
<1> SUFFICES ASSUME IInv, CopyStory, CallStory, TaskStory, [Next]_vars PROVE TaskStory'
  OBVIOUS
<1>0. MissionsValid
  BY DEF IInv
<1>1. CASE SaveSnapshot
  <2>1. pc = "save" /\ pc' = "respond" /\ snap' = mem /\ mem' = mem
    BY <1>1 DEF SaveSnapshot
  <2>2. Valid(mem) /\ mem.rev \in Nat
    BY <1>0, <2>1 DEF MissionsValid, Valid, IsMission
  <2> QED
    BY <2>1, <2>2 DEF TaskStory, OldClosed, OldKept
<1>2. CASE UNCHANGED snap
  <2>1. (snap # NoMission => OldClosed(snap))'
    BY <1>2 DEF TaskStory, OldClosed
  <2>2. CASE Aside
    BY <2>1, <2>2 DEF Aside, TaskStory, OldClosed, OldKept
  <2>3. CASE pc' = "idle"
    BY <2>1, <2>3 DEF TaskStory
  <2>4. CASE Loading
    <3>1. mem' = snap /\ snap # NoMission
      BY <2>4 DEF Loading, Loaded, Call
    <3>2. snap.rev \in Nat
      BY <1>0, <3>1 DEF MissionsValid, Valid, IsMission
    <3> QED
      BY <1>2, <2>1, <3>1, <3>2 DEF TaskStory, OldClosed, OldKept
  <2>5. CASE snap = NoMission /\ OldClosed(mem')
    BY <1>2, <2>1, <2>5 DEF TaskStory, OldClosed
  <2>6. CASE pc # "idle" /\ pc' # "idle" /\ OldClosed(mem') /\ OldKept(mem, mem')
    <3>1. snap # NoMission => OldKept(snap, mem')
      <4> SUFFICES ASSUME snap # NoMission PROVE OldKept(snap, mem')
        OBVIOUS
      <4>1. /\ snap.rev \in Nat /\ mem.rev \in Nat /\ mem'.rev >= mem.rev
            /\ \A t \in DOMAIN snap.tasks : t.rev \in Nat
        BY <1>0, <2>6 DEF MissionsValid, Valid, IsMission, TaskIds, OldKept
      <4>2. OldKept(snap, mem)
        BY <2>6 DEF TaskStory
      <4>3. mem'.rev \in Nat
        BY <2>6, MissionsStep DEF MissionsValid, Valid, IsMission
      <4>4. ASSUME NEW t \in DOMAIN snap.tasks, t.rev < snap.rev
            PROVE  t \in DOMAIN mem'.tasks /\ mem'.tasks[t] = snap.tasks[t]
        <5>1. t \in DOMAIN mem.tasks /\ mem.tasks[t] = snap.tasks[t] /\ t.rev < mem.rev
          BY <4>1, <4>2, <4>4 DEF OldKept
        <5> QED
          BY <2>6, <5>1 DEF OldKept
      <4> QED
        BY <4>1, <4>2, <4>3, <4>4 DEF OldKept
    <3> QED
      BY <1>2, <2>1, <2>6, <3>1 DEF TaskStory, OldClosed, OldKept
  <2> QED
    BY <2>2, <2>3, <2>4, <2>5, <2>6, CopyTasks DEF TaskStory
<1> QED
  BY <1>1, <1>2, Writers

\* The kinds of calls, along every behaviour.
LEMMA CallInvariance == Spec => []CallStory
<1>1. Init => CallStory
  BY DEF Init, NoCall, CallStory
<1> QED
  BY <1>1, KindStep, Invariance, PTL DEF Spec

\* The work of earlier revisions, along every behaviour.
LEMMA TaskInvariance == Spec => []TaskStory
<1>1. Init => TaskStory
  BY DEF Init, TaskStory
<1> QED
  BY <1>1, TaskStep, Invariance, CopyInvariance, CallInvariance, PTL DEF Spec

\* What a revision left behind is never touched again, neither by results and
\* grants that come late nor by a crash: what is saved of it stays
\* (receive_result, steer, _save).
THEOREM OldWorkStands == Spec => StaleWorkFrozen
<1>1. TaskStory /\ [Next]_vars =>
          [snap # NoMission =>
               \A t \in DOMAIN snap.tasks :
                   t.rev < snap.rev => t \in DOMAIN snap'.tasks
                                           /\ snap'.tasks[t] = snap.tasks[t]]_snap
  <2> SUFFICES ASSUME TaskStory, [Next]_vars, snap' # snap, snap # NoMission
      PROVE  \A t \in DOMAIN snap.tasks :
                 t.rev < snap.rev => t \in DOMAIN snap'.tasks /\ snap'.tasks[t] = snap.tasks[t]
    OBVIOUS
  <2>1. pc = "save" /\ snap' = mem
    BY Writers DEF SaveSnapshot
  <2> QED
    BY <2>1 DEF TaskStory, OldKept
<1> QED
  BY <1>1, TaskInvariance, PTL DEF Spec, StaleWorkFrozen

\* What is recorded of a revision that does not conflict.
LEMMA RevisionRecorded ==
    ASSUME NEW l, LogShape(l), NEW rev, NEW stage, NEW instruction,
           ~RevisionConflicts(l, rev, instruction)
    PROVE  LET n == RevisionStarted(l, rev, stage, instruction)
           IN rev \in DOMAIN n.steered /\ n.steered[rev] = instruction
BY DEF LogShape, EmptyLog, RevisionStarted, RevisionConflicts

\* Every step of a call that has steered keeps what the log recorded of it.
LEMMA SteerStep == IInv /\ CallStory /\ SteerStory /\ [Next]_vars => SteerStory'
<1> SUFFICES ASSUME IInv, CallStory, SteerStory, [Next]_vars,
                    op'.kind = "revise", pc' \in {"tasks", "attempt", "save"}
    PROVE  mem'.rev \in DOMAIN log'.steered /\ log'.steered[mem'.rev] = op'.arg.instruction
  BY DEF SteerStory
<1>0. LogShape(log) /\ (pc # "idle" => IsMission(mem))
  BY DEF IInv, MissionsValid, LogFits, Valid
<1>1. CASE Aside
  BY <1>1 DEF Aside, SteerStory
<1>2. CASE Arrivals /\ ~Release
  <2>1. ~Loading /\ ~\E g \in Goals : Start(g)
    BY DEF Loading, Loaded, Call, Begins, Start
  <2>2. op.kind = "revise" /\ op'.arg = op.arg
    BY <1>2, <2>1, SameCall DEF IInv, StoresTyped
  <2>3. \/ SteerMission
        \/ StartAttempt
        \/ IssueStageTask
    BY <1>2, <2>1, <2>2, Departures DEF Arrivals, CallStory
  <2>4. CASE SteerMission
    <3>1. /\ mem' = Steer(mem, op.arg.goal) /\ pc # "idle"
          /\ ~RevisionConflicts(log, mem.rev + 1, op.arg.instruction)
          /\ log' = RevisionStarted(log, mem.rev + 1, Kind(mem'), op.arg.instruction)
      BY <1>2, <2>4 DEF SteerMission, Abandon
    <3>2. mem'.rev = mem.rev + 1
      BY <1>0, <3>1, SteerFields
    <3> QED
      BY <1>0, <2>2, <3>1, <3>2, RevisionRecorded
  <2>5. CASE StartAttempt \/ IssueStageTask
    <3>1. pc \in {"tasks", "attempt"} /\ ~AdvanceStage /\ ~SteerMission
      BY <2>5, Departures
    <3>2. Course(log') = Course(log)
      BY <1>0, <1>2, <2>1, <3>1, CourseWritten DEF LogErased, Crash
    <3>3. mem'.rev = mem.rev
      BY <1>0, <1>2, <2>5, <3>1, IssueFields
         DEF StartAttempt, IssueStageTask, Abandon, SameButTasks
    <3> QED
      BY <2>2, <3>1, <3>2, <3>3 DEF SteerStory, Course
  <2> QED
    BY <2>3, <2>4, <2>5
<1> QED
  BY <1>1, <1>2, Progress DEF Release

\* The instruction the log records for a revision is the one the saved revision
\* follows, also when an earlier attempt at it was cut short after the record:
\* a call with another instruction is refused (revise, steer_command).
THEOREM InstructionStands == Spec => LoggedInstructionHolds
<1>1. Init => SteerStory
  BY DEF Init, NoCall, SteerStory
<1>2. SteerStory /\ [Next]_vars =>
          [op.kind = "revise" /\ snap' # snap =>
               /\ snap'.rev \in DOMAIN log.steered
               /\ log.steered[snap'.rev] = op.arg.instruction]_snap
  <2> SUFFICES ASSUME SteerStory, [Next]_vars, snap' # snap, op.kind = "revise"
      PROVE  /\ snap'.rev \in DOMAIN log.steered
             /\ log.steered[snap'.rev] = op.arg.instruction
    OBVIOUS
  <2>1. pc = "save" /\ snap' = mem
    BY Writers DEF SaveSnapshot
  <2> QED
    BY <2>1 DEF SteerStory
<1> QED
  BY <1>1, <1>2, SteerStep, Invariance, CallInvariance, PTL
     DEF Spec, LoggedInstructionHolds

-----------------------------------------------------------------------------
(* What the log says of tasks.                                             *)

\* The events about an attempt, on its own task and on all others.
LEMMA ScheduledFields ==
    ASSUME NEW l, LogShape(l), NEW t \in DOMAIN l.tasks
    PROVE  LET n == RetryScheduled(l, t)
           IN /\ n.results = l.results /\ n.tasks[t].current = l.tasks[t].current
              /\ n.tasks[t].attempts = Append(l.tasks[t].attempts, "scheduled")
              /\ DOMAIN n.tasks = DOMAIN l.tasks /\ n.checkpoints = l.checkpoints
              /\ \A u \in DOMAIN l.tasks : u # t => n.tasks[u] = l.tasks[u]
BY DEF LogShape, EmptyLog, RetryScheduled

\* An attempt that starts is the one its task is at.
LEMMA StartedFields ==
    ASSUME NEW l, LogShape(l), NEW t \in DOMAIN l.tasks, NEW a
    PROVE  LET n == AttemptStarted(l, t, a)
           IN /\ n.results = l.results /\ n.tasks[t].current = a
              /\ DOMAIN n.tasks = DOMAIN l.tasks /\ n.checkpoints = l.checkpoints
              /\ \A u \in DOMAIN l.tasks : u # t => n.tasks[u] = l.tasks[u]
BY DEF LogShape, EmptyLog, AttemptStarted

\* It runs, and the other attempts stay what they were.
LEMMA StartedAttempts ==
    ASSUME NEW l, LogShape(l), NEW t \in DOMAIN l.tasks, NEW a
    PROVE  AttemptStarted(l, t, a).tasks[t].attempts
               = [i \in DOMAIN l.tasks[t].attempts \cup {a} |->
                     IF i = a THEN "running" ELSE l.tasks[t].attempts[i]]
BY DEF LogShape, EmptyLog, AttemptStarted

\* Interrupting an attempt adds none.
LEMMA InterruptedFields ==
    ASSUME NEW l, LogShape(l), NEW t \in DOMAIN l.tasks, NEW a
    PROVE  LET n == AttemptInterrupted(l, t, a)
           IN /\ n.results = l.results /\ n.tasks[t].current = l.tasks[t].current
              /\ Len(n.tasks[t].attempts) = Len(l.tasks[t].attempts)
              /\ DOMAIN n.tasks[t].attempts = DOMAIN l.tasks[t].attempts
              /\ \A i \in DOMAIN l.tasks[t].attempts :
                    n.tasks[t].attempts[i] = IF i = a THEN "interrupted" ELSE l.tasks[t].attempts[i]
              /\ DOMAIN n.tasks = DOMAIN l.tasks /\ n.checkpoints = l.checkpoints
              /\ \A u \in DOMAIN l.tasks : u # t => n.tasks[u] = l.tasks[u]
BY DEF LogShape, EmptyLog, AttemptInterrupted

\* Receiving a result completes its attempt.
LEMMA ReceivedFields ==
    ASSUME NEW l, LogShape(l), NEW t \in DOMAIN l.tasks, NEW a
    PROVE  LET n == ResultReceived(l, t, a)
           IN /\ n.results = l.results \cup {<<t, a>>}
              /\ n.tasks[t].current = l.tasks[t].current
              /\ Len(n.tasks[t].attempts) = Len(l.tasks[t].attempts)
              /\ DOMAIN n.tasks[t].attempts = DOMAIN l.tasks[t].attempts
              /\ \A i \in DOMAIN l.tasks[t].attempts :
                    n.tasks[t].attempts[i] = IF i = a THEN "completed" ELSE l.tasks[t].attempts[i]
              /\ DOMAIN n.tasks = DOMAIN l.tasks /\ n.checkpoints = l.checkpoints
              /\ \A u \in DOMAIN l.tasks : u # t => n.tasks[u] = l.tasks[u]
BY DEF LogShape, EmptyLog, ResultReceived

\* The log learns of a task, or of a checkpoint.
LEMMA IssuedFields ==
    ASSUME NEW l, LogShape(l), NEW t
    PROVE  LET n == TaskIssued(l, t)
           IN /\ DOMAIN n.tasks = DOMAIN l.tasks \cup {t}
              /\ n.results = l.results /\ n.checkpoints = l.checkpoints
              /\ n.tasks[t].current = 0 /\ n.tasks[t].attempts = <<>>
              /\ \A u \in DOMAIN l.tasks : u # t => n.tasks[u] = l.tasks[u]
BY DEF LogShape, EmptyLog, TaskIssued

\* A checkpoint is recorded for its attempt.
LEMMA CheckpointFields ==
    ASSUME NEW l, LogShape(l), NEW t, NEW a
    PROVE  LET n == CheckpointRecorded(l, t, a)
           IN /\ n.tasks = l.tasks /\ n.results = l.results
              /\ n.checkpoints = l.checkpoints \cup {<<t, a>>}
BY DEF LogShape, EmptyLog, CheckpointRecorded

\* What a log says of tasks, a later one says as well.
Grows(l, n) ==
    /\ DOMAIN l.tasks \subseteq DOMAIN n.tasks /\ l.results \subseteq n.results
    /\ \A t \in DOMAIN l.tasks : n.tasks[t].current >= l.tasks[t].current

\* No event about an attempt takes back what was said, and starting one does not
\* as long as it is not an earlier one.
LEMMA GrowsOnEvent ==
    ASSUME NEW l, LogShape(l), Counted(l), NEW t \in DOMAIN l.tasks, NEW a \in Nat
    PROVE  /\ \A n \in {RetryScheduled(l, t), AttemptInterrupted(l, t, a),
                        ResultReceived(l, t, a)} : Grows(l, n) /\ Counted(n)
           /\ a >= l.tasks[t].current /\ (a = 1 \/ a \in 1..Len(l.tasks[t].attempts)) =>
                  Grows(l, AttemptStarted(l, t, a)) /\ Counted(AttemptStarted(l, t, a))
<1> DEFINE s == l.tasks[t].attempts
<1>0. /\ s \in Seq(AttemptStatus) /\ Len(s) \in Nat /\ DOMAIN s = 1..Len(s)
      /\ \A u \in DOMAIN l.tasks : /\ l.tasks[u].current \in Nat
                                   /\ l.tasks[u].current \in 0..Len(l.tasks[u].attempts)
      /\ l.tasks[t].current \in 0..Len(s)
  BY DEF LogShape, Counted
<1>1. ASSUME NEW n, DOMAIN n.tasks = DOMAIN l.tasks, l.results \subseteq n.results,
             \A u \in DOMAIN l.tasks : u # t => n.tasks[u] = l.tasks[u],
             n.tasks[t].current >= l.tasks[t].current,
             n.tasks[t].current \in 0..Len(n.tasks[t].attempts)
      PROVE  Grows(l, n) /\ Counted(n)
  <2>1. \A u \in DOMAIN l.tasks : /\ n.tasks[u].current >= l.tasks[u].current
                                  /\ n.tasks[u].current \in 0..Len(n.tasks[u].attempts)
    BY <1>0, <1>1
  <2> QED
    BY <1>1, <2>1 DEF Grows, Counted
<1>3. Len(Append(s, "scheduled")) = Len(s) + 1
  BY <1>0 DEF AttemptStatus
<1>4. Grows(l, RetryScheduled(l, t)) /\ Counted(RetryScheduled(l, t))
  <2> DEFINE n == RetryScheduled(l, t)
  <2>1. /\ DOMAIN n.tasks = DOMAIN l.tasks /\ n.results = l.results
        /\ \A u \in DOMAIN l.tasks : u # t => n.tasks[u] = l.tasks[u]
        /\ n.tasks[t].current = l.tasks[t].current
        /\ n.tasks[t].attempts = Append(s, "scheduled")
    BY ScheduledFields
  <2> HIDE DEF n
  <2>2. Grows(l, n) /\ Counted(n)
    BY <1>0, <1>1, <1>3, <2>1
  <2> QED
    BY <2>2 DEF n
<1>5. Grows(l, AttemptInterrupted(l, t, a)) /\ Counted(AttemptInterrupted(l, t, a))
  <2> DEFINE n == AttemptInterrupted(l, t, a)
  <2>1. /\ DOMAIN n.tasks = DOMAIN l.tasks /\ n.results = l.results
        /\ \A u \in DOMAIN l.tasks : u # t => n.tasks[u] = l.tasks[u]
        /\ n.tasks[t].current = l.tasks[t].current
        /\ Len(n.tasks[t].attempts) = Len(s)
    BY InterruptedFields
  <2> HIDE DEF n
  <2>2. Grows(l, n) /\ Counted(n)
    BY <1>0, <1>1, <2>1
  <2> QED
    BY <2>2 DEF n
<1>7. Grows(l, ResultReceived(l, t, a)) /\ Counted(ResultReceived(l, t, a))
  <2> DEFINE n == ResultReceived(l, t, a)
  <2>1. /\ DOMAIN n.tasks = DOMAIN l.tasks /\ l.results \subseteq n.results
        /\ \A u \in DOMAIN l.tasks : u # t => n.tasks[u] = l.tasks[u]
        /\ n.tasks[t].current = l.tasks[t].current
        /\ Len(n.tasks[t].attempts) = Len(s)
    BY ReceivedFields
  <2> HIDE DEF n
  <2>2. Grows(l, n) /\ Counted(n)
    BY <1>0, <1>1, <2>1
  <2> QED
    BY <2>2 DEF n
<1>6. ASSUME a >= l.tasks[t].current, a = 1 \/ a \in 1..Len(s)
      PROVE  Grows(l, AttemptStarted(l, t, a)) /\ Counted(AttemptStarted(l, t, a))
  <2> DEFINE n == AttemptStarted(l, t, a)
             z == [i \in DOMAIN s \cup {a} |-> IF i = a THEN "running" ELSE s[i]]
             length == IF Len(s) = 0 THEN 1 ELSE Len(s)
  <2>1. /\ DOMAIN n.tasks = DOMAIN l.tasks /\ n.results = l.results
        /\ \A u \in DOMAIN l.tasks : u # t => n.tasks[u] = l.tasks[u]
        /\ n.tasks[t].current = a
    BY StartedFields
  <2>5. n.tasks[t].attempts = z
    BY StartedAttempts
  <2>2. length \in Nat /\ DOMAIN z = 1..length /\ a \in 0..length
    BY <1>0, <1>6
  <2> HIDE DEF n, z, length
  <2>3. Len(z) = length
    BY <2>2, LenProperties
  <2>4. Grows(l, n) /\ Counted(n)
    BY <1>0, <1>1, <1>6, <2>1, <2>2, <2>3, <2>5
  <2> QED
    BY <2>4 DEF n
<1> QED
  BY <1>4, <1>5, <1>6, <1>7

\* The next role without a task gets one the log has not heard of, if the call
\* does not end here.
LEMMA Issuing ==
    ASSUME IInv, IssueStageTask
    PROVE  \/ Abandon
           \/ pc' = "save" /\ UNCHANGED <<snap, mem, op, log, crashes>>
           \/ \E role \in RolesWithoutTask(mem) :
                 /\ Current(mem, role) \notin DOMAIN log.tasks
                 /\ mem' = IssueTask(mem, role) /\ log' = TaskIssued(log, Current(mem, role))
                 /\ op'.task = Current(mem, role) /\ op'.kind = op.kind /\ op'.arg = op.arg
                 /\ pc' = "attempt" /\ snap' = snap /\ crashes' = crashes
<1>0. DOMAIN op = {"kind", "task", "arg"}
  BY DEF IInv, StoresTyped, CallTyped
<1>1. CASE mem.completed \/ RolesWithoutTask(mem) = {}
  BY <1>1 DEF IssueStageTask, Goto
<1>2. CASE ~(mem.completed \/ RolesWithoutTask(mem) = {})
  <2> DEFINE role == CHOOSE r \in RolesWithoutTask(mem) : TRUE
             t == Current(mem, role)
  <2>1. role \in RolesWithoutTask(mem)
    BY <1>2
  <2> HIDE DEF role
  <2>2. \/ Abandon
        \/ /\ t \notin DOMAIN log.tasks
           /\ mem' = IssueTask(mem, role) /\ log' = TaskIssued(log, t)
           /\ op' = [op EXCEPT !.task = t] /\ Goto("attempt")
    BY <1>2 DEF IssueStageTask, role
  <2> HIDE DEF t
  <2>3. op' = [op EXCEPT !.task = t] => op'.task = t /\ op'.kind = op.kind /\ op'.arg = op.arg
    BY <1>0
  <2> QED
    BY <2>1, <2>2, <2>3 DEF Goto, t
<1> QED
  BY <1>1, <1>2

\* What the log says of tasks only grows, unless a crash erases it.
LEMMA LogGrows ==
    IInv /\ AttemptStory /\ [Next]_vars =>
        (LogErased \/ Grows(log, log')) /\ Counted(log')
<1> SUFFICES ASSUME IInv, AttemptStory, [Next]_vars
    PROVE (LogErased \/ Grows(log, log')) /\ Counted(log')
  OBVIOUS
<1>0. MissionsValid /\ CallFits /\ LogFits /\ LogShape(log) /\ Counted(log)
  BY DEF IInv, LogFits, AttemptStory, Counted
<1>a. ASSUME Work(log') = Work(log) PROVE Grows(log, log') /\ Counted(log')
  <2>1. log'.tasks = log.tasks /\ log'.results = log.results
    BY <1>a DEF Work
  <2>2. \A t \in DOMAIN log.tasks : log.tasks[t].current >= log.tasks[t].current
    BY <1>0 DEF Counted, LogShape
  <2> QED
    BY <1>0, <2>1, <2>2 DEF Grows, Counted
<1>b. log' = log => Grows(log, log') /\ Counted(log')
  BY <1>a
<1>c. ASSUME pc \in {"receive", "checkpoint", "interrupt", "retry", "restart", "attempt"}
      PROVE  op.task \in DOMAIN log.tasks /\ mem.tasks[op.task].attempt \in Nat
  <2>1. /\ IsMission(mem) /\ op.task \in DOMAIN mem.tasks
        /\ DOMAIN mem.tasks \subseteq DOMAIN log.tasks
    BY <1>0, <1>c DEF MissionsValid, CallFits, LogFits, Valid
  <2> QED
    BY <2>1, TaskFields
<1>1. CASE LogErased
  BY <1>1 DEF LogErased, Counted, EmptyLog
<1>2. CASE ReceiveResult
  <2>1. log' = log \/ log' = ResultReceived(log, op.task, mem.tasks[op.task].attempt)
    BY <1>2 DEF ReceiveResult, Abandon
  <2> QED
    BY <1>0, <1>2, <1>b, <1>c, <2>1, GrowsOnEvent, Departures
<1>3. CASE IssueStageTask
  <2>1. log' = log \/ \E t : t \notin DOMAIN log.tasks /\ log' = TaskIssued(log, t)
    BY <1>3, Issuing DEF Abandon
  <2>2. ASSUME NEW t, t \notin DOMAIN log.tasks, log' = TaskIssued(log, t)
        PROVE  Grows(log, log') /\ Counted(log')
    <3>1. /\ DOMAIN log'.tasks = DOMAIN log.tasks \cup {t} /\ log'.results = log.results
          /\ log'.tasks[t].current = 0 /\ log'.tasks[t].attempts = <<>>
          /\ \A u \in DOMAIN log.tasks : log'.tasks[u] = log.tasks[u]
      BY <1>0, <2>2, IssuedFields
    <3>2. \A u \in DOMAIN log.tasks : /\ log.tasks[u].current \in Nat
                                      /\ log.tasks[u].current \in 0..Len(log.tasks[u].attempts)
      BY <1>0 DEF Counted, LogShape
    <3> QED
      BY <3>1, <3>2 DEF Grows, Counted
  <2> QED
    BY <1>b, <2>1, <2>2
<1>4. CASE StartAttempt \/ RestartAttempt
  <2> DEFINE t == op.task
             a == mem.tasks[t].attempt
  <2>1. /\ pc \in {"attempt", "restart"} /\ t \in DOMAIN log.tasks /\ a \in Nat
        /\ log' = AttemptStarted(log, t, a)
    BY <1>4, <1>c DEF StartAttempt, RestartAttempt
  <2>2. a = 1 \/ a \in 1..Len(log.tasks[t].attempts)
    BY <1>0, <2>1 DEF CallFits
  <2>3. a >= log.tasks[t].current
    <3>1. log.tasks[t].current \in 0..Len(log.tasks[t].attempts)
      BY <2>1 DEF AttemptStory
    <3>2. log.tasks[t].current = 0 \/ a = Len(log.tasks[t].attempts)
      BY <2>1 DEF AttemptStory
    <3> QED
      BY <2>1, <3>1, <3>2
  <2> HIDE DEF t, a
  <2> QED
    BY <1>0, <2>1, <2>2, <2>3, GrowsOnEvent
<1>5. CASE CheckpointAttempt
  <2>1. log' = log \/ log' = CheckpointRecorded(log, op.task, mem.tasks[op.task].attempt)
    BY <1>5 DEF CheckpointAttempt, Abandon
  <2>2. CASE log' = CheckpointRecorded(log, op.task, mem.tasks[op.task].attempt)
    <3>1. log'.tasks = log.tasks /\ log'.results = log.results
      BY <1>0, <2>2, CheckpointFields
    <3>2. \A t \in DOMAIN log.tasks : log.tasks[t].current >= log.tasks[t].current
      BY <1>0 DEF Counted, LogShape
    <3> QED
      BY <1>0, <3>1, <3>2 DEF Grows, Counted
  <2> QED
    BY <1>b, <2>1, <2>2
<1>6. CASE StopAttempt
  BY <1>0, <1>6, <1>c, GrowsOnEvent DEF StopAttempt
<1>7. CASE ScheduleRetry
  BY <1>0, <1>7, <1>c, GrowsOnEvent DEF ScheduleRetry
<1> QED
  BY <1>0, <1>a, <1>1, <1>2, <1>3, <1>4, <1>5, <1>6, <1>7, WorkWritten

\* Every step keeps the attempts of a task counted.
LEMMA AttemptStep == IInv /\ AttemptStory /\ [Next]_vars => AttemptStory'
<1> SUFFICES ASSUME IInv, AttemptStory, [Next]_vars PROVE AttemptStory'
  OBVIOUS
<1>0. MissionsValid /\ CallFits /\ LogFits /\ LogShape(log)
  BY DEF IInv, LogFits
<1>1. \A t \in DOMAIN log'.tasks : log'.tasks[t].current \in 0..Len(log'.tasks[t].attempts)
  BY LogGrows DEF Counted
<1>2. (pc = "attempt" => /\ log.tasks[op.task].attempts = <<>>
                         /\ log.tasks[op.task].current = 0
                         /\ mem.tasks[op.task].result = NoResult)'
  <2>1. CASE Aside
    BY <2>1 DEF Aside, AttemptStory
  <2>2. CASE IssueStageTask /\ pc' = "attempt"
    <3>1. PICK role \in RolesWithoutTask(mem) :
              /\ mem' = IssueTask(mem, role) /\ log' = TaskIssued(log, Current(mem, role))
              /\ op'.task = Current(mem, role)
      BY <2>2, Issuing DEF Abandon, Release
    <3>2. IsMission(mem)
      BY <1>0, <2>2 DEF IssueStageTask, MissionsValid, Valid
    <3>3. mem'.tasks[op'.task].result = NoResult
      BY <3>1, <3>2, IssueFields
    <3> QED
      BY <1>0, <3>1, <3>3, IssuedFields
  <2> QED
    BY <2>1, <2>2, Progress DEF Arrivals, Release
<1>3. (pc = "restart" => mem.tasks[op.task].attempt = Len(log.tasks[op.task].attempts))'
  <2>1. CASE Aside
    BY <2>1 DEF Aside, AttemptStory
  <2>2. CASE ScheduleRetry
    <3>1. /\ op' = op /\ mem' = Retry(mem, op.task, Len(log.tasks[op.task].attempts) + 1)
          /\ log' = RetryScheduled(log, op.task)
      BY <2>2 DEF ScheduleRetry, FreshAttempt
    <3>2. IsMission(mem) /\ op.task \in DOMAIN mem.tasks /\ op.task \in DOMAIN log.tasks
      BY <1>0, <2>2 DEF ScheduleRetry, MissionsValid, CallFits, LogFits, Valid
    <3>3. mem'.tasks[op.task].attempt = Len(log.tasks[op.task].attempts) + 1
      BY <3>1, <3>2, RetryFields
    <3>4. log'.tasks[op.task].attempts = Append(log.tasks[op.task].attempts, "scheduled")
      BY <1>0, <3>1, <3>2, ScheduledFields
    <3>5. Len(Append(log.tasks[op.task].attempts, "scheduled"))
              = Len(log.tasks[op.task].attempts) + 1
      BY <1>0, <3>2 DEF LogShape, AttemptStatus
    <3> QED
      BY <3>1, <3>3, <3>4, <3>5
  <2> QED
    BY <2>1, <2>2, Progress DEF Arrivals, Release
<1> QED
  BY <1>1, <1>2, <1>3 DEF AttemptStory

\* The attempts of every task, along every behaviour.
LEMMA AttemptInvariance == Spec => []AttemptStory
<1>1. Init => AttemptStory
  BY DEF Init, EmptyLog, AttemptStory
<1> QED
  BY <1>1, AttemptStep, Invariance, PTL DEF Spec

-----------------------------------------------------------------------------
(* The log is ahead of the mission.                                        *)

\* What becomes of the working copy of a call that goes on.
LEMMA Rewritten ==
    ASSUME IInv, [Next]_vars, pc' # "idle"
    PROVE  \/ mem' = snap /\ snap # NoMission /\ Loading
           \/ pc # "idle" /\ (mem' = mem \/ SameButTasks(mem', mem))
           \/ \E g \in Goals : Start(g)
           \/ pc # "idle" /\ mem' = Advance(mem) /\ AdvanceStage
           \/ pc # "idle" /\ mem' = Steer(mem, op.arg.goal) /\ SteerMission
           \/ /\ pc # "idle" /\ mem' = BindCandidate(mem, CandidateId(op.arg, mem.goal))
              /\ BindFrozen
           \/ pc # "idle" /\ mem' = MarkApproved(mem) /\ MarkDecision
           \/ pc # "idle" /\ mem' = BindRelease(mem) /\ BindPackage
<1>0. MissionsValid /\ CallFits
  BY DEF IInv
<1>a. pc # "idle" => IsMission(mem)
  BY <1>0 DEF MissionsValid, Valid
<1>1. CASE Aside \/ (pc # "idle" /\ mem' = mem)
  BY <1>1 DEF Aside
<1>2. CASE Rewriting
  <2>1. CASE Loading
    BY <2>1 DEF Loading, Loaded, Call
  <2>2. CASE ReceiveResult \/ StopAttempt \/ ScheduleRetry
    <3>1. pc # "idle" /\ op.task \in DOMAIN mem.tasks
      BY <1>0, <2>2 DEF ReceiveResult, StopAttempt, ScheduleRetry, CallFits
    <3>2. mem' = mem \/ SameButTasks(mem', mem)
      BY <1>a, <2>2, <3>1, TaskRewritten
    <3> QED
      BY <3>1, <3>2
  <2>3. CASE AdvanceStage
    BY <2>3 DEF AdvanceStage
  <2>4. CASE IssueStageTask
    <3>1. mem' = mem \/ SameButTasks(mem', mem)
      BY <1>a, <2>4, IssueFields DEF IssueStageTask, Abandon, Release
    <3> QED
      BY <2>4, <3>1 DEF IssueStageTask
  <2>5. CASE SteerMission \/ BindFrozen
    BY <2>5 DEF SteerMission, BindFrozen, Abandon, Release
  <2>6. CASE MarkDecision \/ BindPackage
    BY <2>6 DEF MarkDecision, BindPackage, Abandon, Release
  <2> QED
    BY <1>2, <2>1, <2>2, <2>3, <2>4, <2>5, <2>6 DEF Rewriting
<1> QED
  BY <1>1, <1>2, Progress DEF Release

\* Every step keeps the marks of a mission behind those of the log.
LEMMA MarksStoryStep == IInv /\ MarksStory /\ [Next]_vars => MarksStory'
<1> SUFFICES ASSUME IInv, MarksStory, [Next]_vars PROVE MarksStory'
  OBVIOUS
<1>0. MissionsValid /\ LogShape(log) /\ (pc # "idle" => IsMission(mem))
  BY DEF IInv, LogFits, MissionsValid, Valid
<1>a. \/ LogErased
      \/ /\ log.frozen \subseteq log'.frozen /\ log.decided \subseteq log'.decided
         /\ log.packaged \subseteq log'.packaged
  BY <1>0, MarksWritten DEF MarksStep, Marks
<1>b. LogErased => snap' = snap /\ snap = NoMission /\ pc' = "idle"
  BY DEF LogErased, Crash, Release
<1>1. CASE LogErased
  BY <1>1, <1>b DEF MarksStory
<1>2. CASE ~LogErased
  <2>a. ASSUME NEW m, MarksCovered(m)
        PROVE  /\ m.active # None => <<m.rev, m.active>> \in log'.frozen
               /\ m.approved => <<m.rev, m.active>> \in log'.decided
               /\ m.released => <<m.rev, m.active>> \in log'.packaged
    BY <1>2, <1>a, <2>a DEF MarksCovered
  <2>1. (snap # NoMission => MarksCovered(snap))'
    BY <2>a, Writers DEF SaveSnapshot, MarksStory, MarksCovered
  <2>2. (pc # "idle" => MarksCovered(mem))'
    <3> SUFFICES ASSUME pc' # "idle"
        PROVE  /\ mem'.active # None => <<mem'.rev, mem'.active>> \in log'.frozen
               /\ mem'.approved => <<mem'.rev, mem'.active>> \in log'.decided
               /\ mem'.released => <<mem'.rev, mem'.active>> \in log'.packaged
      BY DEF MarksCovered
    <3>1. CASE mem' = snap /\ snap # NoMission
      BY <2>a, <3>1 DEF MarksStory
    <3>2. CASE pc # "idle" /\ (mem' = mem \/ SameButTasks(mem', mem))
      BY <2>a, <3>2 DEF MarksStory, SameButTasks
    <3>3. ASSUME NEW g \in Goals, Start(g)
          PROVE  mem'.active = None /\ ~mem'.approved /\ ~mem'.released
      BY <3>3, NewFields DEF Start
    <3>4. CASE pc # "idle" /\ mem' = Advance(mem)
      <4>1. /\ mem'.rev = mem.rev /\ mem'.active = mem.active /\ mem'.approved = mem.approved
            /\ mem'.released = mem.released
        BY <1>0, <3>4, AdvanceFields
      <4> QED
        BY <2>a, <3>4, <4>1 DEF MarksStory
    <3>5. CASE pc # "idle" /\ mem' = Steer(mem, op.arg.goal)
      <4>1. mem'.active = None
        BY <1>0, <3>5, SteerFields
      <4>2. ~mem'.approved /\ ~mem'.released
        BY <3>5, SteerFlags
      <4> QED
        BY <4>1, <4>2
    <3>6. CASE /\ pc # "idle" /\ mem' = BindCandidate(mem, CandidateId(op.arg, mem.goal))
               /\ BindFrozen
      <4> DEFINE c == CandidateId(op.arg, mem.goal)
      <4>1. log' = CandidateFrozen(log, mem.rev, c)
        BY <3>6 DEF BindFrozen, Abandon, Release
      <4>2. log'.frozen = log.frozen \cup {<<mem.rev, c>>}
        BY <1>0, <4>1, MarkEvents DEF Marks
      <4> HIDE DEF c
      <4>3. mem'.rev = mem.rev /\ mem'.active = c
        BY <1>0, <3>6, BindFields DEF c
      <4>4. ~mem'.approved /\ ~mem'.released
        BY <1>0, <3>6, BindFlags
      <4> QED
        BY <4>2, <4>3, <4>4
    <3>7. CASE pc # "idle" /\ mem' = MarkApproved(mem) /\ MarkDecision
      <4>1. log'.decided = log.decided \cup {<<mem.rev, mem.active>>}
        BY <1>0, <3>7, MarkEvents DEF MarkDecision, Marks
      <4>2. mem'.rev = mem.rev /\ mem'.active = mem.active
        BY <1>0, <3>7, MarkFields
      <4>3. mem'.released = mem.released
        BY <1>0, <3>7, MarkFlags
      <4> QED
        BY <2>a, <3>7, <4>1, <4>2, <4>3 DEF MarksStory
    <3>8. CASE pc # "idle" /\ mem' = BindRelease(mem) /\ BindPackage
      <4>1. log' = PackageCreated(log, mem.rev, mem.active)
        BY <3>8 DEF BindPackage, Abandon, Release
      <4>2. log'.packaged = log.packaged \cup {<<mem.rev, mem.active>>}
        BY <1>0, <4>1, MarkEvents DEF Marks
      <4>3. mem'.rev = mem.rev /\ mem'.active = mem.active
        BY <1>0, <3>8, MarkFields
      <4>4. mem'.approved = mem.approved
        BY <1>0, <3>8, MarkFlags
      <4> QED
        BY <2>a, <3>8, <4>2, <4>3, <4>4 DEF MarksStory
    <3> QED
      BY <3>1, <3>2, <3>3, <3>4, <3>5, <3>6, <3>7, <3>8, Rewritten
  <2> QED
    BY <2>1, <2>2 DEF MarksStory
<1> QED
  BY <1>1, <1>2

\* The marks of every mission, along every behaviour.
LEMMA MarksInvariance == Spec => []MarksStory
<1>1. Init => MarksStory
  BY DEF Init, MarksStory
<1> QED
  BY <1>1, MarksStoryStep, Invariance, PTL DEF Spec

\* Where the mission is after each event about its course.
LEMMA StartedCourse ==
    ASSUME NEW l, LogShape(l), NEW stage
    PROVE  LET n == MissionStarted(l, stage)
           IN n.rev = 1 /\ n.stage = stage /\ ~n.completed /\ n.steered = l.steered
BY DEF LogShape, EmptyLog, MissionStarted

\* Advancing is logged as the next stage of the same revision.
LEMMA AdvancedCourse ==
    ASSUME NEW l, LogShape(l), NEW stage
    PROVE  LET n == StageAdvanced(l, stage)
           IN /\ n.rev = l.rev /\ n.stage = stage /\ n.completed = l.completed
              /\ n.steered = l.steered
BY DEF LogShape, EmptyLog, StageAdvanced

\* Completion is logged as the end of the stages.
LEMMA CompletedCourse ==
    ASSUME NEW l, LogShape(l)
    PROVE  LET n == MissionCompleted(l)
           IN n.rev = l.rev /\ n.stage = "none" /\ n.completed /\ n.steered = l.steered
BY DEF LogShape, EmptyLog, MissionCompleted

\* A revision is logged once: a repeated event leaves the log as it is.
LEMMA RevisedCourse ==
    ASSUME NEW l, LogShape(l), NEW rev, NEW stage, NEW instruction
    PROVE  LET n == RevisionStarted(l, rev, stage, instruction)
           IN IF rev \in DOMAIN l.steered THEN n = l
              ELSE /\ n.rev = rev /\ n.stage = stage /\ ~n.completed
                   /\ DOMAIN n.steered = DOMAIN l.steered \cup {rev}
BY DEF LogShape, EmptyLog, RevisionStarted

\* Both plans start with the same stage, and go through their stages in the
\* order of the longer one.
LEMMA StagesOrdered ==
    /\ \A m, stage : m.stage = 1 /\ stage \in StageKinds => StageAt(m, stage)
    /\ \A m : \A i, j \in 1..Len(Plan(m.goal)) :
           m.stage = i /\ i <= j => StageAt(m, Plan(m.goal)[j])
<1> DEFINE E == ExplorationStages
           P == ProductionStages
<1>1. /\ Len(E) = 10 /\ DOMAIN E = 1..10
      /\ E[1] = "scope-risk" /\ E[2] = "goal-discovery" /\ E[3] = "method-discovery"
      /\ E[4] = "requirements" /\ E[5] = "oracle" /\ E[6] = "design"
      /\ E[7] = "implementation" /\ E[8] = "integration-verification"
      /\ E[9] = "validation" /\ E[10] = "release"
  BY DEF ExplorationStages
<1>2. /\ Len(P) = 8 /\ DOMAIN P = 1..8
      /\ P[1] = "scope-risk" /\ P[2] = "requirements" /\ P[3] = "oracle" /\ P[4] = "design"
      /\ P[5] = "implementation" /\ P[6] = "integration-verification"
      /\ P[7] = "validation" /\ P[8] = "release"
  BY DEF ProductionStages
<1> HIDE DEF E, P
<1>3. \A g : (Plan(g) = E \/ Plan(g) = P) /\ Plan(g)[1] = "scope-risk"
  BY <1>1, <1>2 DEF Plan, E, P
<1>4. \A i \in 1..8 : E[IF i = 1 THEN 1 ELSE i + 2] = P[i]
  <2>1. \A i \in 1..8 : i = 1 \/ i = 2 \/ i = 3 \/ i = 4 \/ i = 5 \/ i = 6 \/ i = 7 \/ i = 8
    OBVIOUS
  <2> QED
    BY <1>1, <1>2, <2>1
<1>5. ASSUME NEW m, NEW stage \in StageKinds, m.stage = 1 PROVE StageAt(m, stage)
  <2>1. Kind(m) = E[1]
    BY <1>1, <1>3, <1>5 DEF Kind
  <2>2. \E j \in 1..10 : E[j] = stage
    BY <1>1 DEF StageKinds
  <2> QED
    BY <1>1, <2>1, <2>2 DEF StageAt, E
<1>6. ASSUME NEW m, NEW i \in 1..Len(Plan(m.goal)), NEW j \in 1..Len(Plan(m.goal)),
             m.stage = i, i <= j
      PROVE  StageAt(m, Plan(m.goal)[j])
  <2>1. CASE Plan(m.goal) = E
    BY <1>1, <1>6, <2>1 DEF StageAt, Kind, E
  <2>2. CASE Plan(m.goal) = P
    <3> DEFINE Place(k) == IF k = 1 THEN 1 ELSE k + 2
    <3>1. i \in 1..8 /\ j \in 1..8
      BY <1>2, <2>2
    <3>2. Place(i) \in 1..10 /\ Place(j) \in 1..10 /\ Place(i) <= Place(j)
      BY <1>6, <3>1
    <3>3. \A k \in 1..8 : E[Place(k)] = P[k]
      BY <1>4
    <3> HIDE DEF Place
    <3>4. /\ Place(i) \in 1..10 /\ Place(j) \in 1..10 /\ Place(i) <= Place(j)
          /\ E[Place(i)] = P[i] /\ E[Place(j)] = P[j]
      BY <3>1, <3>2, <3>3
    <3> QED
      BY <1>1, <1>6, <2>2, <3>4 DEF StageAt, Kind, E
  <2> QED
    BY <1>3, <2>1, <2>2
<1> QED
  BY <1>5, <1>6

\* Every step keeps the log no more than one revision ahead.
LEMMA AheadStep == IInv /\ CopyStory /\ TaskStory /\ LogAhead /\ [Next]_vars => LogAhead'
<1> SUFFICES ASSUME IInv, CopyStory, TaskStory, LogAhead, [Next]_vars PROVE LogAhead'
  OBVIOUS
<1>0. /\ MissionsValid /\ LogShape(log) /\ log.rev \in Nat
      /\ pc # "idle" => IsMission(mem) /\ mem.rev \in Nat \ {0} /\ mem # NoMission
      /\ snap # NoMission => IsMission(snap) /\ snap.rev \in Nat
  BY DEF IInv, LogFits, LogShape, MissionsValid, Valid, IsMission, NoMission
<1>1. CASE Course(log') = Course(log)
  <2>1. /\ log'.rev = log.rev /\ log'.stage = log.stage /\ log'.completed = log.completed
        /\ log'.steered = log.steered
    BY <1>1 DEF Course
  <2>2. CASE snap' = snap
    BY <2>1, <2>2 DEF LogAhead
  <2>3. CASE SaveSnapshot
    <3>1. pc = "save" /\ snap' = mem /\ mem # NoMission /\ mem.rev \in Nat \ {0}
      BY <1>0, <2>3 DEF SaveSnapshot
    <3>2. snap # NoMission => mem.rev >= snap.rev
      BY <3>1 DEF TaskStory, OldKept
    <3>3. log.rev <= mem.rev + 1
      BY <1>0, <3>1, <3>2 DEF LogAhead
    <3> QED
      BY <2>1, <3>1, <3>3 DEF LogAhead
  <2> QED
    BY <2>2, <2>3, Writers
<1>2. CASE LogErased
  BY <1>2 DEF LogErased, Crash, EmptyLog, LogAhead
<1>3. ASSUME NEW g \in Goals, Start(g) PROVE LogAhead'
  <2>1. snap = NoMission /\ snap' = snap /\ log' = MissionStarted(log, Kind(NewMission(g)))
    BY <1>3 DEF Start, Goto
  <2>2. Kind(NewMission(g)) \in StageKinds
    BY NewMissionValid, Positions DEF Valid
  <2> QED
    BY <1>0, <2>1, <2>2, StartedCourse DEF LogAhead
<1>4. CASE AdvanceStage
  <2>1. snap' = snap /\ pc # "idle" /\ Valid(mem)
    BY <1>0, <1>4 DEF AdvanceStage, Goto, MissionsValid
  <2>2. \/ log' = log \/ log' = MissionCompleted(log)
        \/ log' = StageAdvanced(log, Kind(Advance(mem))) /\ Kind(Advance(mem)) \in StageKinds
    BY <1>4, <2>1, AdvanceValid, Positions DEF AdvanceStage, Valid
  <2>3. /\ log'.rev = log.rev /\ log'.steered = log.steered
        /\ log' = log \/ log'.completed \/ log'.stage \in StageKinds
    BY <1>0, <2>2, AdvancedCourse, CompletedCourse
  <2> QED
    BY <2>1, <2>3 DEF LogAhead
<1>5. CASE SteerMission
  <2>1. pc = "steer" /\ snap' = snap /\ snap # NoMission /\ mem = snap /\ op.arg.goal \in Goals
    BY <1>5 DEF SteerMission, Abandon, Goto, CopyStory, Changing, IInv, CallFits
  <2>2. \/ log' = log
        \/ log' = RevisionStarted(log, mem.rev + 1, Kind(Steer(mem, op.arg.goal)),
                                  op.arg.instruction)
    BY <1>5 DEF SteerMission, Abandon
  <2>3. Kind(Steer(mem, op.arg.goal)) \in StageKinds
    BY <1>0, <2>1, SteerValid, Positions DEF MissionsValid, Valid
  <2>4. \/ log' = log
        \/ /\ log'.rev = mem.rev + 1 /\ log'.stage \in StageKinds
           /\ DOMAIN log'.steered = DOMAIN log.steered \cup {mem.rev + 1}
    BY <1>0, <2>2, <2>3, RevisedCourse
  <2> QED
    BY <1>0, <2>1, <2>4 DEF LogAhead
<1> QED
  BY <1>0, <1>1, <1>2, <1>3, <1>4, <1>5, CourseWritten

\* What is looked at of the log and of the mission.
LEMMA SameCourse ==
    ASSUME NEW l, NEW k, NEW m, NEW n, CourseCovered(l, m), Course(k) = Course(l),
           n.rev = m.rev, n.goal = m.goal, n.stage = m.stage, n.completed => m.completed
    PROVE  CourseCovered(k, n)
<1>1. \A stage : StageAt(m, stage) => StageAt(n, stage)
  BY DEF StageAt, Kind
<1> QED
  BY <1>1 DEF CourseCovered, Course

\* Leaving a stage is logged at the stage after it.
LEMMA AdvanceCovered ==
    ASSUME IInv, CopyStory, TaskStory, CourseStory, AdvanceStage
    PROVE  /\ snap # NoMission => CourseCovered(log', snap)
           /\ CourseCovered(log', mem')
<1> DEFINE n == Advance(mem)
<1>0. /\ pc = "advance" /\ snap # NoMission /\ Valid(mem) /\ IsMission(mem) /\ LogShape(log)
      /\ IsMission(snap) /\ CourseCovered(log, snap) /\ CourseCovered(log, mem)
  BY DEF AdvanceStage, IInv, LogFits, MissionsValid, Valid, CopyStory, CourseStory
<1>1. CASE ~MayAdvance(mem)
  BY <1>0, <1>1 DEF AdvanceStage
<1>2. CASE MayAdvance(mem)
  <2>1. mem' = n /\ IsMission(n)
    BY <1>0, <1>2, AdvanceValid DEF AdvanceStage, Valid
  <2>2. /\ n.rev = mem.rev /\ n.goal = mem.goal /\ n.completed = LastStage(mem)
        /\ n.stage = IF LastStage(mem) THEN mem.stage ELSE mem.stage + 1
    BY <1>0, AdvanceFields
  <2> HIDE DEF n
  <2>3. CASE LastStage(mem)
    <3>1. log' = MissionCompleted(log)
      BY <1>2, <2>3 DEF AdvanceStage
    <3>2. log'.rev = log.rev /\ log'.completed
      BY <1>0, <3>1, CompletedCourse
    <3> QED
      BY <1>0, <2>1, <2>2, <3>2 DEF CourseCovered
  <2>4. CASE ~LastStage(mem)
    <3>1. log' = StageAdvanced(log, Kind(n))
      BY <1>2, <2>4 DEF AdvanceStage, n
    <3>2. log'.rev = log.rev /\ log'.stage = Kind(n) /\ log'.completed = log.completed
      BY <1>0, <3>1, AdvancedCourse
    <3>3. /\ n.stage = mem.stage + 1 /\ ~n.completed
          /\ n.stage \in 1..Len(Plan(mem.goal)) /\ mem.stage \in 1..Len(Plan(mem.goal))
      BY <1>0, <2>1, <2>2, <2>4 DEF IsMission
    <3>4. StageAt(n, Kind(n))
      BY <2>2, <3>3, StagesOrdered DEF Kind
    <3>5. CourseCovered(log', n)
      BY <1>0, <2>2, <3>2, <3>3, <3>4 DEF CourseCovered
    <3>6. snap.rev = mem.rev /\ snap.goal = mem.goal /\ snap.stage = mem.stage
      BY <1>0 DEF CopyStory, Life
    <3>7. StageAt(snap, Kind(n))
      BY <2>2, <3>3, <3>6, StagesOrdered DEF Kind
    <3> QED
      BY <1>0, <2>1, <3>2, <3>5, <3>7 DEF CourseCovered
  <2> QED
    BY <2>3, <2>4
<1> QED
  BY <1>1, <1>2

\* So is steering, also when its event was logged before.
LEMMA SteerCovered ==
    ASSUME IInv, CopyStory, LogAhead, CourseStory, SteerMission
    PROVE  /\ CourseCovered(log', snap)
           /\ pc' # "idle" => CourseCovered(log', mem')
<1> DEFINE n == Steer(mem, op.arg.goal)
<1>0. /\ pc = "steer" /\ snap # NoMission /\ mem = snap /\ Valid(mem) /\ IsMission(mem)
      /\ mem.rev \in Nat /\ LogShape(log) /\ log.rev \in Nat /\ CourseCovered(log, snap)
      /\ op.arg.goal \in Goals
  BY DEF SteerMission, IInv, LogFits, LogShape, CallFits, MissionsValid, Valid, IsMission,
     CopyStory, Changing, CourseStory
<1>1. CASE Abandon
  BY <1>0, <1>1 DEF Abandon, Release
<1>2. CASE /\ mem' = n
           /\ log' = RevisionStarted(log, mem.rev + 1, Kind(n), op.arg.instruction)
  <2>1. n.rev = mem.rev + 1 /\ n.stage = 1
    BY <1>0, SteerFields
  <2>2. ~n.completed
    BY SteerFlags
  <2>3. Kind(n) \in StageKinds
    BY <1>0, SteerValid, Positions DEF Valid
  <2> HIDE DEF n
  <2>4. \A stage \in StageKinds : StageAt(n, stage)
    BY <2>1, StagesOrdered
  <2>5. CASE mem.rev + 1 \in DOMAIN log.steered
    <3>1. log' = log
      BY <1>0, <1>2, <2>5, RevisedCourse
    <3>2. log.rev >= mem.rev + 1 /\ (log.completed \/ log.stage \in StageKinds)
      BY <1>0, <2>5 DEF LogAhead
    <3> QED
      BY <1>0, <1>2, <2>1, <2>2, <2>4, <3>1, <3>2 DEF CourseCovered
  <2>6. CASE mem.rev + 1 \notin DOMAIN log.steered
    <3>1. log'.rev = mem.rev + 1 /\ log'.stage = Kind(n)
      BY <1>0, <1>2, <2>6, RevisedCourse
    <3> QED
      BY <1>0, <1>2, <2>1, <2>2, <2>3, <2>4, <3>1 DEF CourseCovered
  <2> QED
    BY <2>5, <2>6
<1> QED
  BY <1>1, <1>2 DEF SteerMission

\* Every step keeps the mission behind the log on its course.
LEMMA CourseStoryStep ==
    IInv /\ CopyStory /\ TaskStory /\ LogAhead /\ CourseStory /\ [Next]_vars => CourseStory'
<1> SUFFICES ASSUME IInv, CopyStory, TaskStory, LogAhead, CourseStory, [Next]_vars
    PROVE  /\ snap' # NoMission => CourseCovered(log', snap')
           /\ pc' # "idle" => CourseCovered(log', mem')
  BY DEF CourseStory, CourseCovered, StageAt, Kind
<1>0. /\ LogShape(log)
      /\ pc # "idle" => IsMission(mem)
  BY DEF IInv, LogFits, MissionsValid, Valid
<1>1. ASSUME NEW g \in Goals, Start(g) PROVE snap' = NoMission /\ CourseCovered(log', mem')
  <2> DEFINE n == NewMission(g)
  <2>1. snap' = NoMission /\ mem' = n /\ log' = MissionStarted(log, Kind(n))
    BY <1>1 DEF Start, Goto
  <2>2. n.rev = 1 /\ n.stage = 1 /\ ~n.completed
    BY NewFields
  <2>3. Kind(n) \in StageKinds
    BY NewMissionValid, Positions DEF Valid
  <2> HIDE DEF n
  <2>4. log'.rev = 1 /\ log'.stage = Kind(n)
    BY <1>0, <2>1, StartedCourse
  <2> QED
    BY <2>1, <2>2, <2>3, <2>4, StagesOrdered DEF CourseCovered
<1>2. CASE AdvanceStage
  BY <1>2, AdvanceCovered DEF AdvanceStage, Goto
<1>3. CASE SteerMission
  BY <1>3, SteerCovered DEF SteerMission, Abandon, Goto
<1>4. CASE LogErased
  BY <1>4 DEF LogErased, Crash, Release
<1>5. CASE /\ Course(log') = Course(log) /\ ~AdvanceStage /\ ~SteerMission
           /\ ~\E g \in Goals : Start(g)
  <2>a. ASSUME NEW m, CourseCovered(log, m) PROVE CourseCovered(log', m)
    BY <1>5, <2>a, SameCourse
  <2>1. snap' # NoMission => CourseCovered(log', snap')
    BY <2>a, Writers DEF SaveSnapshot, CourseStory
  <2>2. ASSUME pc' # "idle" PROVE CourseCovered(log', mem')
    <3>1. CASE mem' = snap /\ snap # NoMission
      BY <2>a, <3>1 DEF CourseStory
    <3>2. CASE pc # "idle" /\ (mem' = mem \/ SameButTasks(mem', mem))
      BY <1>5, <3>2, SameCourse DEF CourseStory, SameButTasks
    <3>3. CASE pc # "idle" /\ mem' = BindCandidate(mem, CandidateId(op.arg, mem.goal))
      <4>1. mem'.rev = mem.rev /\ mem'.goal = mem.goal /\ mem'.stage = mem.stage
        BY <1>0, <3>3, BindFields
      <4>2. mem'.completed = mem.completed
        BY <1>0, <3>3, BindFlags
      <4> QED
        BY <1>5, <3>3, <4>1, <4>2, SameCourse DEF CourseStory
    <3>4. CASE pc # "idle" /\ (mem' = MarkApproved(mem) \/ mem' = BindRelease(mem))
      <4>1. mem'.rev = mem.rev /\ mem'.goal = mem.goal /\ mem'.stage = mem.stage
        BY <1>0, <3>4, MarkFields
      <4>2. mem'.completed = mem.completed
        BY <1>0, <3>4, MarkFlags
      <4> QED
        BY <1>5, <3>4, <4>1, <4>2, SameCourse DEF CourseStory
    <3> QED
      BY <1>5, <2>2, <3>1, <3>2, <3>3, <3>4, Rewritten
  <2> QED
    BY <2>1, <2>2
<1> QED
  BY <1>0, <1>1, <1>2, <1>3, <1>4, <1>5, CourseWritten

\* A call that is to start an attempt does just that.
LEMMA StartsNext ==
    ASSUME [Next]_vars, pc \in {"attempt", "restart"}, pc' # "idle"
    PROVE  Aside \/ StartAttempt \/ RestartAttempt
<1>1. ~Client
  BY Loads DEF Loading, Loaded, Call, Start
<1>2. CASE Environment \/ UNCHANGED vars
  BY <1>2 DEF Environment, Tamper, RewriteArtifact, AlterEvidence, vars, Aside
<1>3. ~Respond /\ ~Crash /\ ~RefuseArguments
  BY DEF Respond, Crash, RefuseArguments, Release, Abandon
<1> QED
  BY <1>1, <1>2, <1>3, Departures DEF Next, Step

\* What was covered stays covered as the log grows.
LEMMA StillCovered ==
    ASSUME NEW l, NEW k, Counted(l), Counted(k), LogShape(l), LogShape(k), Grows(l, k),
           NEW m, NEW n, NEW t, TaskCovered(l, m, t),
           n.tasks[t].attempt = m.tasks[t].attempt, n.tasks[t].result = m.tasks[t].result
    PROVE  TaskCovered(k, n, t)
<1>1. /\ t \in DOMAIN l.tasks /\ t \in DOMAIN k.tasks
      /\ l.tasks[t].current \in Nat /\ k.tasks[t].current \in Nat
      /\ k.tasks[t].current >= l.tasks[t].current
  BY DEF TaskCovered, Grows, Counted, LogShape
<1> QED
  BY <1>1 DEF TaskCovered, Grows

\* Every step keeps the log ahead of the mission's tasks.
LEMMA WorkStep == IInv /\ AttemptStory /\ WorkStory /\ [Next]_vars => WorkStory'
<1> SUFFICES ASSUME IInv, AttemptStory, WorkStory, [Next]_vars PROVE WorkStory'
  OBVIOUS
<1>0. /\ MissionsValid /\ CallFits /\ LogFits /\ LogShape(log) /\ Counted(log)
      /\ pc # "idle" => IsMission(mem)
      /\ LogShape(log') /\ Counted(log')
  BY LogStep, LogGrows DEF IInv, LogFits, MissionsValid, Valid, AttemptStory, Counted
<1>1. CASE pc' = "idle"
  <2>1. snap' = snap
    BY <1>1, Writers DEF SaveSnapshot
  <2>2. CASE LogErased
    BY <1>1, <2>1, <2>2 DEF LogErased, WorkStory
  <2>3. CASE Grows(log, log')
    BY <1>0, <1>1, <2>1, <2>3, StillCovered DEF WorkStory
  <2> QED
    BY <2>2, <2>3, LogGrows
<1>2. CASE pc' # "idle"
  <2>0. Grows(log, log')
    BY <1>2, LogGrows DEF LogErased, Crash, Release
  <2>a. ASSUME NEW m, NEW t, TaskCovered(log, m, t) PROVE TaskCovered(log', m, t)
    BY <1>0, <2>0, <2>a, StillCovered
  <2>b. ASSUME NEW t, TaskCovered(log, mem, t), mem'.tasks[t].attempt = mem.tasks[t].attempt,
               mem'.tasks[t].result = mem.tasks[t].result
        PROVE  TaskCovered(log', mem', t)
    BY <1>0, <2>0, <2>b, StillCovered
  <2>1. snap' # NoMission => \A t \in DOMAIN snap'.tasks : TaskCovered(log', snap', t)
    BY <2>a, Writers DEF SaveSnapshot, WorkStory, Starting
  <2>2. \A t \in DOMAIN mem'.tasks : Starting(t)' \/ TaskCovered(log', mem', t)
    <3>1. CASE Aside
      BY <1>2, <2>a, <3>1 DEF Aside, WorkStory, Starting
    <3>2. CASE Loading
      BY <2>a, <3>2 DEF Loading, Loaded, Call, WorkStory
    <3>3. ASSUME NEW g \in Goals, Start(g) PROVE DOMAIN mem'.tasks = {}
      BY <3>3, NewFields DEF Start
    <3>4. CASE StartAttempt \/ RestartAttempt
      <4> DEFINE t == op.task
                 a == mem.tasks[t].attempt
      <4>1. /\ pc \in {"attempt", "restart"} /\ pc' \notin {"attempt", "restart"} /\ mem' = mem
            /\ t \in DOMAIN mem.tasks /\ t \in DOMAIN log.tasks
            /\ log' = AttemptStarted(log, t, a)
        BY <1>0, <3>4 DEF StartAttempt, RestartAttempt, Goto, CallFits, LogFits
      <4>3. a \in Nat \ {0}
        BY <1>0, <4>1, TaskFields
      <4> HIDE DEF t, a
      <4>2. t \in DOMAIN log'.tasks /\ log'.tasks[t].current = a /\ log'.results = log.results
        BY <1>0, <4>1, StartedFields
      <4> USE DEF t, a
      <4>4. mem.tasks[t].result # NoResult => <<t, mem.tasks[t].result.attempt>> \in log.results
        BY <4>1 DEF AttemptStory, WorkStory
      <4>5. TaskCovered(log', mem', t)
        BY <4>1, <4>2, <4>3, <4>4 DEF TaskCovered
      <4>6. ASSUME NEW u \in DOMAIN mem.tasks, u # t PROVE TaskCovered(log', mem', u)
        BY <2>a, <4>1, <4>6 DEF WorkStory, Starting
      <4> QED
        BY <4>1, <4>5, <4>6
    <3>5. CASE IssueStageTask
      <4>1. CASE mem' = mem
        BY <1>2, <2>a, <3>5, <4>1 DEF IssueStageTask, WorkStory, Starting
      <4>2. CASE \E role \in RolesWithoutTask(mem) :
                     /\ mem' = IssueTask(mem, role) /\ op'.task = Current(mem, role)
                     /\ pc' = "attempt"
        <5>1. PICK role \in RolesWithoutTask(mem) :
                  /\ mem' = IssueTask(mem, role) /\ op'.task = Current(mem, role)
                  /\ pc' = "attempt"
          BY <4>2
        <5>2. pc = "tasks"
          BY <3>5, Departures
        <5>3. /\ DOMAIN mem'.tasks = DOMAIN mem.tasks \cup {Current(mem, role)}
              /\ \A u \in DOMAIN mem.tasks :
                     u # Current(mem, role) => mem'.tasks[u] = mem.tasks[u]
          BY <1>0, <5>1, <5>2, IssueFields
        <5> QED
          BY <2>b, <5>1, <5>2, <5>3 DEF WorkStory, Starting
      <4> QED
        BY <1>2, <3>5, <4>1, <4>2, Issuing DEF Abandon, Release
    <3>6. CASE ReceiveResult /\ mem' # mem
      <4> DEFINE t == op.task
                 a == mem.tasks[t].attempt
      <4>1. /\ pc = "receive" /\ mem' = Receive(mem, t, op.arg.gate, op.arg.digest)
            /\ log' = ResultReceived(log, t, a) /\ t \in DOMAIN mem.tasks
        BY <1>0, <1>2, <3>6 DEF ReceiveResult, Abandon, Release, CallFits
      <4>2. /\ DOMAIN mem'.tasks = DOMAIN mem.tasks
            /\ \A u \in DOMAIN mem.tasks : u # t => mem'.tasks[u] = mem.tasks[u]
        BY <1>0, <4>1, TaskOperations
      <4>3. mem'.tasks[t].attempt = a /\ mem'.tasks[t].result.attempt = a
        BY <1>0, <4>1, ReceiveFields
      <4>4. TaskCovered(log, mem, t) /\ t \in DOMAIN log.tasks
        BY <4>1 DEF WorkStory, Starting, TaskCovered
      <4>5. log'.results = log.results \cup {<<t, a>>}
        BY <1>0, <4>1, <4>4, ReceivedFields
      <4>6. TaskCovered(log', mem, t)
        BY <2>a, <4>4
      <4>7. TaskCovered(log', mem', t)
        BY <4>3, <4>5, <4>6 DEF TaskCovered
      <4> QED
        BY <2>b, <4>1, <4>2, <4>7 DEF WorkStory, Starting
    <3>7. CASE StopAttempt
      <4>1. /\ pc = "interrupt" /\ mem' = Interrupt(mem, op.task) /\ op.task \in DOMAIN mem.tasks
        BY <1>0, <3>7 DEF StopAttempt, CallFits
      <4>2. /\ DOMAIN mem'.tasks = DOMAIN mem.tasks
            /\ \A u \in DOMAIN mem.tasks : u # op.task => mem'.tasks[u] = mem.tasks[u]
        BY <1>0, <4>1, TaskOperations
      <4>3. /\ mem'.tasks[op.task].attempt = mem.tasks[op.task].attempt
            /\ mem'.tasks[op.task].result = mem.tasks[op.task].result
        BY <1>0, <4>1, InterruptFields
      <4> QED
        BY <2>b, <4>1, <4>2, <4>3 DEF WorkStory, Starting
    <3>8. CASE ScheduleRetry
      <4>1. /\ pc = "retry" /\ mem' = Retry(mem, op.task, FreshAttempt(log, op.task))
            /\ op.task \in DOMAIN mem.tasks /\ op' = op /\ pc' = "restart"
        BY <1>0, <3>8 DEF ScheduleRetry, CallFits, Goto
      <4>2. /\ DOMAIN mem'.tasks = DOMAIN mem.tasks
            /\ \A u \in DOMAIN mem.tasks : u # op.task => mem'.tasks[u] = mem.tasks[u]
        BY <1>0, <4>1, TaskOperations
      <4> QED
        BY <2>b, <4>1, <4>2 DEF WorkStory, Starting
    <3>9. CASE pc # "idle" /\ mem' = Advance(mem) /\ AdvanceStage
      <4>1. pc = "advance"
        BY <3>9, Departures
      <4>2. /\ DOMAIN mem'.tasks = DOMAIN mem.tasks
            /\ \A t \in DOMAIN mem.tasks : /\ mem'.tasks[t].attempt = mem.tasks[t].attempt
                                           /\ mem'.tasks[t].result = mem.tasks[t].result
        BY <1>0, <3>9, AdvanceFields
      <4> QED
        BY <2>b, <4>1, <4>2 DEF WorkStory, Starting
    <3>10. CASE pc # "idle" /\ mem' = Steer(mem, op.arg.goal) /\ SteerMission
      <4>1. pc = "steer"
        BY <3>10, Departures
      <4>2. /\ DOMAIN mem'.tasks = DOMAIN mem.tasks
            /\ \A t \in DOMAIN mem.tasks : /\ mem'.tasks[t].attempt = mem.tasks[t].attempt
                                           /\ mem'.tasks[t].result = mem.tasks[t].result
        BY <1>0, <3>10, SteerFields
      <4> QED
        BY <2>b, <4>1, <4>2 DEF WorkStory, Starting
    <3>11. CASE /\ pc # "idle" /\ mem' = BindCandidate(mem, CandidateId(op.arg, mem.goal))
                /\ BindFrozen
      <4>1. pc = "bind"
        BY <3>11, Departures
      <4>2. /\ DOMAIN mem'.tasks = DOMAIN mem.tasks
            /\ \A t \in DOMAIN mem.tasks : /\ mem'.tasks[t].attempt = mem.tasks[t].attempt
                                           /\ mem'.tasks[t].result = mem.tasks[t].result
        BY <1>0, <3>11, BindFields
      <4> QED
        BY <2>b, <4>1, <4>2 DEF WorkStory, Starting
    <3>12. CASE /\ pc \in {"mark", "release"}
                /\ mem' = MarkApproved(mem) \/ mem' = BindRelease(mem)
      <4>1. mem'.tasks = mem.tasks
        BY <1>0, <3>12, MarkFields
      <4> QED
        BY <2>b, <3>12, <4>1 DEF WorkStory, Starting
    <3>13. CASE /\ pc # "idle" /\ mem' = mem /\ ~Aside /\ ~StartAttempt /\ ~RestartAttempt
      <4>1. pc \notin {"attempt", "restart"}
        BY <1>2, <3>13, StartsNext
      <4> QED
        BY <2>a, <3>13, <4>1 DEF WorkStory, Starting
    <3>14. CASE MarkDecision \/ BindPackage
      <4>1. pc \in {"mark", "release"}
        BY <3>14 DEF MarkDecision, BindPackage
      <4>2. mem' = MarkApproved(mem) \/ mem' = BindRelease(mem)
        BY <1>2, <3>14 DEF MarkDecision, BindPackage, Abandon, Release
      <4> QED
        BY <3>12, <4>1, <4>2
    <3>15. CASE AdvanceStage
      <4>1. pc = "advance" /\ (mem' = Advance(mem) \/ mem' = mem)
        BY <3>15 DEF AdvanceStage
      <4>2. CASE mem' = mem
        BY <2>a, <4>1, <4>2 DEF WorkStory, Starting
      <4> QED
        BY <3>9, <3>15, <4>1, <4>2
    <3>16. CASE SteerMission
      <4>1. mem' = Steer(mem, op.arg.goal) /\ pc = "steer"
        BY <1>2, <3>16 DEF SteerMission, Abandon, Release
      <4> QED
        BY <3>10, <3>16, <4>1
    <3>17. CASE BindFrozen
      <4>1. mem' = BindCandidate(mem, CandidateId(op.arg, mem.goal)) /\ pc = "bind"
        BY <1>2, <3>17 DEF BindFrozen, Abandon, Release
      <4> QED
        BY <3>11, <3>17, <4>1
    <3>18. CASE ReceiveResult /\ mem' = mem
      <4>1. pc = "receive"
        BY <3>18 DEF ReceiveResult
      <4> QED
        BY <2>a, <3>18, <4>1 DEF WorkStory, Starting
    <3>19. CASE Rewriting
      <4>1. ASSUME NEW g \in Goals, Start(g)
            PROVE  \A t \in DOMAIN mem'.tasks : Starting(t)' \/ TaskCovered(log', mem', t)
        BY <3>3, <4>1
      <4> QED
        BY <3>2, <3>5, <3>6, <3>7, <3>8, <3>14, <3>15, <3>16, <3>17, <3>18, <3>19, <4>1
           DEF Rewriting
    <3> QED
      BY <1>2, <3>1, <3>4, <3>13, <3>19, Progress DEF Release
  <2>3. pc' = "restart" => LET result == mem'.tasks[op'.task].result
                           IN result # NoResult => <<op'.task, result.attempt>> \in log'.results
    <3>1. CASE Aside
      BY <3>1 DEF Aside, WorkStory
    <3>2. CASE ScheduleRetry
      <4>1. /\ pc = "retry" /\ mem' = Retry(mem, op.task, FreshAttempt(log, op.task))
            /\ op.task \in DOMAIN mem.tasks /\ op' = op
        BY <1>0, <3>2 DEF ScheduleRetry, CallFits
      <4>2. mem'.tasks[op.task].result = mem.tasks[op.task].result
        BY <1>0, <4>1, RetryFields
      <4>3. TaskCovered(log', mem, op.task)
        BY <2>a, <4>1 DEF WorkStory, Starting
      <4> QED
        BY <4>1, <4>2, <4>3 DEF TaskCovered
    <3> QED
      BY <1>2, <3>1, <3>2, Progress DEF Arrivals, Release
  <2> QED
    BY <1>2, <2>1, <2>2, <2>3 DEF WorkStory
<1> QED
  BY <1>1, <1>2

\* How far the log is ahead, along every behaviour.
LEMMA AheadInvariance == Spec => []LogAhead
<1>1. Init => LogAhead
  BY DEF Init, EmptyLog, LogAhead
<1> QED
  BY <1>1, AheadStep, Invariance, CopyInvariance, TaskInvariance, PTL DEF Spec

\* The course of the mission and the log, along every behaviour.
LEMMA CourseInvariance == Spec => []CourseStory
<1>1. Init => CourseStory
  BY DEF Init, CourseStory
<1> QED
  BY <1>1, CourseStoryStep, Invariance, CopyInvariance, TaskInvariance, AheadInvariance, PTL
     DEF Spec

\* The tasks of the mission and the log, along every behaviour.
LEMMA WorkInvariance == Spec => []WorkStory
<1>1. Init => WorkStory
  BY DEF Init, WorkStory
<1> QED
  BY <1>1, WorkStep, Invariance, AttemptInvariance, PTL DEF Spec

\* The log is written ahead of the snapshot: wherever a call was cut short,
\* what the saved mission claims the log already says (_save after every event
\* of the call, EventStore.append).
THEOREM LogIsAhead == Spec => []LogCoversSnapshot
<1>1. CourseStory /\ MarksStory /\ WorkStory => LogCoversSnapshot
  BY DEF CourseStory, CourseCovered, MarksStory, MarksCovered, WorkStory, TaskCovered,
     LogCoversSnapshot
<1> QED
  BY <1>1, CourseInvariance, MarksInvariance, WorkInvariance, PTL

-----------------------------------------------------------------------------
(* As long as no call is cut short.                                        *)

\* No crash has happened before a state in which none has, nor does one lead to it.
LEMMA CrashFree == IInv /\ [Next]_vars /\ crashes' = 0 => ~Crash /\ crashes = 0
<1> SUFFICES ASSUME IInv, [Next]_vars, crashes' = 0 PROVE ~Crash /\ crashes = 0
  OBVIOUS
<1>1. crashes \in Nat
  BY BoundsAssumption DEF IInv, StoresTyped, CallTyped
<1>2. ~Crash
  BY <1>1 DEF Crash
<1>3. crashes' = crashes
  <2>1. CASE Client
    BY <2>1 DEF Client, Start, Goto, Status, Revise, Submit, Checkpoint, InterruptAttempt,
       RetryAttempt, FreezeCandidate, RecordEvidence, ApproveCandidate, PackageRelease,
       GrantedCall, Call
  <2>2. CASE \/ ReceiveResult \/ AdvanceStage \/ IssueStageTask \/ StartAttempt
             \/ CheckpointAttempt \/ StopAttempt \/ ScheduleRetry \/ RestartAttempt
             \/ RefuseArguments
    BY <2>2 DEF RefuseArguments, ReceiveResult, AdvanceStage, IssueStageTask, StartAttempt,
       CheckpointAttempt, StopAttempt, ScheduleRetry, RestartAttempt, Goto, Abandon
  <2>3. CASE \/ InvalidateEvidence \/ SteerMission \/ FreezeSnapshot \/ BindFrozen
             \/ ExamineCandidate \/ AppendEvidence \/ NoteEvidence
    BY <2>3 DEF InvalidateEvidence, SteerMission, FreezeSnapshot, BindFrozen, ExamineCandidate,
       AppendEvidence, NoteEvidence, Goto, Abandon
  <2>4. CASE \/ ReviewCandidate \/ SaveDecision \/ MarkDecision \/ PackCandidate \/ SaveRelease
             \/ BindPackage \/ SaveSnapshot \/ Respond
    BY <2>4 DEF ReviewCandidate, SaveDecision, MarkDecision, PackCandidate, SaveRelease,
       BindPackage, SaveSnapshot, Respond, Goto, Abandon
  <2>5. CASE Environment \/ UNCHANGED vars
    BY <2>5 DEF Environment, Tamper, RewriteArtifact, AlterEvidence, vars
  <2> QED
    BY <1>2, <2>1, <2>2, <2>3, <2>4, <2>5 DEF Next, Step
<1> QED
  BY <1>2, <1>3

\* Between calls the service does nothing.
LEMMA Rests == ASSUME [Next]_vars, pc = "idle", pc' = "idle" PROVE Aside
<1>1. ~Client
  BY Loads DEF Loading, Loaded, Call, Begins, Start, Goto
<1>2. ~Step /\ ~Crash
  BY Departures DEF Step, RefuseArguments, Respond, Crash
<1> QED
  BY <1>1, <1>2 DEF Next, Environment, Tamper, RewriteArtifact, AlterEvidence, vars, Aside

\* A call ends where its copy is the saved mission, and leaves both the log and
\* the saved mission alone: issuing a task never fails, as the log knows of no
\* task the mission does not have, and the inputs of a stage are there.
LEMMA Ends ==
    ASSUME IInv, CopyStory, TasksInStep, [Next]_vars, pc # "idle", pc' = "idle", crashes' = 0
    PROVE  snap # NoMission /\ mem = snap /\ snap' = snap /\ log' = log
<1>0. ~Crash /\ crashes = 0 /\ Valid(mem)
  BY CrashFree DEF IInv, MissionsValid
<1>1. pc \notin Changing
  <2>1. CASE IssueStageTask
    <3>1. pc = "tasks" /\ ~mem.completed /\ RolesWithoutTask(mem) # {}
      BY <2>1 DEF IssueStageTask, Goto
    <3> DEFINE role == CHOOSE r \in RolesWithoutTask(mem) : TRUE
               t == Current(mem, role)
    <3>2. role \in RolesWithoutTask(mem)
      BY <3>1
    <3> HIDE DEF role
    <3>3. t \in DOMAIN log.tasks \/ ~InputsAvailable(mem)
      BY <2>1, <3>1 DEF IssueStageTask, Goto, role
    <3>4. t \notin DOMAIN log.tasks
      BY <1>0, <3>1, <3>2 DEF TasksInStep, RolesWithoutTask
    <3>5. InputsAvailable(mem)
      BY <1>0, DocumentsOfValid DEF DocumentsReady
    <3> QED
      BY <3>3, <3>4, <3>5
  <2>2. ~Client /\ ~Environment /\ ~UNCHANGED vars
    <3>1. ~Client
      BY Loads DEF Loading, Loaded, Call, Start
    <3> QED
      BY <3>1 DEF Environment, Tamper, RewriteArtifact, AlterEvidence, vars
  <2>3. pc # "advance" \/ ~AdvanceStage
    BY DEF AdvanceStage, Goto
  <2>4. ~StartAttempt /\ ~RestartAttempt /\ ~SaveSnapshot
    BY DEF StartAttempt, RestartAttempt, SaveSnapshot, Goto
  <2>5. Respond \/ RefuseArguments => pc \notin Changing
    BY DEF Respond, RefuseArguments, Changing
  <2> QED
    BY <1>0, <2>1, <2>2, <2>3, <2>4, <2>5, Departures DEF Next, Step, Changing
<1>2. snap # NoMission /\ mem = snap /\ snap' = snap
  BY <1>1, Writers DEF CopyStory, SaveSnapshot, Changing
<1>3. log' = log
  <2>1. CASE ReceiveResult \/ CheckpointAttempt \/ SteerMission \/ BindFrozen \/ BindPackage
    BY <2>1 DEF ReceiveResult, CheckpointAttempt, SteerMission, BindFrozen, BindPackage, Goto,
       Abandon
  <2>2. CASE StopAttempt \/ ScheduleRetry \/ NoteEvidence \/ MarkDecision
    BY <2>2 DEF StopAttempt, ScheduleRetry, NoteEvidence, MarkDecision, Goto
  <2>3. ~\E g \in Goals : Start(g)
    BY DEF Start
  <2> QED
    BY <1>0, <1>1, <2>1, <2>2, <2>3, Writers, Departures DEF Changing
<1> QED
  BY <1>2, <1>3

\* The tasks of the log and those of the mission.
LEMMA TasksInStepStep == IInv /\ CopyStory /\ TasksInStep /\ [Next]_vars => TasksInStep'
<1> SUFFICES ASSUME IInv, CopyStory, TasksInStep, [Next]_vars, crashes' = 0
    PROVE  /\ pc' = "idle" /\ snap' = NoMission => DOMAIN log'.tasks = {}
           /\ pc' = "idle" /\ snap' # NoMission => DOMAIN log'.tasks = DOMAIN snap'.tasks
           /\ pc' # "idle" => DOMAIN log'.tasks = DOMAIN mem'.tasks
  BY DEF TasksInStep
<1>0. /\ ~Crash /\ crashes = 0 /\ LogShape(log) /\ MissionsValid /\ CallFits /\ LogFits
      /\ pc # "idle" => IsMission(mem)
  BY CrashFree DEF IInv, LogFits, MissionsValid, Valid
<1>1. CASE Aside
  BY <1>0, <1>1 DEF Aside, TasksInStep
<1>2. CASE pc' = "idle" /\ pc # "idle"
  BY <1>0, <1>2, Ends DEF TasksInStep
<1>3. CASE pc' = "idle" /\ pc = "idle"
  BY <1>1, <1>3, Rests
<1>4. CASE pc' # "idle" /\ ~Aside
  <2>1. CASE \E g \in Goals : Start(g)
    <3>1. PICK g \in Goals : Start(g)
      BY <2>1
    <3>2. /\ pc = "idle" /\ snap = NoMission /\ mem' = NewMission(g)
          /\ log' = MissionStarted(log, Kind(NewMission(g)))
      BY <3>1 DEF Start
    <3>3. Work(log') = Work(log)
      BY <1>0, <3>2, CourseEvents
    <3>4. DOMAIN mem'.tasks = {} /\ DOMAIN log.tasks = {}
      BY <1>0, <3>2, NewFields DEF TasksInStep
    <3> QED
      BY <1>4, <3>3, <3>4 DEF Work
  <2>2. CASE Loading
    BY <1>0, <1>4, <2>2 DEF Loading, Loaded, Call, TasksInStep
  <2>3. CASE IssueStageTask
    <3>1. CASE mem' = mem /\ log' = log
      BY <1>0, <1>4, <2>3, <3>1 DEF TasksInStep, IssueStageTask
    <3>2. CASE \E role : /\ mem' = IssueTask(mem, role)
                         /\ log' = TaskIssued(log, Current(mem, role))
      <4>1. PICK role : /\ mem' = IssueTask(mem, role)
                        /\ log' = TaskIssued(log, Current(mem, role))
        BY <3>2
      <4>2. /\ DOMAIN mem'.tasks = DOMAIN mem.tasks \cup {Current(mem, role)}
            /\ DOMAIN log'.tasks = DOMAIN log.tasks \cup {Current(mem, role)}
            /\ DOMAIN log.tasks = DOMAIN mem.tasks
        BY <1>0, <2>3, <4>1, IssueFields, IssuedFields DEF IssueStageTask, TasksInStep
      <4> QED
        BY <1>4, <4>2
    <3> QED
      BY <1>4, <2>3, <3>1, <3>2, Issuing DEF Abandon, Release
  <2>4. CASE pc # "idle" /\ ~IssueStageTask
    <3>1. DOMAIN mem'.tasks = DOMAIN mem.tasks
      <4>1. CASE mem' = mem
        BY <4>1
      <4>2. CASE ReceiveResult \/ StopAttempt \/ ScheduleRetry
        <5>1. op.task \in DOMAIN mem.tasks
          BY <1>0, <4>2 DEF ReceiveResult, StopAttempt, ScheduleRetry, CallFits
        <5> QED
          BY <1>0, <1>4, <2>4, <4>2, <5>1, TaskRewritten
      <4>3. CASE AdvanceStage \/ SteerMission
        BY <1>0, <1>4, <2>4, <4>3, AdvanceFields, SteerFields DEF AdvanceStage, SteerMission,
           Abandon, Release
      <4>4. CASE BindFrozen \/ MarkDecision \/ BindPackage
        BY <1>0, <1>4, <2>4, <4>4, BindFields, MarkFields DEF BindFrozen, MarkDecision,
           BindPackage, Abandon, Release
      <4> QED
        BY <1>4, <2>4, <2>1, <2>2, <4>1, <4>2, <4>3, <4>4, Progress
           DEF Rewriting, Start, Loading, Loaded, Call, Release
    <3>2. DOMAIN log'.tasks = DOMAIN log.tasks
      <4>1. CASE Work(log') = Work(log)
        BY <4>1 DEF Work
      <4>2. ~LogErased
        BY <1>0 DEF LogErased
      <4>3. CASE \/ ReceiveResult \/ StartAttempt \/ StopAttempt \/ ScheduleRetry
                 \/ RestartAttempt \/ CheckpointAttempt
        <5>1. op.task \in DOMAIN log.tasks
          BY <1>0, <4>3 DEF ReceiveResult, StartAttempt, StopAttempt, ScheduleRetry,
             RestartAttempt, CheckpointAttempt, CallFits, LogFits
        <5> DEFINE t == op.task
                   a == mem.tasks[t].attempt
        <5>2. log' \in {log, ResultReceived(log, t, a), AttemptStarted(log, t, a),
                        AttemptInterrupted(log, t, a), RetryScheduled(log, t),
                        CheckpointRecorded(log, t, a)}
          BY <4>3 DEF ReceiveResult, StartAttempt, StopAttempt, ScheduleRetry,
             RestartAttempt, CheckpointAttempt, Abandon
        <5> HIDE DEF t, a
        <5> QED
          BY <1>0, <5>1, <5>2, ReceivedFields, StartedFields, InterruptedFields, ScheduledFields,
             CheckpointFields DEF t
      <4> QED
        BY <1>0, <2>4, <4>1, <4>2, <4>3, WorkWritten
    <3> QED
      BY <1>0, <1>4, <2>4, <3>1, <3>2 DEF TasksInStep
  <2> QED
    BY <1>4, <2>1, <2>2, <2>3, <2>4, Progress, Departures DEF Rewriting, Release
<1> QED
  BY <1>1, <1>2, <1>3, <1>4

\* The tasks of the log and the mission, along every behaviour.
LEMMA TasksInStepInvariance == Spec => []TasksInStep
<1>1. Init => TasksInStep
  BY DEF Init, EmptyLog, TasksInStep
<1> QED
  BY <1>1, TasksInStepStep, Invariance, CopyInvariance, PTL DEF Spec

\* The events that say whether a mission is completed.
LEMMA Completion ==
    ASSUME NEW l, LogShape(l), NEW rev, NEW stage, NEW instruction
    PROVE  /\ MissionStarted(l, stage).completed = FALSE
           /\ MissionCompleted(l).completed = TRUE
           /\ rev \notin DOMAIN l.steered =>
                  RevisionStarted(l, rev, stage, instruction).completed = FALSE
BY DEF LogShape, EmptyLog, MissionStarted, MissionCompleted, RevisionStarted

\* Leaving a stage is logged as what it makes of the mission.
LEMMA AdvanceMatches ==
    ASSUME NEW m, Valid(m), MayAdvance(m), NEW l, LogShape(l), CourseMatches(l, m)
    PROVE  LET n == Advance(m)
           IN CourseMatches(IF LastStage(m) THEN MissionCompleted(l)
                            ELSE StageAdvanced(l, Kind(n)), n)
<1> DEFINE n == Advance(m)
<1>1. IsMission(m) /\ ~m.completed
  BY DEF Valid, MayAdvance
<1>2. n.rev = m.rev
  BY <1>1, AdvanceFields
<1>3. n.completed = LastStage(m)
  BY <1>1, AdvanceFields
<1> HIDE DEF n
<1>4. CASE LastStage(m)
  <2> DEFINE k == MissionCompleted(l)
  <2>1. k.rev = l.rev /\ k.stage = "none"
    BY CompletedCourse
  <2>2. k.completed = TRUE
    BY Completion
  <2> HIDE DEF k
  <2>3. n.completed = TRUE
    BY <1>3, <1>4
  <2>4. CourseMatches(k, n)
    BY <1>2, <2>1, <2>2, <2>3 DEF CourseMatches
  <2> QED
    BY <1>4, <2>4 DEF k, n
<1>5. CASE ~LastStage(m)
  <2> DEFINE k == StageAdvanced(l, Kind(n))
  <2>1. k.rev = l.rev /\ k.stage = Kind(n)
    BY AdvancedCourse
  <2>2. k.completed = l.completed
    BY AdvancedCourse
  <2> HIDE DEF k
  <2>3. n.completed = FALSE
    BY <1>3, <1>5 DEF LastStage
  <2>4. k.completed = FALSE
    BY <1>1, <2>2 DEF CourseMatches, IsMission
  <2>5. CourseMatches(k, n)
    BY <1>2, <2>1, <2>3, <2>4 DEF CourseMatches
  <2> QED
    BY <1>5, <2>5 DEF k, n
<1> QED
  BY <1>4, <1>5

\* A new mission, and a new revision, are logged at their first stage.
LEMMA FirstStageMatches ==
    ASSUME NEW l, LogShape(l), NEW n, n.completed = FALSE
    PROVE  /\ n.rev = 1 => CourseMatches(MissionStarted(l, Kind(n)), n)
           /\ \A instruction : n.rev \notin DOMAIN l.steered =>
                  CourseMatches(RevisionStarted(l, n.rev, Kind(n), instruction), n)
<1>1. ASSUME n.rev = 1 PROVE CourseMatches(MissionStarted(l, Kind(n)), n)
  <2> DEFINE k == MissionStarted(l, Kind(n))
  <2>1. k.rev = 1 /\ k.stage = Kind(n)
    BY StartedCourse
  <2>2. k.completed = FALSE
    BY Completion
  <2> HIDE DEF k
  <2>3. CourseMatches(k, n)
    BY <1>1, <2>1, <2>2 DEF CourseMatches
  <2> QED
    BY <2>3 DEF k
<1>2. ASSUME NEW instruction, n.rev \notin DOMAIN l.steered
      PROVE  CourseMatches(RevisionStarted(l, n.rev, Kind(n), instruction), n)
  <2> DEFINE k == RevisionStarted(l, n.rev, Kind(n), instruction)
  <2>1. k.rev = n.rev /\ k.stage = Kind(n)
    BY <1>2, RevisedCourse
  <2>2. k.completed = FALSE
    BY <1>2, Completion
  <2> HIDE DEF k
  <2>3. CourseMatches(k, n)
    BY <2>1, <2>2 DEF CourseMatches
  <2> QED
    BY <2>3 DEF k
<1> QED
  BY <1>1, <1>2

\* The course of the log and that of the mission.
LEMMA CourseInStepStep ==
    IInv /\ CopyStory /\ LogAhead /\ TasksInStep /\ CourseInStep /\ [Next]_vars => CourseInStep'
<1> SUFFICES ASSUME IInv, CopyStory, LogAhead, TasksInStep, CourseInStep, [Next]_vars,
                    crashes' = 0
    PROVE  /\ pc' = "idle" /\ snap' # NoMission => CourseMatches(log', snap')
           /\ pc' # "idle" => CourseMatches(log', mem')
  BY DEF CourseInStep, CourseMatches, Kind
<1>0. /\ ~Crash /\ crashes = 0 /\ LogShape(log) /\ MissionsValid
      /\ pc # "idle" => IsMission(mem) /\ Valid(mem) /\ CourseMatches(log, mem)
      /\ pc = "idle" /\ snap # NoMission => CourseMatches(log, snap)
  BY CrashFree DEF IInv, LogFits, MissionsValid, Valid, CourseInStep
<1>1. CASE Aside
  BY <1>0, <1>1 DEF Aside
<1>2. CASE pc' = "idle" /\ pc # "idle"
  BY <1>0, <1>2, Ends
<1>3. CASE pc' = "idle" /\ pc = "idle"
  BY <1>1, <1>3, Rests
<1>4. ASSUME pc' # "idle" PROVE CourseMatches(log', mem')
  <2>1. ASSUME NEW g \in Goals, Start(g) PROVE CourseMatches(log', mem')
    <3>1. /\ mem' = NewMission(g) /\ log' = MissionStarted(log, Kind(mem'))
      BY <2>1 DEF Start
    <3>2. mem'.rev = 1 /\ mem'.completed = FALSE
      BY <3>1, NewFields
    <3> QED
      BY <1>0, <3>1, <3>2, FirstStageMatches
  <2>2. CASE Loading
    BY <1>0, <2>2 DEF Loading, Loaded, Call
  <2>3. CASE AdvanceStage
    <3>1. pc = "advance"
      BY <2>3, Departures
    <3>2. CASE MayAdvance(mem)
      BY <1>0, <2>3, <3>1, <3>2, AdvanceMatches DEF AdvanceStage
    <3>3. CASE ~MayAdvance(mem)
      BY <1>0, <2>3, <3>1, <3>3 DEF AdvanceStage
    <3> QED
      BY <3>2, <3>3
  <2>4. CASE SteerMission
    <3> DEFINE n == Steer(mem, op.arg.goal)
    <3>1. /\ pc = "steer" /\ mem' = n
          /\ log' = RevisionStarted(log, mem.rev + 1, Kind(n), op.arg.instruction)
      BY <1>4, <2>4 DEF SteerMission, Abandon, Release
    <3>2. n.rev = mem.rev + 1
      BY <1>0, <3>1, SteerFields
    <3>3. n.completed = FALSE
      BY SteerFlags
    <3>4. mem.rev + 1 \notin DOMAIN log.steered
      <4>1. log.rev = mem.rev /\ mem.rev \in Nat
        BY <1>0, <3>1 DEF CourseMatches, IsMission
      <4> QED
        BY <4>1 DEF LogAhead
    <3> HIDE DEF n
    <3> QED
      BY <1>0, <3>1, <3>2, <3>3, <3>4, FirstStageMatches
  <2>5. CASE pc # "idle" /\ ~AdvanceStage /\ ~SteerMission
    <3>1. Course(log') = Course(log)
      BY <1>0, <2>5, CourseWritten DEF Start, LogErased
    <3>2. mem'.rev = mem.rev /\ mem'.goal = mem.goal /\ mem'.stage = mem.stage
      BY <1>0, <1>4, <2>5, Rewritten, BindFields, MarkFields
         DEF Start, Loading, Loaded, Call, SameButTasks
    <3>3. mem'.completed = mem.completed
      <4>1. CASE mem' = mem \/ SameButTasks(mem', mem)
        BY <4>1 DEF SameButTasks
      <4>2. CASE mem' = BindCandidate(mem, CandidateId(op.arg, mem.goal))
        BY <1>0, <2>5, <4>2, BindFlags
      <4>3. CASE mem' = MarkApproved(mem)
        BY <1>0, <2>5, <4>3, MarkFlags
      <4>4. CASE mem' = BindRelease(mem)
        BY <1>0, <2>5, <4>4, MarkFlags
      <4> QED
        BY <1>4, <2>5, <4>1, <4>2, <4>3, <4>4, Rewritten DEF Start, Loading, Loaded, Call
    <3> QED
      BY <1>0, <2>5, <3>1, <3>2, <3>3 DEF Course, CourseMatches, Kind
  <2> QED
    BY <1>1, <1>4, <2>1, <2>2, <2>3, <2>4, <2>5, Rewritten
<1> QED
  BY <1>2, <1>3, <1>4

\* The two courses, along every behaviour.
LEMMA CourseInStepInvariance == Spec => []CourseInStep
<1>1. Init => CourseInStep
  BY DEF Init, CourseInStep
<1> QED
  BY <1>1, CourseInStepStep, Invariance, CopyInvariance, AheadInvariance, TasksInStepInvariance,
     PTL DEF Spec

\* As long as no call is cut short, the saved mission is between calls what the
\* log projects to, so that no response is refused as out of step (_respond).
THEOREM SnapshotInStep == Spec => []SnapshotMatchesLog
<1>1. CourseInStep => SnapshotMatchesLog
  BY DEF CourseInStep, CourseMatches, SnapshotMatchesLog, MatchesProjection
<1> QED
  BY <1>1, CourseInStepInvariance, PTL

\* What is looked at of the log and of the mission; completing the task is no
\* part of it.
LEMMA SameAttempt ==
    ASSUME NEW l, NEW k, NEW m, NEW n, NEW t, AttemptMatches(l, m, t),
           t \in DOMAIN k.tasks, k.tasks[t] = l.tasks[t],
           n.tasks[t].attempt = m.tasks[t].attempt,
           n.tasks[t].status \in {m.tasks[t].status, "completed"}
    PROVE  AttemptMatches(k, n, t)
BY DEF AttemptMatches

\* The events about an attempt bring the log to what the operation with them
\* makes of the task.
LEMMA StartMatches ==
    ASSUME NEW l, LogShape(l), NEW t \in DOMAIN l.tasks, NEW m, NEW a \in Nat \ {0},
           m.tasks[t].attempt = a, m.tasks[t].status = "issued",
           a = Len(l.tasks[t].attempts) \/ (a = 1 /\ l.tasks[t].attempts = <<>>)
    PROVE  AttemptMatches(AttemptStarted(l, t, a), m, t)
<1> DEFINE k == AttemptStarted(l, t, a)
           s == l.tasks[t].attempts
<1>1. t \in DOMAIN k.tasks /\ k.tasks[t].current = a
  BY StartedFields
<1>2. k.tasks[t].attempts = [i \in DOMAIN s \cup {a} |-> IF i = a THEN "running" ELSE s[i]]
  BY DEF LogShape, EmptyLog, AttemptStarted
<1>3. s \in Seq(AttemptStatus) /\ Len(s) \in Nat /\ DOMAIN s = 1..Len(s)
  BY DEF LogShape
<1>4. DOMAIN s \cup {a} = 1..a
  BY <1>3
<1> HIDE DEF k, s
<1>5. DOMAIN k.tasks[t].attempts = 1..a /\ k.tasks[t].attempts[a] = "running"
  BY <1>2, <1>4
<1>6. AttemptMatches(k, m, t)
  BY <1>1, <1>5 DEF AttemptMatches
<1> QED
  BY <1>6 DEF k

\* So do the events that close an attempt.
LEMMA CloseMatches ==
    ASSUME NEW l, LogShape(l), NEW m, NEW n, NEW t, AttemptMatches(l, m, t), NEW a,
           a = m.tasks[t].attempt, a \in Nat \ {0}, n.tasks[t].attempt = a
    PROVE  /\ n.tasks[t].status = "result-received" =>
                  AttemptMatches(ResultReceived(l, t, a), n, t)
           /\ n.tasks[t].status = "interrupted" =>
                  AttemptMatches(AttemptInterrupted(l, t, a), n, t)
<1>1. /\ t \in DOMAIN l.tasks /\ l.tasks[t].current = a
      /\ DOMAIN l.tasks[t].attempts = 1..a /\ a \in 1..a
  BY DEF AttemptMatches
<1>2. ASSUME n.tasks[t].status = "result-received"
      PROVE  AttemptMatches(ResultReceived(l, t, a), n, t)
  <2> DEFINE k == ResultReceived(l, t, a)
  <2>1. /\ t \in DOMAIN k.tasks /\ k.tasks[t].current = a
        /\ DOMAIN k.tasks[t].attempts = 1..a /\ k.tasks[t].attempts[a] = "completed"
    BY <1>1, ReceivedFields
  <2> HIDE DEF k
  <2>2. AttemptMatches(k, n, t)
    BY <1>2, <2>1 DEF AttemptMatches
  <2> QED
    BY <2>2 DEF k
<1>3. ASSUME n.tasks[t].status = "interrupted"
      PROVE  AttemptMatches(AttemptInterrupted(l, t, a), n, t)
  <2> DEFINE k == AttemptInterrupted(l, t, a)
  <2>1. /\ t \in DOMAIN k.tasks /\ k.tasks[t].current = a
        /\ DOMAIN k.tasks[t].attempts = 1..a /\ k.tasks[t].attempts[a] = "interrupted"
    BY <1>1, InterruptedFields
  <2> HIDE DEF k
  <2>2. AttemptMatches(k, n, t)
    BY <1>3, <2>1 DEF AttemptMatches
  <2> QED
    BY <2>2 DEF k
<1> QED
  BY <1>2, <1>3

\* The attempts of the log and those of the mission.
LEMMA AttemptsInStepStep ==
    /\ IInv /\ CopyStory /\ CallStory /\ AttemptStory /\ TasksInStep /\ AttemptsInStep
    /\ [Next]_vars
    => AttemptsInStep'
<1> SUFFICES ASSUME IInv, CopyStory, CallStory, AttemptStory, TasksInStep, AttemptsInStep,
                    [Next]_vars, crashes' = 0
    PROVE  /\ pc' = "idle" /\ snap' # NoMission =>
                  \A t \in DOMAIN snap'.tasks :
                      t.rev = snap'.rev => AttemptMatches(log', snap', t)
           /\ pc' # "idle" =>
                  \A t \in DOMAIN mem'.tasks :
                      t.rev = mem'.rev => Starting(t)' \/ AttemptMatches(log', mem', t)
           /\ pc' \in {"attempt", "restart"} =>
                  op'.task.rev = mem'.rev /\ mem'.tasks[op'.task].status = "issued"
  BY DEF AttemptsInStep, AttemptMatches
<1>0. /\ ~Crash /\ crashes = 0 /\ LogShape(log) /\ MissionsValid /\ CallFits /\ LogFits
      /\ pc # "idle" => /\ IsMission(mem) /\ Valid(mem) /\ mem.rev \in Nat
                        /\ DOMAIN mem.tasks \subseteq DOMAIN log.tasks
      /\ TasksInStep'
  BY CrashFree, TasksInStepStep DEF IInv, LogFits, MissionsValid, Valid, IsMission
<1>a. pc # "idle" =>
          \A t \in DOMAIN mem.tasks :
              t.rev = mem.rev => Starting(t) \/ AttemptMatches(log, mem, t)
  BY <1>0 DEF AttemptsInStep
<1>b. pc \in {"attempt", "restart"} =>
          op.task.rev = mem.rev /\ mem.tasks[op.task].status = "issued"
  BY <1>0 DEF AttemptsInStep
<1>c. pc = "idle" /\ snap # NoMission =>
          \A t \in DOMAIN snap.tasks : t.rev = snap.rev => AttemptMatches(log, snap, t)
  BY <1>0 DEF AttemptsInStep
<1>d. pc' # "idle" => DOMAIN log'.tasks = DOMAIN mem'.tasks
  BY <1>0 DEF TasksInStep
<1>1. CASE Aside
  BY <1>0, <1>1, <1>a, <1>b, <1>c DEF Aside, Starting
<1>2. CASE pc' = "idle" /\ pc # "idle"
  <2>1. pc \notin {"attempt", "restart"}
    BY <1>0, <1>2, Departures, Loads DEF Next, Step, Environment, Tamper, RewriteArtifact,
       AlterEvidence, vars, StartAttempt, RestartAttempt, Goto, Respond, RefuseArguments,
       Loading, Loaded, Call, Start
  <2> QED
    BY <1>0, <1>2, <1>a, <2>1, Ends DEF Starting
<1>3. CASE pc' = "idle" /\ pc = "idle"
  BY <1>1, <1>3, Rests
<1>4. CASE pc' # "idle" /\ ~Aside
  <2>a. ASSUME NEW t \in DOMAIN mem'.tasks, pc # "idle", t \in DOMAIN mem.tasks, t.rev = mem.rev,
               ~Starting(t), log'.tasks[t] = log.tasks[t],
               mem'.tasks[t].attempt = mem.tasks[t].attempt,
               mem'.tasks[t].status \in {mem.tasks[t].status, "completed"}
        PROVE  AttemptMatches(log', mem', t)
    BY <1>4, <1>a, <1>d, <2>a, SameAttempt
  <2>1. \A t \in DOMAIN mem'.tasks :
            t.rev = mem'.rev => Starting(t)' \/ AttemptMatches(log', mem', t)
    <3>1. ASSUME NEW g \in Goals, Start(g) PROVE DOMAIN mem'.tasks = {}
      BY <3>1, NewFields DEF Start
    <3>2. CASE Loading
      BY <1>c, <3>2 DEF Loading, Loaded, Call
    <3>3. CASE StartAttempt \/ RestartAttempt
      <4> DEFINE t == op.task
                 a == mem.tasks[t].attempt
      <4>1. /\ pc \in {"attempt", "restart"} /\ mem' = mem /\ t \in DOMAIN mem.tasks
            /\ t \in DOMAIN log.tasks /\ log' = AttemptStarted(log, t, a)
        BY <1>0, <3>3 DEF StartAttempt, RestartAttempt, CallFits
      <4>2. a \in Nat \ {0} /\ mem.tasks[t].status = "issued" /\ t.rev = mem.rev
        BY <1>0, <1>b, <4>1, TaskFields
      <4>3. a = Len(log.tasks[t].attempts) \/ (a = 1 /\ log.tasks[t].attempts = <<>>)
        BY <1>0, <4>1 DEF CallFits, AttemptStory
      <4>4. AttemptMatches(log', mem', t)
        <5> HIDE DEF t, a
        <5>1. mem.tasks[t].attempt = a
          BY DEF a
        <5>2. AttemptMatches(AttemptStarted(log, t, a), mem, t)
          BY <1>0, <4>1, <4>2, <4>3, <5>1, StartMatches
        <5> QED
          BY <4>1, <5>2
      <4>5. \A u \in DOMAIN log.tasks : u # t => log'.tasks[u] = log.tasks[u]
        <5> HIDE DEF a
        <5> QED
          BY <1>0, <4>1, StartedFields
      <4>6. ASSUME NEW u \in DOMAIN mem.tasks, u # t, u.rev = mem.rev
            PROVE  AttemptMatches(log', mem', u)
        BY <1>0, <2>a, <4>1, <4>5, <4>6 DEF Starting
      <4> QED
        BY <4>1, <4>4, <4>6
    <3>4. CASE IssueStageTask
      <4>1. pc = "tasks"
        BY <3>4, Departures
      <4>2. CASE mem' = mem /\ log' = log
        BY <1>a, <4>1, <4>2 DEF Starting
      <4>3. CASE \E role \in RolesWithoutTask(mem) :
                    /\ Current(mem, role) \notin DOMAIN log.tasks
                    /\ mem' = IssueTask(mem, role) /\ log' = TaskIssued(log, Current(mem, role))
                    /\ op'.task = Current(mem, role) /\ pc' = "attempt"
        <5>1. PICK role \in RolesWithoutTask(mem) :
                    /\ Current(mem, role) \notin DOMAIN log.tasks
                    /\ mem' = IssueTask(mem, role) /\ log' = TaskIssued(log, Current(mem, role))
                    /\ op'.task = Current(mem, role) /\ pc' = "attempt"
          BY <4>3
        <5> DEFINE t == Current(mem, role)
        <5>2. /\ mem'.rev = mem.rev /\ DOMAIN mem'.tasks = DOMAIN mem.tasks \cup {t}
              /\ \A u \in DOMAIN mem.tasks : u # t => mem'.tasks[u] = mem.tasks[u]
          BY <1>0, <4>1, <5>1, IssueFields DEF SameButTasks
        <5>3. \A u \in DOMAIN log.tasks : u # t => log'.tasks[u] = log.tasks[u]
          BY <1>0, <5>1, IssuedFields
        <5> HIDE DEF t
        <5>4. ASSUME NEW u \in DOMAIN mem'.tasks, u.rev = mem'.rev, u # t
              PROVE  AttemptMatches(log', mem', u)
          BY <1>0, <2>a, <4>1, <5>2, <5>3, <5>4 DEF Starting
        <5> QED
          BY <5>1, <5>4 DEF Starting, t
      <4> QED
        BY <1>4, <3>4, <4>2, <4>3, Issuing DEF Abandon, Release
    <3>5. CASE (ReceiveResult /\ ~UNCHANGED <<mem, log>>) \/ StopAttempt
      <4> DEFINE t == op.task
                 a == mem.tasks[t].attempt
      <4>1. /\ pc \in {"receive", "interrupt"} /\ t \in DOMAIN mem.tasks /\ t.rev = mem.rev
            /\ \/ /\ mem' = Receive(mem, t, op.arg.gate, op.arg.digest)
                  /\ log' = ResultReceived(log, t, a)
               \/ /\ mem' = Interrupt(mem, t) /\ log' = AttemptInterrupted(log, t, a)
        BY <1>0, <1>4, <3>5 DEF ReceiveResult, StopAttempt, Abandon, Release, CallFits, Quarantined,
           CallStory, CurrentTasks, Current, TaskId
      <4>2. /\ mem'.rev = mem.rev /\ DOMAIN mem'.tasks = DOMAIN mem.tasks
            /\ \A u \in DOMAIN mem.tasks : u # t => mem'.tasks[u] = mem.tasks[u]
        <5> HIDE DEF t, a
        <5>1. \/ \E gate, digest : mem' = Receive(mem, t, gate, digest)
              \/ mem' = Interrupt(mem, t)
          BY <4>1
        <5> QED
          BY <1>0, <4>1, <5>1, OtherTasks
      <4>3. AttemptMatches(log, mem, t) /\ t \in DOMAIN log.tasks /\ a \in Nat \ {0}
        BY <1>0, <1>a, <4>1, TaskFields DEF Starting
      <4>4. AttemptMatches(log', mem', t)
        <5>1. CASE /\ mem' = Receive(mem, t, op.arg.gate, op.arg.digest)
                   /\ log' = ResultReceived(log, t, a)
          <6>1. mem'.tasks[t].attempt = a /\ mem'.tasks[t].status = "result-received"
            BY <1>0, <4>1, <5>1, ReceiveFields
          <6> QED
            BY <1>0, <4>3, <5>1, <6>1, CloseMatches
        <5>2. CASE mem' = Interrupt(mem, t) /\ log' = AttemptInterrupted(log, t, a)
          <6>1. mem'.tasks[t].attempt = a /\ mem'.tasks[t].status = "interrupted"
            BY <1>0, <4>1, <5>2, InterruptFields
          <6> QED
            BY <1>0, <4>3, <5>2, <6>1, CloseMatches
        <5> QED
          BY <4>1, <5>1, <5>2
      <4>5. \A u \in DOMAIN log.tasks : u # t => log'.tasks[u] = log.tasks[u]
        <5> HIDE DEF t, a
        <5> QED
          BY <1>0, <4>1, <4>3, ReceivedFields, InterruptedFields
      <4>6. ASSUME NEW u \in DOMAIN mem.tasks, u # t, u.rev = mem.rev
            PROVE  AttemptMatches(log', mem', u)
        BY <1>0, <2>a, <4>1, <4>2, <4>5, <4>6 DEF Starting
      <4> QED
        BY <4>2, <4>4, <4>6
    <3>6. CASE ScheduleRetry
      <4> DEFINE t == op.task
      <4>1. /\ pc = "retry" /\ t \in DOMAIN mem.tasks /\ t \in DOMAIN log.tasks /\ pc' = "restart"
            /\ mem' = Retry(mem, t, FreshAttempt(log, t)) /\ log' = RetryScheduled(log, t)
            /\ op' = op
        BY <1>0, <3>6 DEF ScheduleRetry, CallFits, Goto
      <4>2. /\ mem'.rev = mem.rev /\ DOMAIN mem'.tasks = DOMAIN mem.tasks
            /\ \A u \in DOMAIN mem.tasks : u # t => mem'.tasks[u] = mem.tasks[u]
        <5> HIDE DEF t
        <5> QED
          BY <1>0, <4>1, OtherTasks
      <4>3. \A u \in DOMAIN log.tasks : u # t => log'.tasks[u] = log.tasks[u]
        BY <1>0, <4>1, ScheduledFields
      <4>4. ASSUME NEW u \in DOMAIN mem.tasks, u # t, u.rev = mem.rev
            PROVE  AttemptMatches(log', mem', u)
        BY <1>0, <2>a, <4>1, <4>2, <4>3, <4>4 DEF Starting
      <4> QED
        BY <4>1, <4>2, <4>4 DEF Starting
    <3>7. CASE AdvanceStage /\ mem' # mem
      <4>1. pc = "advance" /\ mem' = Advance(mem)
        BY <3>7 DEF AdvanceStage
      <4>2. Work(log') = Work(log)
        BY <1>0, <3>7, CourseEvents DEF AdvanceStage
      <4>3. /\ mem'.rev = mem.rev /\ DOMAIN mem'.tasks = DOMAIN mem.tasks
            /\ \A t \in DOMAIN mem.tasks :
                  /\ mem'.tasks[t].attempt = mem.tasks[t].attempt
                  /\ mem'.tasks[t].status \in {mem.tasks[t].status, "completed"}
        BY <1>0, <4>1, AdvanceFields
      <4> QED
        BY <2>a, <4>1, <4>2, <4>3 DEF Work, Starting
    <3>8. CASE SteerMission
      <4>1. pc = "steer" /\ mem' = Steer(mem, op.arg.goal)
        BY <1>4, <3>8 DEF SteerMission, Abandon, Release
      <4>2. mem'.rev = mem.rev + 1 /\ DOMAIN mem'.tasks = DOMAIN mem.tasks
        BY <1>0, <4>1, SteerFields
      <4>3. \A t \in DOMAIN mem.tasks : t.rev <= mem.rev /\ t.rev \in Nat
        BY <1>0, <4>1 DEF Valid, TasksFollowCandidate, IsMission, TaskIds
      <4> QED
        BY <1>0, <4>1, <4>2, <4>3
    <3>9. CASE BindFrozen \/ MarkDecision \/ BindPackage
      <4>1. pc \in {"bind", "mark", "release"}
        BY <3>9, Departures
      <4>2. Work(log') = Work(log)
        BY <1>0, <3>9, MarkEvents DEF BindFrozen, MarkDecision, BindPackage, Abandon
      <4>3. /\ mem'.rev = mem.rev /\ DOMAIN mem'.tasks = DOMAIN mem.tasks
            /\ \A t \in DOMAIN mem.tasks :
                  /\ mem'.tasks[t].attempt = mem.tasks[t].attempt
                  /\ mem'.tasks[t].status = mem.tasks[t].status
        BY <1>0, <1>4, <3>9, <4>1, BindFields, MarkFields DEF BindFrozen, MarkDecision,
           BindPackage, Abandon, Release
      <4> QED
        BY <2>a, <4>1, <4>2, <4>3 DEF Work, Starting
    <3>10. CASE /\ pc # "idle" /\ mem' = mem /\ ~StartAttempt /\ ~RestartAttempt
                /\ ~IssueStageTask /\ ~StopAttempt /\ ~ScheduleRetry
                /\ ReceiveResult => log' = log
      <4>1. pc \notin {"attempt", "restart"}
        BY <1>4, <3>10, StartsNext
      <4>2. log'.tasks = log.tasks
        <5>1. CASE ReceiveResult
          BY <3>10, <5>1
        <5>2. CASE CheckpointAttempt
          BY <1>0, <5>2, CheckpointFields DEF CheckpointAttempt, Abandon
        <5>3. CASE Work(log') = Work(log)
          BY <5>3 DEF Work
        <5> QED
          BY <1>0, <3>10, <5>1, <5>2, <5>3, WorkWritten DEF LogErased
      <4> QED
        BY <1>4, <2>a, <3>10, <4>1, <4>2 DEF Starting
    <3>11. CASE Rewriting
      BY <3>1, <3>2, <3>4, <3>5, <3>6, <3>7, <3>8, <3>9, <3>10, <3>11, Departures DEF Rewriting
    <3> QED
      BY <1>4, <3>3, <3>4, <3>5, <3>6, <3>10, <3>11, Progress DEF Release
  <2>2. pc' \in {"attempt", "restart"} =>
            op'.task.rev = mem'.rev /\ mem'.tasks[op'.task].status = "issued"
    <3>1. CASE IssueStageTask /\ pc' = "attempt"
      <4>1. PICK role \in RolesWithoutTask(mem) :
                mem' = IssueTask(mem, role) /\ op'.task = Current(mem, role)
        BY <3>1, Issuing DEF Abandon, Release
      <4>2. pc = "tasks"
        BY <3>1, Departures
      <4>3. mem'.rev = mem.rev /\ mem'.tasks[op'.task].status = "issued"
        BY <1>0, <4>1, <4>2, IssueFields DEF SameButTasks
      <4> QED
        BY <4>1, <4>3 DEF Current, TaskId
    <3>2. CASE ScheduleRetry
      <4>1. /\ pc = "retry" /\ op.task \in DOMAIN mem.tasks /\ op.task.rev = mem.rev
            /\ mem' = Retry(mem, op.task, FreshAttempt(log, op.task)) /\ op' = op
        BY <1>0, <3>2 DEF ScheduleRetry, CallFits, CallStory, CurrentTasks, Current, TaskId
      <4>2. mem'.rev = mem.rev
        BY <1>0, <4>1, TaskOperations DEF SameButTasks
      <4>3. mem'.tasks[op.task].status = "issued"
        BY <1>0, <4>1, RetryFields
      <4> QED
        BY <4>1, <4>2, <4>3
    <3> QED
      BY <1>4, <3>1, <3>2, Progress DEF Arrivals, Release
  <2> QED
    BY <1>4, <2>1, <2>2
<1> QED
  BY <1>1, <1>2, <1>3, <1>4

\* The attempts of both, along every behaviour.
LEMMA AttemptsInStepInvariance == Spec => []AttemptsInStep
<1>1. Init => AttemptsInStep
  BY DEF Init, AttemptsInStep
<1> QED
  BY <1>1, AttemptsInStepStep, Invariance, CopyInvariance, CallInvariance, AttemptInvariance,
     TasksInStepInvariance, PTL DEF Spec

\* As long as no call is cut short, the attempt of every open task is between
\* calls the one the log calls current and its last, in the state the task's
\* record has (issue_task, receive_result, interrupt_task, retry_task, each with
\* its event).
THEOREM AttemptsInAgreement == Spec => []AttemptsMatchLog
<1>1. IInv /\ AttemptsInStep => AttemptsMatchLog
  <2> SUFFICES ASSUME IInv, AttemptsInStep, pc = "idle", snap # NoMission, crashes = 0,
                      NEW t \in OpenTasks(snap)
      PROVE  LET task == snap.tasks[t]
                 logged == log.tasks[t]
             IN /\ logged.current = task.attempt
                /\ DOMAIN logged.attempts = 1..task.attempt
                /\ logged.attempts[task.attempt] =
                       CASE task.status = "issued"          -> "running"
                         [] task.status = "result-received" -> "completed"
                         [] task.status = "interrupted"     -> "interrupted"
    BY DEF AttemptsMatchLog
  <2>1. /\ t \in DOMAIN snap.tasks /\ t.rev = snap.rev
        /\ snap.tasks[t].status \notin {"stale", "completed"}
    BY DEF OpenTasks, CurrentTasks, Current, TaskId
  <2>2. AttemptMatches(log, snap, t)
    BY <2>1 DEF AttemptsInStep
  <2> QED
    BY <2>1, <2>2 DEF AttemptMatches
<1> QED
  BY <1>1, Invariance, AttemptsInStepInvariance, PTL

\* As long as no call is cut short, a checkpoint is recorded only for the
\* attempt its task is at, and only while the log has it running
\* (record_checkpoint).
THEOREM CheckpointsAreOfRunning == Spec => CheckpointsOfRunning
<1>1. IInv /\ CallStory /\ AttemptsInStep /\ [Next]_vars =>
          [\A c \in log'.checkpoints \ log.checkpoints :
               crashes = 0 => log.tasks[c[1]].current = c[2]
                                  /\ log.tasks[c[1]].attempts[c[2]] = "running"]_log
  <2> SUFFICES ASSUME IInv, CallStory, AttemptsInStep, [Next]_vars, crashes = 0,
                      NEW c \in log'.checkpoints \ log.checkpoints
      PROVE  log.tasks[c[1]].current = c[2] /\ log.tasks[c[1]].attempts[c[2]] = "running"
    OBVIOUS
  <2> DEFINE t == op.task
             a == mem.tasks[t].attempt
  <2>0. CallFits /\ LogFits /\ LogShape(log)
    BY DEF IInv, LogFits
  <2>1. CheckpointAttempt
    <3>1. CASE Work(log') = Work(log)
      BY <3>1 DEF Work
    <3>2. CASE LogErased
      BY <3>2 DEF LogErased, EmptyLog
    <3>3. CASE \/ ReceiveResult \/ StartAttempt \/ StopAttempt \/ ScheduleRetry \/ RestartAttempt
      <4>1. t \in DOMAIN log.tasks
        BY <2>0, <3>3 DEF ReceiveResult, StartAttempt, StopAttempt, ScheduleRetry,
           RestartAttempt, CallFits, LogFits
      <4>2. log' \in {log, ResultReceived(log, t, a), AttemptStarted(log, t, a),
                      AttemptInterrupted(log, t, a), RetryScheduled(log, t)}
        BY <3>3 DEF ReceiveResult, StartAttempt, StopAttempt, ScheduleRetry, RestartAttempt,
           Abandon
      <4> HIDE DEF t, a
      <4>3. log'.checkpoints = log.checkpoints
        BY <2>0, <4>1, <4>2, ReceivedFields, StartedFields, InterruptedFields, ScheduledFields
      <4> QED
        BY <4>3
    <3>4. CASE IssueStageTask
      <4>1. log' = log \/ \E u : log' = TaskIssued(log, u)
        BY <3>4 DEF IssueStageTask, Abandon
      <4>2. log'.checkpoints = log.checkpoints
        BY <2>0, <4>1, IssuedFields
      <4> QED
        BY <4>2
    <3> QED
      BY <2>0, <3>1, <3>2, <3>3, <3>4, WorkWritten
  <2>2. /\ pc = "checkpoint" /\ mem.tasks[t].status = "issued"
        /\ log' = CheckpointRecorded(log, t, a)
    BY <2>1 DEF CheckpointAttempt, Abandon
  <2>3. t \in DOMAIN mem.tasks /\ t.rev = mem.rev
    BY <2>0, <2>2 DEF CallFits, CallStory, CurrentTasks, Current, TaskId
  <2>4. AttemptMatches(log, mem, t)
    BY <2>2, <2>3 DEF AttemptsInStep, Starting
  <2>5. c = <<t, a>>
    <3> HIDE DEF t, a
    <3> QED
      BY <2>0, <2>2, CheckpointFields
  <2> QED
    BY <2>2, <2>4, <2>5 DEF AttemptMatches
<1> QED
  BY <1>1, Invariance, CallInvariance, AttemptsInStepInvariance, PTL
     DEF Spec, CheckpointsOfRunning
=============================================================================
