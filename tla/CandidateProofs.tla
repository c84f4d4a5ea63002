--------------------------- MODULE CandidateProofs ---------------------------
(***************************************************************************)
(* What holds of candidate directories for any number of processes, inputs *)
(* and contents, any number of changes, and calls that stop anywhere.      *)
(***************************************************************************)
EXTENDS CandidateStore, TLAPS

\* The inputs a call has scanned are known.
Known(c) ==
    \A l \in Labels : \/ c.step = "idle"
                      \/ c.step = "scan" /\ l \in c.todo
                      \/ c.id[l] \in Values

Sound(c) == c \in Calls /\ Known(c)

\* The call of a process that does nothing is a sound one.
LEMMA IdleSound == Sound(Idle)
<1>1. Idle.step = "idle"
  BY DEF Idle
<1>2. Idle \in Calls
  BY DEF Idle, Calls, Operations, Steps, Parts, Nothing, CandidateState
<1> QED
  BY <1>1, <1>2 DEF Sound, Known

\* A call that goes on at its candidate stays sound.
LEMMA SoundAtCandidate ==
    ASSUME NEW c, Sound(c), c.step \notin {"idle", "scan"}, NEW d \in Calls, d.id = c.id
    PROVE  Sound(d)
<1>1. \A l \in Labels : c.id[l] \in Values
  BY DEF Sound, Known
<1>2. Known(d)
  BY <1>1 DEF Known
<1> QED
  BY <1>2 DEF Sound

\* A loop over the labels leaves a call a call.
LEMMA LoopTyped ==
    ASSUME NEW c \in Calls, NEW l \in Labels, NEW next \in Steps
    PROVE  Loop(l, c, next) \in Calls /\ Loop(l, c, next).id = c.id
BY DEF Loop, Calls

\* What a process does to another one's call leaves it where it was.
LEMMA MeetingsTyped ==
    ASSUME NEW c \in Calls
    PROVE  /\ NotAlone(c) \in Calls /\ NotClean(c) \in Calls /\ Moved(c) \in Calls
           /\ \A d \in {NotAlone(c), NotClean(c), Moved(c)} :
                 /\ d.op = c.op /\ d.step = c.step /\ d.id = c.id /\ d.parent = c.parent
                 /\ d.todo = c.todo /\ d.state = c.state /\ d.packed = c.packed
<1> DEFINE Kept(d) == /\ d.op = c.op /\ d.step = c.step /\ d.id = c.id /\ d.parent = c.parent
                      /\ d.todo = c.todo /\ d.state = c.state /\ d.packed = c.packed
<1>1. NotAlone(c) \in Calls /\ Kept(NotAlone(c))
  BY DEF NotAlone, Calls
<1>2. NotClean(c) \in Calls /\ Kept(NotClean(c))
  BY DEF NotClean, Calls
<1>3. Moved(c) \in Calls
  BY DEF Moved, Calls
<1>4. Kept(Moved(c))
  BY DEF Moved, Calls
<1> QED
  BY <1>1, <1>2, <1>3, <1>4

\* What a process does to another one's call leaves it sound.
LEMMA MeetingsSound ==
    ASSUME NEW c, Sound(c)
    PROVE  Sound(NotAlone(c)) /\ Sound(NotClean(c)) /\ Sound(Moved(c))
BY MeetingsTyped DEF Sound, Known

\* p goes on as c, and the others as they were or as p's step leaves them.
Proceeds(p, c) ==
    \/ call' = [call EXCEPT ![p] = c]
    \/ GoOn(p, c, NotAlone) \/ GoOn(p, c, NotClean) \/ GoOn(p, c, Moved)

CallsSound == call \in [Processes -> Calls] /\ \A p \in Processes : Known(call[p])

\* If p goes on as a sound call, all calls are sound again.
LEMMA Proceeding ==
    ASSUME CallsSound, NEW p \in Processes, NEW c, Sound(c), Proceeds(p, c)
    PROVE  CallsSound'
<1>1. \A q \in Processes : Sound(call[q])
  BY DEF CallsSound, Sound
<1>2. ASSUME NEW q \in Processes
      PROVE  call'[q] \in {c, call[q], NotAlone(call[q]), NotClean(call[q]), Moved(call[q])}
  BY DEF Proceeds, GoOn, CallsSound
<1>3. \A q \in Processes : Sound(call'[q])
  BY <1>1, <1>2, MeetingsSound
<1>4. call' = [q \in Processes |-> call'[q]]
  BY DEF Proceeds, GoOn, CallsSound
<1> QED
  BY <1>3, <1>4 DEF CallsSound, Sound

\* The rest of what TypeOK says.
FilesTyped ==
    /\ inputs \in Ids /\ dir \in [Ids -> Directory] /\ package \in [Ids -> Parts]
    /\ bound \subseteq Ids /\ changes \in Nat /\ calls \in Nat /\ damaged \subseteq Ids

\* TypeOK says that the calls are sound and the files typed.
LEMMA TypeParts == TypeOK <=> CallsSound /\ FilesTyped
BY DEF TypeOK, CallsSound, FilesTyped, Known

\* Once the inputs are scanned, a call is at a candidate.
LEMMA Named ==
    ASSUME CallsSound, NEW p \in Processes, call[p].step \notin {"idle", "scan"}
    PROVE  call[p].id \in Ids
<1>1. call[p].id \in [Labels -> Values \cup {Absent}]
  BY DEF CallsSound, Calls, Parts
<1>2. \A l \in Labels : call[p].id[l] \in Values
  BY DEF CallsSound, Known
<1> QED
  BY <1>1, <1>2 DEF Ids

\* TypeOK holds at the start.
LEMMA TypeInit == Init => TypeOK
BY IdleSound DEF Init, TypeOK, Ids, Parts, Nothing, Directory, NoDirectory, StateFile, Idle, Sound

\* Every step of a call, and every change of a file, keeps TypeOK.
LEMMA TypeNext == TypeOK /\ [Next]_vars => TypeOK'
<1> SUFFICES ASSUME CallsSound, FilesTyped, [Next]_vars
             PROVE  CallsSound' /\ FilesTyped'
  BY DEF TypeOK, CallsSound, FilesTyped, Known
<1> USE IdleSound
<1>0. CASE UNCHANGED vars
  BY <1>0 DEF CallsSound, FilesTyped, Known, vars
<1>1. ASSUME NEW p \in Processes, NEW parent \in Ids \cup {Absent}, BeginFreeze(p, parent)
     PROVE  CallsSound' /\ FilesTyped'
  <2>0. call[p] \in Calls /\ Sound(call[p])
    BY DEF CallsSound, Sound
  <2>2. Sound([Idle EXCEPT !.step = "scan", !.todo = Labels, !.parent = parent])
    BY DEF Sound, Known, Idle, Calls, Steps, Operations, Parts, CandidateState, Nothing
  <2>3. \E c : Sound(c) /\ Proceeds(p, c)
    BY <1>1, <2>2 DEF BeginFreeze, Goto, Return, Proceeds, CallsSound
  <2>4. FilesTyped'
    BY <1>1 DEF FilesTyped, BeginFreeze, Outside, Environment
  <2> QED
    BY <2>3, <2>4, Proceeding
<1>2. ASSUME NEW p \in Processes, NEW l \in Labels, ScanInput(p, l)
     PROVE  CallsSound' /\ FilesTyped'
  <2>0. call[p] \in Calls /\ Sound(call[p])
    BY DEF CallsSound, Sound
  <2>2. Sound(Loop(l, [call[p] EXCEPT !.id[l] = inputs[l]], "exists"))
    <3> DEFINE c == [call[p] EXCEPT !.id[l] = inputs[l]]
    <3>1. c \in Calls
      BY <2>0 DEF FilesTyped, Ids, Calls, Parts
    <3>2. Loop(l, c, "exists") \in Calls /\ Loop(l, c, "exists").id = c.id
      BY <3>1, LoopTyped DEF Steps
    <3>3. \A m \in Labels : m \notin call[p].todo \/ m = l => c.id[m] \in Values
      BY <2>0, <1>2 DEF Sound, Known, ScanInput, Calls, Parts, FilesTyped, Ids
    <3>4. Loop(l, c, "exists").step = "scan" => Loop(l, c, "exists").todo = call[p].todo \ {l}
      BY <1>2, <2>0 DEF Loop, ScanInput, Calls
    <3>5. Loop(l, c, "exists").step # "scan" => call[p].todo = {l}
      BY <1>2, <2>0 DEF Loop, ScanInput, Calls
    <3>6. Loop(l, c, "exists").step \in {"scan", "exists"}
      BY <1>2, <2>0 DEF Loop, ScanInput, Calls
    <3> QED
      BY <3>2, <3>3, <3>4, <3>5, <3>6 DEF Sound, Known
  <2>3. \E c : Sound(c) /\ Proceeds(p, c)
    BY <1>2, <2>2 DEF ScanInput, Goto, Return, Proceeds, CallsSound
  <2>4. FilesTyped'
    BY <1>2 DEF FilesTyped, ScanInput, Outside, Environment
  <2> QED
    BY <2>3, <2>4, Proceeding
<1>3. ASSUME NEW p \in Processes, CheckExists(p)
     PROVE  CallsSound' /\ FilesTyped'
  <2>0. call[p] \in Calls /\ Sound(call[p])
    BY DEF CallsSound, Sound
  <2>1. call[p].id \in Ids /\ call[p].step \notin {"idle", "scan"}
    BY <1>3, Named DEF CheckExists
  <2>2. Sound([call[p] EXCEPT !.step = "mkdir"])
    <3> DEFINE c == [call[p] EXCEPT !.step = "mkdir"]
    <3>1. c \in Calls /\ c.id = call[p].id
      BY <2>0 DEF Calls, Steps, CandidateState
    <3> HIDE DEF c
    <3>2. Sound(c)
      BY <2>0, <2>1, <3>1, SoundAtCandidate
    <3> QED
      BY <3>2 DEF c
  <2>3. \E c : Sound(c) /\ Proceeds(p, c)
    BY <1>3, <2>2 DEF CheckExists, Goto, Return, Proceeds, CallsSound
  <2>4. FilesTyped'
    BY <1>3, <2>1 DEF FilesTyped, CheckExists, Outside, Environment
  <2> QED
    BY <2>3, <2>4, Proceeding
<1>4. ASSUME NEW p \in Processes, MakeDirectory(p)
     PROVE  CallsSound' /\ FilesTyped'
  <2>0. call[p] \in Calls /\ Sound(call[p])
    BY DEF CallsSound, Sound
  <2>1. call[p].id \in Ids /\ call[p].step \notin {"idle", "scan"}
    BY <1>4, Named DEF MakeDirectory
  <2>2. Sound([call[p] EXCEPT !.step = "copy"])
    <3> DEFINE c == [call[p] EXCEPT !.step = "copy"]
    <3>1. c \in Calls /\ c.id = call[p].id
      BY <2>0 DEF Calls, Steps, CandidateState
    <3> HIDE DEF c
    <3>2. Sound(c)
      BY <2>0, <2>1, <3>1, SoundAtCandidate
    <3> QED
      BY <3>2 DEF c
  <2>3. \E c : Sound(c) /\ Proceeds(p, c)
    BY <1>4, <2>2 DEF MakeDirectory, Goto, Return, Proceeds, CallsSound
  <2>4. FilesTyped'
    <3>1. dir[call[p].id] \in Directory
      BY <2>1 DEF FilesTyped
    <3>2. [dir[call[p].id] EXCEPT !.made = TRUE] \in Directory
      BY <2>0, <3>1 DEF Directory, StateFile, FilesTyped, Ids, Parts, Calls, CandidateState
    <3> QED
      BY <1>4, <2>1, <3>2 DEF FilesTyped, MakeDirectory, Outside, Environment
  <2> QED
    BY <2>3, <2>4, Proceeding
<1>5. ASSUME NEW p \in Processes, NEW l \in Labels, CopyInput(p, l)
     PROVE  CallsSound' /\ FilesTyped'
  <2>0. call[p] \in Calls /\ Sound(call[p])
    BY DEF CallsSound, Sound
  <2>1. call[p].id \in Ids /\ call[p].step \notin {"idle", "scan"}
    BY <1>5, Named DEF CopyInput
  <2>2. Sound(Loop(l, call[p], "manifest"))
    BY <2>0, <2>1, SoundAtCandidate, LoopTyped DEF Steps
  <2>3. \E c : Sound(c) /\ Proceeds(p, c)
    BY <1>5, <2>2 DEF CopyInput, Goto, Return, Proceeds, CallsSound
  <2>4. FilesTyped'
    <3>1. dir[call[p].id] \in Directory
      BY <2>1 DEF FilesTyped
    <3>2. [dir[call[p].id] EXCEPT !.files[l] = inputs[l]] \in Directory
      BY <2>0, <3>1 DEF Directory, StateFile, FilesTyped, Ids, Parts, Calls, CandidateState
    <3> QED
      BY <1>5, <2>1, <3>2 DEF FilesTyped, CopyInput, Outside, Environment
  <2> QED
    BY <2>3, <2>4, Proceeding
<1>6. ASSUME NEW p \in Processes, WriteManifest(p)
     PROVE  CallsSound' /\ FilesTyped'
  <2>0. call[p] \in Calls /\ Sound(call[p])
    BY DEF CallsSound, Sound
  <2>1. call[p].id \in Ids /\ call[p].step \notin {"idle", "scan"}
    BY <1>6, Named DEF WriteManifest
  <2>2. Sound([call[p] EXCEPT !.step = "digest"])
    <3> DEFINE c == [call[p] EXCEPT !.step = "digest"]
    <3>1. c \in Calls /\ c.id = call[p].id
      BY <2>0 DEF Calls, Steps, CandidateState
    <3> HIDE DEF c
    <3>2. Sound(c)
      BY <2>0, <2>1, <3>1, SoundAtCandidate
    <3> QED
      BY <3>2 DEF c
  <2>3. \E c : Sound(c) /\ Proceeds(p, c)
    BY <1>6, <2>2 DEF WriteManifest, Goto, Return, Proceeds, CallsSound
  <2>4. FilesTyped'
    <3>1. dir[call[p].id] \in Directory
      BY <2>1 DEF FilesTyped
    <3>2. [dir[call[p].id] EXCEPT !.manifest = TRUE, !.parent = call[p].parent] \in Directory
      BY <2>0, <3>1 DEF Directory, StateFile, FilesTyped, Ids, Parts, Calls, CandidateState
    <3> QED
      BY <1>6, <2>1, <3>2 DEF FilesTyped, WriteManifest, Outside, Environment
  <2> QED
    BY <2>3, <2>4, Proceeding
<1>7. ASSUME NEW p \in Processes, WriteDigest(p)
     PROVE  CallsSound' /\ FilesTyped'
  <2>0. call[p] \in Calls /\ Sound(call[p])
    BY DEF CallsSound, Sound
  <2>1. call[p].id \in Ids /\ call[p].step \notin {"idle", "scan"}
    BY <1>7, Named DEF WriteDigest
  <2>2. Sound([call[p] EXCEPT !.step = "create"])
    <3> DEFINE c == [call[p] EXCEPT !.step = "create"]
    <3>1. c \in Calls /\ c.id = call[p].id
      BY <2>0 DEF Calls, Steps, CandidateState
    <3> HIDE DEF c
    <3>2. Sound(c)
      BY <2>0, <2>1, <3>1, SoundAtCandidate
    <3> QED
      BY <3>2 DEF c
  <2>3. \E c : Sound(c) /\ Proceeds(p, c)
    BY <1>7, <2>2 DEF WriteDigest, Goto, Return, Proceeds, CallsSound
  <2>4. FilesTyped'
    <3>1. dir[call[p].id] \in Directory
      BY <2>1 DEF FilesTyped
    <3>2. [dir[call[p].id] EXCEPT !.digest = TRUE] \in Directory
      BY <2>0, <3>1 DEF Directory, StateFile, FilesTyped, Ids, Parts, Calls, CandidateState
    <3> QED
      BY <1>7, <2>1, <3>2 DEF FilesTyped, WriteDigest, Outside, Environment
  <2> QED
    BY <2>3, <2>4, Proceeding
<1>8. ASSUME NEW p \in Processes, CreateState(p)
     PROVE  CallsSound' /\ FilesTyped'
  <2>0. call[p] \in Calls /\ Sound(call[p])
    BY DEF CallsSound, Sound
  <2>1. call[p].id \in Ids /\ call[p].step \notin {"idle", "scan"}
    BY <1>8, Named DEF CreateState
  <2>2. Sound([call[p] EXCEPT !.step = "initial"])
    <3> DEFINE c == [call[p] EXCEPT !.step = "initial"]
    <3>1. c \in Calls /\ c.id = call[p].id
      BY <2>0 DEF Calls, Steps, CandidateState
    <3> HIDE DEF c
    <3>2. Sound(c)
      BY <2>0, <2>1, <3>1, SoundAtCandidate
    <3> QED
      BY <3>2 DEF c
  <2>3. \E c : Sound(c) /\ Proceeds(p, c)
    BY <1>8, <2>2 DEF CreateState, Goto, Return, Proceeds, CallsSound
  <2>4. FilesTyped'
    <3>1. dir[call[p].id] \in Directory
      BY <2>1 DEF FilesTyped
    <3>2. [dir[call[p].id] EXCEPT !.state = "torn"] \in Directory
      BY <2>0, <3>1 DEF Directory, StateFile, FilesTyped, Ids, Parts, Calls, CandidateState
    <3> QED
      BY <1>8, <2>1, <3>2 DEF FilesTyped, CreateState, Outside, Environment
  <2> QED
    BY <2>3, <2>4, Proceeding
<1>9. ASSUME NEW p \in Processes, InitialState(p)
     PROVE  CallsSound' /\ FilesTyped'
  <2>0. call[p] \in Calls /\ Sound(call[p])
    BY DEF CallsSound, Sound
  <2>1. call[p].id \in Ids /\ call[p].step \notin {"idle", "scan"}
    BY <1>9, Named DEF InitialState
  <2>2. Sound([call[p] EXCEPT !.step = "verify", !.alone = TRUE])
    <3> DEFINE c == [call[p] EXCEPT !.step = "verify", !.alone = TRUE]
    <3>1. c \in Calls /\ c.id = call[p].id
      BY <2>0 DEF Calls, Steps, CandidateState
    <3> HIDE DEF c
    <3>2. Sound(c)
      BY <2>0, <2>1, <3>1, SoundAtCandidate
    <3> QED
      BY <3>2 DEF c
  <2>3. \E c : Sound(c) /\ Proceeds(p, c)
    BY <1>9, <2>2 DEF InitialState, Goto, Return, Proceeds, CallsSound
  <2>4. FilesTyped'
    <3>1. dir[call[p].id] \in Directory
      BY <2>1 DEF FilesTyped
    <3>2. [dir[call[p].id] EXCEPT !.state = "frozen"] \in Directory
      BY <2>0, <3>1 DEF Directory, StateFile, FilesTyped, Ids, Parts, Calls, CandidateState
    <3> QED
      BY <1>9, <2>1, <3>2 DEF FilesTyped, InitialState, Outside, Environment
  <2> QED
    BY <2>3, <2>4, Proceeding
<1>10. ASSUME NEW p \in Processes, NEW op \in Operations, NEW id \in Ids, BeginUse(p, op, id)
     PROVE  CallsSound' /\ FilesTyped'
  <2>0. call[p] \in Calls /\ Sound(call[p])
    BY DEF CallsSound, Sound
  <2>2. Sound([Idle EXCEPT !.op = op, !.step = "verify", !.id = id,
                                !.todo = Labels, !.state = dir[id].state, !.alone = TRUE])
    <3> DEFINE c == [Idle EXCEPT !.op = op, !.step = "verify", !.id = id,
                                 !.todo = Labels, !.state = dir[id].state, !.alone = TRUE]
    <3>1. dir[id].state \in CandidateState /\ id \in Parts
      BY <1>10 DEF BeginUse, Loadable, Ids, Parts
    <3>2. c \in Calls
      BY <3>1 DEF Idle, Calls, Steps, Parts, Nothing
    <3>3. c.id = id
      BY DEF Idle
    <3> HIDE DEF c
    <3>4. Sound(c)
      BY <3>2, <3>3 DEF Sound, Known, Ids
    <3> QED
      BY <3>4 DEF c
  <2>3. Proceeds(p, [Idle EXCEPT !.op = op, !.step = "verify", !.id = id,
                                 !.todo = Labels, !.state = dir[id].state, !.alone = TRUE])
    BY <1>10 DEF BeginUse, Proceeds
  <2>4. FilesTyped'
    BY <1>10 DEF FilesTyped, BeginUse, Outside, Environment
  <2> QED
    BY <2>2, <2>3, <2>4, Proceeding
<1>11. ASSUME NEW p \in Processes, NEW l \in Labels, VerifyInput(p, l)
     PROVE  CallsSound' /\ FilesTyped'
  <2>0. call[p] \in Calls /\ Sound(call[p])
    BY DEF CallsSound, Sound
  <2>1. call[p].id \in Ids /\ call[p].step \notin {"idle", "scan"}
    BY <1>11, Named DEF VerifyInput
  <2>2. Sound(Loop(l, call[p], "decide"))
    BY <2>0, <2>1, SoundAtCandidate, LoopTyped DEF Steps
  <2>3. Sound([call[p] EXCEPT !.state = "corrupt", !.step = "open"])
    <3> DEFINE c == [call[p] EXCEPT !.state = "corrupt", !.step = "open"]
    <3>1. c \in Calls /\ c.id = call[p].id
      BY <2>0 DEF Calls, Steps, CandidateState
    <3> HIDE DEF c
    <3>2. Sound(c)
      BY <2>0, <2>1, <3>1, SoundAtCandidate
    <3> QED
      BY <3>2 DEF c
  <2>4. \/ Proceeds(p, Loop(l, call[p], "decide"))
        \/ Proceeds(p, [call[p] EXCEPT !.state = "corrupt", !.step = "open"])
    BY <1>11 DEF VerifyInput, Proceeds
  <2>5. FilesTyped'
    BY <1>11, <2>1 DEF FilesTyped, VerifyInput, Outside, Environment
  <2> QED
    BY <2>2, <2>3, <2>4, <2>5, Proceeding
<1>12. ASSUME NEW p \in Processes, BindFrozen(p)
     PROVE  CallsSound' /\ FilesTyped'
  <2>0. call[p] \in Calls /\ Sound(call[p])
    BY DEF CallsSound, Sound
  <2>1. call[p].id \in Ids /\ call[p].step \notin {"idle", "scan"}
    BY <1>12, Named DEF BindFrozen
  <2>2. \E c : Sound(c) /\ Proceeds(p, c)
    BY <1>12 DEF BindFrozen, Goto, Return, Proceeds, CallsSound
  <2>3. FilesTyped'
    BY <1>12, <2>1 DEF FilesTyped, BindFrozen, Outside, Environment
  <2> QED
    BY <2>2, <2>3, Proceeding
<1>13. ASSUME NEW p \in Processes, RecordEvidence(p)
     PROVE  CallsSound' /\ FilesTyped'
  <2>0. call[p] \in Calls /\ Sound(call[p])
    BY DEF CallsSound, Sound
  <2>1. call[p].id \in Ids /\ call[p].step \notin {"idle", "scan"}
    BY <1>13, Named DEF RecordEvidence
  <2>2. Sound([call[p] EXCEPT !.state = "verifying", !.step = "open"])
    <3> DEFINE c == [call[p] EXCEPT !.state = "verifying", !.step = "open"]
    <3>1. c \in Calls /\ c.id = call[p].id
      BY <2>0 DEF Calls, Steps, CandidateState
    <3> HIDE DEF c
    <3>2. Sound(c)
      BY <2>0, <2>1, <3>1, SoundAtCandidate
    <3> QED
      BY <3>2 DEF c
  <2>3. \/ Proceeds(p, [call[p] EXCEPT !.state = "verifying", !.step = "open"])
        \/ Proceeds(p, Idle)
    BY <1>13 DEF RecordEvidence, Return, Proceeds
  <2>4. FilesTyped'
    BY <1>13, <2>1 DEF FilesTyped, RecordEvidence, Outside, Environment
  <2> QED
    BY <2>2, <2>3, <2>4, Proceeding
<1>14. ASSUME NEW p \in Processes, ApproveCandidate(p)
     PROVE  CallsSound' /\ FilesTyped'
  <2>0. call[p] \in Calls /\ Sound(call[p])
    BY DEF CallsSound, Sound
  <2>1. call[p].id \in Ids /\ call[p].step \notin {"idle", "scan"}
    BY <1>14, Named DEF ApproveCandidate
  <2>2. Sound([call[p] EXCEPT !.state = "approved", !.step = "open"])
    <3> DEFINE c == [call[p] EXCEPT !.state = "approved", !.step = "open"]
    <3>1. c \in Calls /\ c.id = call[p].id
      BY <2>0 DEF Calls, Steps, CandidateState
    <3> HIDE DEF c
    <3>2. Sound(c)
      BY <2>0, <2>1, <3>1, SoundAtCandidate
    <3> QED
      BY <3>2 DEF c
  <2>3. \/ Proceeds(p, [call[p] EXCEPT !.state = "approved", !.step = "open"])
        \/ Proceeds(p, Idle)
    BY <1>14 DEF ApproveCandidate, Return, Proceeds
  <2>4. FilesTyped'
    BY <1>14, <2>1 DEF FilesTyped, ApproveCandidate, Outside, Environment
  <2> QED
    BY <2>2, <2>3, <2>4, Proceeding
<1>15. ASSUME NEW p \in Processes, BeginPackage(p)
     PROVE  CallsSound' /\ FilesTyped'
  <2>0. call[p] \in Calls /\ Sound(call[p])
    BY DEF CallsSound, Sound
  <2>1. call[p].id \in Ids /\ call[p].step \notin {"idle", "scan"}
    BY <1>15, Named DEF BeginPackage
  <2>2. Sound([call[p] EXCEPT !.step = "recheck", !.clean = TRUE])
    <3> DEFINE c == [call[p] EXCEPT !.step = "recheck", !.clean = TRUE]
    <3>1. c \in Calls /\ c.id = call[p].id
      BY <2>0 DEF Calls, Steps, CandidateState
    <3> HIDE DEF c
    <3>2. Sound(c)
      BY <2>0, <2>1, <3>1, SoundAtCandidate
    <3> QED
      BY <3>2 DEF c
  <2>3. \E c : Sound(c) /\ Proceeds(p, c)
    BY <1>15, <2>2 DEF BeginPackage, Goto, Return, Proceeds, CallsSound
  <2>4. FilesTyped'
    BY <1>15, <2>1 DEF FilesTyped, BeginPackage, Outside, Environment
  <2> QED
    BY <2>3, <2>4, Proceeding
<1>16. ASSUME NEW p \in Processes, NEW l \in Labels, RecheckInput(p, l)
     PROVE  CallsSound' /\ FilesTyped'
  <2>0. call[p] \in Calls /\ Sound(call[p])
    BY DEF CallsSound, Sound
  <2>1. call[p].id \in Ids /\ call[p].step \notin {"idle", "scan"}
    BY <1>16, Named DEF RecheckInput
  <2>2. Sound(Loop(l, call[p], "zip"))
    BY <2>0, <2>1, SoundAtCandidate, LoopTyped DEF Steps
  <2>3. \E c : Sound(c) /\ Proceeds(p, c)
    BY <1>16, <2>2 DEF RecheckInput, Goto, Return, Proceeds, CallsSound
  <2>4. FilesTyped'
    BY <1>16, <2>1 DEF FilesTyped, RecheckInput, Outside, Environment
  <2> QED
    BY <2>3, <2>4, Proceeding
<1>17. ASSUME NEW p \in Processes, OpenPackage(p)
     PROVE  CallsSound' /\ FilesTyped'
  <2>0. call[p] \in Calls /\ Sound(call[p])
    BY DEF CallsSound, Sound
  <2>1. call[p].id \in Ids /\ call[p].step \notin {"idle", "scan"}
    BY <1>17, Named DEF OpenPackage
  <2>2. Sound([call[p] EXCEPT !.step = "pack", !.state = "packaging"])
    <3> DEFINE c == [call[p] EXCEPT !.step = "pack", !.state = "packaging"]
    <3>1. c \in Calls /\ c.id = call[p].id
      BY <2>0 DEF Calls, Steps, CandidateState
    <3> HIDE DEF c
    <3>2. Sound(c)
      BY <2>0, <2>1, <3>1, SoundAtCandidate
    <3> QED
      BY <3>2 DEF c
  <2>3. \E c : Sound(c) /\ Proceeds(p, c)
    BY <1>17, <2>2 DEF OpenPackage, Goto, Return, Proceeds, CallsSound
  <2>4. FilesTyped'
    BY <1>17, <2>1 DEF FilesTyped, OpenPackage, Outside, Environment, Parts, Nothing
  <2> QED
    BY <2>3, <2>4, Proceeding
<1>18. ASSUME NEW p \in Processes, NEW l \in Labels, PackInput(p, l)
     PROVE  CallsSound' /\ FilesTyped'
  <2>0. call[p] \in Calls /\ Sound(call[p])
    BY DEF CallsSound, Sound
  <2>1. call[p].id \in Ids /\ call[p].step \notin {"idle", "scan"}
    BY <1>18, Named DEF PackInput
  <2>2. Sound(Loop(l, call[p], "hash"))
    BY <2>0, <2>1, SoundAtCandidate, LoopTyped DEF Steps
  <2>3. \E c : Sound(c) /\ Proceeds(p, c)
    BY <1>18, <2>2 DEF PackInput, Goto, Return, Proceeds, CallsSound
  <2>4. FilesTyped'
    BY <1>18, <2>1 DEF FilesTyped, PackInput, Outside, Environment, Directory, Parts
  <2> QED
    BY <2>3, <2>4, Proceeding
<1>19. ASSUME NEW p \in Processes, HashPackage(p)
     PROVE  CallsSound' /\ FilesTyped'
  <2>0. call[p] \in Calls /\ Sound(call[p])
    BY DEF CallsSound, Sound
  <2>1. call[p].id \in Ids /\ call[p].step \notin {"idle", "scan"}
    BY <1>19, Named DEF HashPackage
  <2>2. Sound([call[p] EXCEPT !.packed = package[call[p].id], !.state = "release-ready", !.step = "open"])
    BY <2>0, <2>1, SoundAtCandidate, <1>19 DEF HashPackage, FilesTyped, Calls, Steps, CandidateState
  <2>3. \E c : Sound(c) /\ Proceeds(p, c)
    BY <1>19, <2>2 DEF HashPackage, Goto, Return, Proceeds, CallsSound
  <2>4. FilesTyped'
    BY <1>19, <2>1 DEF FilesTyped, HashPackage, Outside, Environment
  <2> QED
    BY <2>3, <2>4, Proceeding
<1>20. ASSUME NEW p \in Processes, OpenState(p)
     PROVE  CallsSound' /\ FilesTyped'
  <2>0. call[p] \in Calls /\ Sound(call[p])
    BY DEF CallsSound, Sound
  <2>1. call[p].id \in Ids /\ call[p].step \notin {"idle", "scan"}
    BY <1>20, Named DEF OpenState
  <2>2. Sound([call[p] EXCEPT !.opened = "tmp", !.step = "write"])
    <3> DEFINE c == [call[p] EXCEPT !.opened = "tmp", !.step = "write"]
    <3>1. c \in Calls /\ c.id = call[p].id
      BY <2>0 DEF Calls, Steps, CandidateState
    <3> HIDE DEF c
    <3>2. Sound(c)
      BY <2>0, <2>1, <3>1, SoundAtCandidate
    <3> QED
      BY <3>2 DEF c
  <2>3. \E c : Sound(c) /\ Proceeds(p, c)
    BY <1>20, <2>2 DEF OpenState, Goto, Return, Proceeds, CallsSound
  <2>4. FilesTyped'
    <3>1. dir[call[p].id] \in Directory
      BY <2>1 DEF FilesTyped
    <3>2. [dir[call[p].id] EXCEPT !.tmp = "torn"] \in Directory
      BY <2>0, <3>1 DEF Directory, StateFile, FilesTyped, Ids, Parts, Calls, CandidateState
    <3> QED
      BY <1>20, <2>1, <3>2 DEF FilesTyped, OpenState, Outside, Environment
  <2> QED
    BY <2>3, <2>4, Proceeding
<1>21. ASSUME NEW p \in Processes, WriteState(p)
     PROVE  CallsSound' /\ FilesTyped'
  <2>0. call[p] \in Calls /\ Sound(call[p])
    BY DEF CallsSound, Sound
  <2>1. call[p].id \in Ids /\ call[p].step \notin {"idle", "scan"}
    BY <1>21, Named DEF WriteState
  <2>2. Sound([call[p] EXCEPT !.step = "replace"])
    <3> DEFINE c == [call[p] EXCEPT !.step = "replace"]
    <3>1. c \in Calls /\ c.id = call[p].id
      BY <2>0 DEF Calls, Steps, CandidateState
    <3> HIDE DEF c
    <3>2. Sound(c)
      BY <2>0, <2>1, <3>1, SoundAtCandidate
    <3> QED
      BY <3>2 DEF c
  <2>3. \E c : Sound(c) /\ Proceeds(p, c)
    BY <1>21, <2>2 DEF WriteState, Goto, Return, Proceeds, CallsSound
  <2>4. FilesTyped'
    <3> DEFINE d == dir[call[p].id]
               new(old) == Overwritten(old, call[p].state)
    <3>1. d \in Directory
      BY <2>1 DEF FilesTyped
    <3>2. new(d.tmp) \in StateFile /\ new(d.state) \in StateFile
      BY <2>0 DEF Overwritten, StateFile, Calls
    <3>3. [d EXCEPT !.tmp = new(d.tmp)] \in Directory /\ [d EXCEPT !.state = new(d.state)] \in Directory
      BY <3>1, <3>2 DEF Directory
    <3>4. \E e \in Directory : dir' = [dir EXCEPT ![call[p].id] = e]
      BY <1>21, <3>1, <3>3 DEF WriteState
    <3>5. UNCHANGED <<inputs, package, bound, changes, calls, damaged>>
      BY <1>21 DEF WriteState, Outside, Environment
    <3> QED
      BY <2>1, <3>4, <3>5 DEF FilesTyped
  <2> QED
    BY <2>3, <2>4, Proceeding
<1>22. ASSUME NEW p \in Processes, ReplaceState(p)
     PROVE  CallsSound' /\ FilesTyped'
  <2>0. call[p] \in Calls /\ Sound(call[p])
    BY DEF CallsSound, Sound
  <2>1. call[p].id \in Ids /\ call[p].step \notin {"idle", "scan"}
    BY <1>22, Named DEF ReplaceState
  <2>2. \E c : Sound(c) /\ Proceeds(p, c)
    BY <1>22, <2>0 DEF ReplaceState, Goto, Return, Proceeds, CallsSound
  <2>3. FilesTyped'
    <3>1. dir[call[p].id] \in Directory
      BY <2>1 DEF FilesTyped
    <3>2. [dir[call[p].id] EXCEPT !.state = dir[call[p].id].tmp, !.tmp = Absent] \in Directory
      BY <2>0, <3>1 DEF Directory, StateFile, FilesTyped, Ids, Parts, Calls, CandidateState
    <3> QED
      BY <1>22, <2>1, <3>2 DEF FilesTyped, ReplaceState, Outside, Environment
  <2> QED
    BY <2>2, <2>3, Proceeding
<1>23. ASSUME NEW p \in Processes, Stop(p)
     PROVE  CallsSound' /\ FilesTyped'
  <2>0. call[p] \in Calls /\ Sound(call[p])
    BY DEF CallsSound, Sound
  <2>2. \E c : Sound(c) /\ Proceeds(p, c)
    BY <1>23 DEF Stop, Goto, Return, Proceeds, CallsSound
  <2>3. FilesTyped'
    BY <1>23 DEF FilesTyped, Stop, Outside, Environment
  <2> QED
    BY <2>2, <2>3, Proceeding
<1>24. ASSUME NEW l \in Labels, NEW v \in Values, Edit(l, v)
      PROVE  CallsSound' /\ FilesTyped'
  BY <1>24 DEF Edit, CallsSound, FilesTyped, Known, Ids
<1>25. ASSUME NEW id \in Ids, NEW l \in Labels, NEW v \in Values, Damage(id, l, v)
      PROVE  CallsSound' /\ FilesTyped'
  <2>1. \A p \in Processes : Sound(call[p])
    BY DEF CallsSound, Sound
  <2>2. \A p \in Processes : Sound(call'[p])
    BY <1>25, <2>1, MeetingsSound DEF Damage
  <2>3. CallsSound'
    BY <1>25, <2>2 DEF Damage, CallsSound, Sound
  <2>4. [dir[id] EXCEPT !.files[l] = v] \in Directory
    BY DEF FilesTyped, Directory, Parts
  <2>5. FilesTyped'
    BY <1>25, <2>4 DEF FilesTyped, Damage
  <2> QED
    BY <2>3, <2>5
<1> QED
  BY <1>0, <1>1, <1>2, <1>3, <1>4, <1>5, <1>6, <1>7, <1>8, <1>9, <1>10, <1>11, <1>12, <1>13, <1>14, <1>15, <1>16, <1>17, <1>18, <1>19, <1>20, <1>21, <1>22, <1>23, <1>24, <1>25 DEF Next, Act

\* Files, calls and bindings always have their types, and a call that has scanned
\* its inputs knows a value of each.  (freeze_candidate, get, package, save_state)
THEOREM CandidatesTyped == Spec => []TypeOK
BY TypeInit, TypeNext, PTL DEF Spec

-----------------------------------------------------------------------------
(* The inductive invariant.                                                *)

Freezing == {"copy", "manifest", "digest", "create", "initial"}
Saving == {"open", "write", "replace"}
Using == {"verify", "decide", "recheck", "zip", "pack", "hash"} \cup Saving

HasFiles(id) == \A l \in Labels : dir[id].files[l] # Absent

Whole(id) == dir[id].manifest /\ HasFiles(id)

\* Nothing of a candidate is there before its manifest, nor that before its files.
Built(id) ==
    /\ dir[id].manifest => dir[id].made /\ HasFiles(id)
    /\ dir[id].manifest /\ dir[id].parent # Absent =>
           dir[id].parent # id /\ dir[id].parent \in Ids /\ Whole(dir[id].parent)
    /\ \/ id \in bound \/ dir[id].digest
       \/ dir[id].state # Absent \/ dir[id].tmp # Absent
       => dir[id].manifest

\* How far the files are when a call is at a step.
Progress(p) ==
    LET c == call[p] IN
    /\ c.step \in {"scan", "exists", "mkdir"} \cup Freezing =>
           /\ c.parent # Absent => Whole(c.parent)
           /\ c.state = "frozen"
    /\ c.step \in Freezing =>
           /\ dir[c.id].made /\ c.id \notin bound
           /\ c.parent # c.id
    /\ c.step \in {"copy", "manifest"} => ~dir[c.id].manifest
    /\ c.step = "copy" => \A l \in Labels \ c.todo : dir[c.id].files[l] # Absent
    /\ c.step = "manifest" => HasFiles(c.id)
    /\ c.step \in {"digest", "create"} => dir[c.id].manifest /\ dir[c.id].state = Absent
    /\ c.step = "initial" => dir[c.id].manifest /\ dir[c.id].state = "torn"
    /\ c.step \in Using => dir[c.id].manifest
    /\ c.step \in {"exists", "mkdir", "manifest", "digest", "create", "initial",
                   "decide", "zip", "hash"} => c.todo = Labels

\* Nobody is at a candidate that somebody else freezes.
Apart(p, q) ==
    p # q /\ call[p].id = call[q].id /\ call[p].step \in Freezing
    => call[q].step \notin Freezing \cup Using

BuildInv ==
    /\ \A id \in Ids : Built(id)
    /\ \A p \in Processes : Progress(p)
    /\ \A p, q \in Processes : Apart(p, q)

AllNamed(id) == \A l \in Labels : dir[id].files[l] = id[l]

Decided == CandidateState \ {"frozen", "corrupt"}

\* Where no file was changed, verification saw what still is there.
Verified(p) ==
    LET c == call[p] IN
    c.step \in Using /\ c.id \notin damaged =>
        /\ c.step = "verify" => \A l \in Labels \ c.todo : dir[c.id].files[l] = c.id[l]
        /\ c.step # "verify" /\ ~(c.step \in Saving /\ c.state = "corrupt") => AllNamed(c.id)

Settled(id) ==
    /\ id \notin damaged
    /\ id \in bound \/ dir[id].state \in Decided \/ dir[id].tmp \in Decided
    => AllNamed(id)

NameInv ==
    /\ \A p \in Processes : Verified(p)
    /\ \A id \in Ids : Settled(id)

\* What a packager that was not disturbed has in his package.
Packed(p) ==
    LET c == call[p] IN
    c.clean =>
        /\ c.step \in {"recheck", "zip", "pack", "hash"} \cup Saving
        /\ c.step = "recheck" => \A l \in Labels \ c.todo : dir[c.id].files[l] = c.id[l]
        /\ c.step \in {"zip", "pack", "hash"} => AllNamed(c.id)
        /\ c.step = "pack" => \A l \in Labels \ c.todo : package[c.id][l] = c.id[l]
        /\ c.step = "hash" => \A l \in Labels : package[c.id][l] = c.id[l]
        /\ c.step \in Saving => \A l \in Labels : c.packed[l] = c.id[l]

\* What a call that nobody disturbed is about to save over what it has read.
Saver(p) ==
    LET c == call[p] IN
    /\ c.opened = "no" <=> c.step \notin {"write", "replace"}
    /\ c.alone =>
        /\ c.step \in Using /\ dir[c.id].state \in CandidateState
        /\ c.opened \in {"no", "tmp"}
        /\ c.step \in {"verify", "decide"} => c.state = dir[c.id].state
        /\ c.step \in {"recheck", "zip", "pack", "hash"} => dir[c.id].state = "approved"
        /\ c.step \in Saving => Moves(dir[c.id].state, c.state)
        /\ c.step = "write" => dir[c.id].tmp = "torn"
        /\ c.step = "replace" => dir[c.id].tmp = c.state

-----------------------------------------------------------------------------
(* BuildInv is inductive.                                                  *)

Same(c, d) ==
    /\ d.op = c.op /\ d.step = c.step /\ d.id = c.id /\ d.parent = c.parent
    /\ d.todo = c.todo /\ d.state = c.state /\ d.packed = c.packed

\* p goes on as c, and the others stay where they are.
LEMMA OthersStay ==
    ASSUME CallsSound, NEW p \in Processes, NEW c, Proceeds(p, c)
    PROVE  call'[p] = c /\ \A q \in Processes \ {p} : Same(call[q], call'[q])
<1>1. call'[p] = c
  BY DEF Proceeds, GoOn, CallsSound
<1>2. ASSUME NEW q \in Processes \ {p}
      PROVE  Same(call[q], call'[q])
  <2>1. call[q] \in Calls
    BY DEF CallsSound
  <2>2. call'[q] \in {call[q], NotAlone(call[q]), NotClean(call[q]), Moved(call[q])}
    BY DEF Proceeds, GoOn, CallsSound
  <2> QED
    BY <2>1, <2>2, MeetingsTyped DEF Same
<1> QED
  BY <1>1, <1>2

\* A step that freezes nothing: it keeps what BuildInv speaks of, but for states,
\* temporary files and bindings of candidates that have their manifest.
Tame(p) ==
    /\ \A q \in Processes \ {p} :
          /\ Same(call[q], call'[q])
          /\ call[q].step \in Freezing =>
                /\ dir'[call[q].id].state = dir[call[q].id].state
                /\ call[q].id \in bound' => call[q].id \in bound
    /\ \/ call'[p].step = "idle"
       \/ /\ call'[p].step \in Using /\ call'[p].id \in Ids
          /\ dir[call'[p].id].manifest
          /\ call'[p].step \in {"decide", "zip", "hash"} => call'[p].todo = Labels
          /\ \A q \in Processes \ {p} :
                call[q].id = call'[p].id => call[q].step \notin Freezing
    /\ \A id \in Ids :
          /\ dir'[id].made = dir[id].made /\ dir'[id].manifest = dir[id].manifest
          /\ dir'[id].digest = dir[id].digest /\ dir'[id].parent = dir[id].parent
          /\ \A l \in Labels : dir[id].files[l] # Absent => dir'[id].files[l] # Absent
          /\ \/ dir[id].manifest
             \/ /\ dir'[id].state = dir[id].state /\ dir'[id].tmp = dir[id].tmp
                /\ id \in bound' => id \in bound

\* A step that freezes nothing keeps BuildInv.
LEMMA BuildTame ==
    ASSUME TypeOK, BuildInv, NEW p \in Processes, Tame(p)
    PROVE  BuildInv'
<1>1. \A id \in Ids : Whole(id) => Whole(id)'
  BY DEF Tame, Whole, HasFiles
<1>2. ASSUME NEW id \in Ids PROVE Built(id)'
  <2>1. Built(id)
    BY DEF BuildInv
  <2>2. HasFiles(id) => HasFiles(id)'
    BY DEF Tame, HasFiles
  <2> QED
    BY <1>1, <2>1, <2>2 DEF Built, Tame
<1>3. ASSUME NEW q \in Processes, q # p PROVE Progress(q)'
  <2>1. Progress(q) /\ Same(call[q], call'[q])
    BY <1>3 DEF BuildInv, Tame
  <2>2. call[q].step \notin {"idle", "scan"} => call[q].id \in Ids
    BY Named, TypeParts
  <2>3. call[q].parent \in Ids \cup {Absent}
    BY DEF TypeOK, Calls
  <2>4. call[q].step \in Freezing =>
            /\ dir'[call[q].id].state = dir[call[q].id].state
            /\ call[q].id \in bound' => call[q].id \in bound
    BY <1>3 DEF Tame
  <2>5. call[q].id \in Ids =>
            /\ dir'[call[q].id].made = dir[call[q].id].made
            /\ dir'[call[q].id].manifest = dir[call[q].id].manifest
            /\ \A l \in Labels : dir[call[q].id].files[l] # Absent => dir'[call[q].id].files[l] # Absent
    BY DEF Tame
  <2>6. \A id \in Ids : HasFiles(id)' <=> \A l \in Labels : dir'[id].files[l] # Absent
    BY DEF HasFiles
  <2> QED
    BY <1>1, <2>1, <2>2, <2>3, <2>4, <2>5, <2>6 DEF Progress, Same, Freezing, Using, Saving, HasFiles
<1>4. Progress(p)'
  BY DEF Tame, Progress, Freezing, Using, Saving
<1>5. ASSUME NEW q \in Processes, NEW r \in Processes PROVE Apart(q, r)'
  <2>1. Apart(q, r) /\ Apart(r, q)
    BY DEF BuildInv
  <2> QED
    BY <2>1 DEF Tame, Apart, Same, Freezing, Using, Saving
<1> QED
  BY <1>2, <1>3, <1>4, <1>5 DEF BuildInv

\* A step of the process that made a directory, in that directory.
Builds(p) ==
    /\ call[p].step \in Freezing /\ call'[p].step \in Freezing \cup {"verify"}
    /\ call'[p].id = call[p].id /\ bound' = bound
    /\ \A q \in Processes \ {p} : Same(call[q], call'[q])
    /\ \A id \in Ids \ {call[p].id} : dir'[id] = dir[id]
    /\ \A l \in Labels : dir[call[p].id].files[l] # Absent => dir'[call[p].id].files[l] # Absent
    /\ dir[call[p].id].manifest => dir'[call[p].id].manifest

\* A freezer that keeps its own candidate in order keeps all of them.
LEMMA BuildAlone ==
    ASSUME TypeOK, BuildInv, NEW p \in Processes, Builds(p),
           Built(call[p].id)', Progress(p)'
    PROVE  BuildInv'
<1>0. call[p].id \in Ids
  BY Named, TypeParts DEF Builds, Freezing
<1>1. \A id \in Ids : Whole(id) => Whole(id)'
  BY <1>0 DEF Builds, Whole, HasFiles
<1>2. ASSUME NEW id \in Ids PROVE Built(id)'
  <2>1. Built(id)
    BY DEF BuildInv
  <2>2. id # call[p].id => (HasFiles(id)' <=> HasFiles(id)) /\ dir'[id] = dir[id]
    BY DEF Builds, HasFiles
  <2>3. bound' = bound /\ call'[p].id = call[p].id
    BY DEF Builds
  <2>4. CASE id = call[p].id
    BY <2>3, <2>4 DEF Built, HasFiles, Whole
  <2>5. CASE id # call[p].id
    BY <1>1, <2>1, <2>2, <2>3, <2>5 DEF Built
  <2> QED
    BY <2>4, <2>5
<1>3. ASSUME NEW q \in Processes, q # p PROVE Progress(q)'
  <2>1. Progress(q) /\ Same(call[q], call'[q]) /\ Apart(p, q)
    BY <1>3 DEF BuildInv, Builds
  <2>2. call[q].step \notin {"idle", "scan"} => call[q].id \in Ids
    BY Named, TypeParts
  <2>3. call[q].parent \in Ids \cup {Absent}
    BY DEF TypeOK, Calls
  <2>4. call[q].step \in Freezing \cup Using =>
            call[q].id \in Ids /\ dir'[call[q].id] = dir[call[q].id]
    BY <1>3, <2>1, <2>2 DEF Builds, Apart, Freezing, Using, Saving
  <2>5. bound' = bound
    BY DEF Builds
  <2> QED
    BY <1>1, <2>1, <2>2, <2>3, <2>4, <2>5 DEF Progress, Same, HasFiles, Freezing, Using, Saving
<1>4. ASSUME NEW q \in Processes, NEW r \in Processes PROVE Apart(q, r)'
  <2>1. Apart(q, r) /\ Apart(r, q)
    BY DEF BuildInv
  <2> QED
    BY <2>1 DEF Builds, Apart, Same, Freezing, Using, Saving
<1> QED
  BY <1>2, <1>3, <1>4 DEF BuildInv

\* An idle call is at no step of a freeze, a use or a save.
LEMMA IdleStep == Idle.step = "idle"
BY DEF Idle

\* There is no candidate at the start.
LEMMA BuildInit == Init => BuildInv
BY DEF Init, BuildInv, Built, Progress, Apart, NoDirectory, Idle, Freezing, Using, Saving

\* Every step keeps BuildInv.
LEMMA BuildNext == TypeOK /\ BuildInv /\ [Next]_vars => BuildInv'
<1> SUFFICES ASSUME TypeOK, BuildInv, [Next]_vars
             PROVE  BuildInv'
  OBVIOUS
<1>0. CallsSound /\ FilesTyped
  BY TypeParts
<1> USE <1>0
<1>1. CASE UNCHANGED vars
  BY <1>1 DEF vars, BuildInv, Built, Progress, Apart, Whole, HasFiles
<1>2. ASSUME NEW p \in Processes, NEW parent \in Ids \cup {Absent}, BeginFreeze(p, parent)
      PROVE  BuildInv'
  <2>1. Proceeds(p, [Idle EXCEPT !.step = "scan", !.todo = Labels, !.parent = parent])
    BY <1>2 DEF BeginFreeze, Proceeds
  <2>2. call'[p] = [Idle EXCEPT !.step = "scan", !.todo = Labels, !.parent = parent]
    BY <1>2 DEF BeginFreeze, CallsSound
  <2>3. \A q \in Processes \ {p} : call'[q] = call[q]
    BY <1>2 DEF BeginFreeze, CallsSound
  <2>4. dir' = dir /\ bound' = bound
    BY <1>2 DEF BeginFreeze
  <2>5. parent # Absent => Whole(parent)
    BY <1>2 DEF BeginFreeze, Loadable, BuildInv, Built, Whole
  <2>6. Progress(p)'
    BY <2>2, <2>4, <2>5 DEF Progress, Idle, Freezing, Using, Saving, Whole, HasFiles
  <2>7. call'[p].step = "scan"
    BY <2>2 DEF Idle
  <2> QED
    BY <2>3, <2>4, <2>6, <2>7 DEF BuildInv, Built, Progress, Apart, Freezing, Using, Saving, Whole, HasFiles
<1>3. ASSUME NEW p \in Processes, NEW l \in Labels, ScanInput(p, l)
      PROVE  BuildInv'
  <2> DEFINE c == Loop(l, [call[p] EXCEPT !.id[l] = inputs[l]], "exists")
  <2>1. call[p] \in Calls /\ call[p].step = "scan" /\ Progress(p)
    BY <1>3 DEF CallsSound, ScanInput, BuildInv
  <2>2. /\ c.step \in {"scan", "exists"} /\ c.parent = call[p].parent /\ c.state = call[p].state
        /\ c.step = "exists" => c.todo = Labels
    BY <2>1 DEF Loop, Calls
  <2>3. call'[p] = c /\ \A q \in Processes \ {p} : call'[q] = call[q]
    BY <1>3 DEF ScanInput, CallsSound
  <2>4. dir' = dir /\ bound' = bound
    BY <1>3 DEF ScanInput
  <2>5. Progress(p)'
    <3>1. c.parent # Absent =>
              dir'[c.parent].manifest /\ \A m \in Labels : dir'[c.parent].files[m] # Absent
      BY <2>1, <2>2, <2>4 DEF Progress, Whole, HasFiles
    <3>2. c.state = "frozen"
      BY <2>1, <2>2 DEF Progress
    <3> HIDE DEF c
    <3> QED
      BY <2>2, <2>3, <3>1, <3>2 DEF Progress, Whole, HasFiles, Freezing, Using, Saving
  <2> HIDE DEF c
  <2> QED
    BY <2>2, <2>3, <2>4, <2>5 DEF BuildInv, Built, Progress, Apart, Freezing, Using, Saving, Whole, HasFiles
<1>4. ASSUME NEW p \in Processes, CheckExists(p)
      PROVE  BuildInv'
  <2>1. call[p] \in Calls /\ call[p].step = "exists" /\ Progress(p)
    BY <1>4 DEF CallsSound, CheckExists, BuildInv
  <2>2. call'[p] \in {Idle, [call[p] EXCEPT !.step = "mkdir"]}
    BY <1>4 DEF CheckExists, CallsSound, Return, Goto
  <2>3. \A q \in Processes \ {p} : call'[q] = call[q]
    BY <1>4 DEF CheckExists, CallsSound, Return, Goto
  <2>4. dir' = dir /\ bound' = bound
    BY <1>4 DEF CheckExists
  <2>5. Progress(p)'
    BY <2>1, <2>2, <2>4 DEF Progress, Calls, Idle, Freezing, Using, Saving, Whole, HasFiles
  <2>6. call'[p].step \in {"idle", "mkdir"}
    BY <2>1, <2>2 DEF Calls, Idle
  <2> QED
    BY <2>3, <2>4, <2>5, <2>6 DEF BuildInv, Built, Progress, Apart, Freezing, Using, Saving, Whole, HasFiles
<1>5. ASSUME NEW p \in Processes, MakeDirectory(p)
      PROVE  BuildInv'
  <2>0. call[p] \in Calls /\ call[p].id \in Ids /\ Progress(p) /\ Built(call[p].id)
    BY <1>5, Named DEF CallsSound, MakeDirectory, BuildInv
  <2>1. call[p].step = "mkdir"
    BY <1>5 DEF MakeDirectory
  <2>2. \A q \in Processes \ {p} : call'[q] = call[q]
    BY <1>5 DEF MakeDirectory, CallsSound, Return, Goto
  <2>3. CASE dir[call[p].id].made
    <3>1. call'[p] = Idle /\ dir' = dir /\ bound' = bound
      BY <1>5, <2>3 DEF MakeDirectory, Return, CallsSound
    <3> QED
      BY <2>2, <3>1 DEF BuildInv, Built, Progress, Apart, Idle, Freezing, Using, Saving, Whole, HasFiles
  <2>4. CASE ~dir[call[p].id].made
    <3>1. call'[p] = [call[p] EXCEPT !.step = "copy"] /\ bound' = bound
      BY <1>5, <2>4 DEF MakeDirectory, Goto, CallsSound
    <3>2. dir' = [dir EXCEPT ![call[p].id].made = TRUE]
      BY <1>5, <2>4 DEF MakeDirectory
    <3>3. dir'[call[p].id].made /\ \A id \in Ids \ {call[p].id} : dir'[id] = dir[id]
      BY <2>0, <3>2 DEF FilesTyped, Directory
    <3>4. \A id \in Ids : /\ dir'[id].files = dir[id].files /\ dir'[id].manifest = dir[id].manifest
                          /\ dir'[id].digest = dir[id].digest /\ dir'[id].parent = dir[id].parent
                          /\ dir'[id].state = dir[id].state /\ dir'[id].tmp = dir[id].tmp
      BY <2>0, <3>2 DEF FilesTyped, Directory
    <3>5. \A id \in Ids : Whole(id)' <=> Whole(id)
      BY <3>4 DEF Whole, HasFiles
    <3>6. ~dir[call[p].id].manifest /\ call[p].id \notin bound
      BY <2>0, <2>4 DEF Built
    <3>7. ASSUME NEW q \in Processes, q # p, call[q].step \in Freezing \cup Using
          PROVE  call[q].id # call[p].id /\ call[q].id \in Ids
      BY <2>4, <3>6, <3>7, Named DEF BuildInv, Progress, Freezing, Using, Saving
    <3>8. Progress(p)'
      <4>1. call[p].parent # Absent => Whole(call[p].parent) /\ call[p].parent \in Ids
        BY <2>0, <2>1 DEF Progress, Calls
      <4>2. call[p].parent # call[p].id
        BY <2>0, <3>6, <4>1, AbsentAssumption DEF Whole, Ids
      <4>3. call'[p].step = "copy" /\ call'[p].id = call[p].id /\ call'[p].parent = call[p].parent
            /\ call'[p].state = call[p].state /\ call'[p].todo = call[p].todo
        BY <2>0, <3>1 DEF Calls
      <4>4. call[p].todo = Labels /\ call[p].state = "frozen"
        BY <2>0, <2>1 DEF Progress
      <4>5. ~dir'[call[p].id].manifest
        BY <2>0, <3>4, <3>6
      <4>6. call[p].parent # Absent =>
                dir'[call[p].parent].manifest /\ \A l \in Labels : dir'[call[p].parent].files[l] # Absent
        BY <3>4, <4>1 DEF Whole, HasFiles
      <4>7. bound' = bound /\ dir'[call[p].id].made
        BY <3>1, <3>3
      <4> QED
        BY <3>6, <4>2, <4>3, <4>4, <4>5, <4>6, <4>7 DEF Progress, Freezing, Using, Saving, Whole, HasFiles
    <3>9. ASSUME NEW q \in Processes, q # p PROVE Progress(q)'
      <4>1. Progress(q) /\ call'[q] = call[q]
        BY <2>2, <3>9 DEF BuildInv
      <4>2. call[q].parent \in Ids \cup {Absent}
        BY DEF CallsSound, Calls
      <4>3. call[q].step \in Freezing \cup Using => dir'[call[q].id] = dir[call[q].id]
        BY <3>3, <3>7, <3>9
      <4> QED
        BY <3>1, <3>5, <4>1, <4>2, <4>3 DEF Progress, Freezing, Using, Saving, HasFiles
    <3>10. ASSUME NEW id \in Ids PROVE Built(id)'
      <4>1. Built(id)
        BY DEF BuildInv
      <4>2. dir[id].made => dir'[id].made
        BY <3>2, <3>3
      <4>3. HasFiles(id)' <=> HasFiles(id)
        BY <3>4 DEF HasFiles
      <4> QED
        BY <3>1, <3>4, <3>5, <4>1, <4>2, <4>3 DEF Built
    <3>11. call'[p].id = call[p].id /\ call'[p].step = "copy"
      BY <2>0, <3>1 DEF Calls
    <3>12. ASSUME NEW q \in Processes, NEW r \in Processes PROVE Apart(q, r)'
      BY <2>2, <3>7, <3>11 DEF BuildInv, Apart, Freezing, Using, Saving
    <3> QED
      BY <3>8, <3>9, <3>10, <3>12 DEF BuildInv
  <2> QED
    BY <2>3, <2>4
<1>6. ASSUME NEW p \in Processes, NEW l \in Labels, CopyInput(p, l)
      PROVE  BuildInv'
  <2>0. call[p] \in Calls /\ call[p].id \in Ids /\ Progress(p) /\ Built(call[p].id)
    BY <1>6, Named DEF CallsSound, CopyInput, BuildInv
  <2>1. call[p].step = "copy"
    BY <1>6 DEF CopyInput
  <2> DEFINE c == Loop(l, call[p], "manifest")
  <2>2. Proceeds(p, c)
    BY <1>6 DEF CopyInput, Proceeds, Goto
  <2>3. call'[p] = c /\ \A q \in Processes \ {p} : Same(call[q], call'[q])
    BY <2>2, OthersStay
  <2>4. dir' = [dir EXCEPT ![call[p].id] = [dir[call[p].id] EXCEPT !.files[l] = inputs[l]]]
    BY <1>6, <2>0 DEF CopyInput, FilesTyped, Directory
  <2>5. dir'[call[p].id] = [dir[call[p].id] EXCEPT !.files[l] = inputs[l]] /\ \A id \in Ids \ {call[p].id} : dir'[id] = dir[id]
    BY <2>0, <2>4 DEF FilesTyped
  <2>6. dir[call[p].id] \in Directory /\ inputs \in Ids /\ bound' = bound
    BY <1>6, <2>0 DEF CopyInput, FilesTyped
  <2>7. c.id = call[p].id /\ c.parent = call[p].parent /\ c.state = call[p].state
    BY <2>0, LoopTyped DEF Calls, Loop
  <2>8. c.step \in {"copy", "manifest"}
    BY <2>0, <2>1 DEF Calls, Loop
  <2>9. c.step = "copy" => c.todo = call[p].todo \ {l}
    BY <1>6, <2>0, <2>1 DEF Calls, Loop, CopyInput
  <2>10. c.step = "manifest" => c.todo = Labels /\ call[p].todo = {l}
    BY <2>0, <2>1 DEF Calls, Loop
  <2> HIDE DEF c
  <2>11. /\ dir'[call[p].id].made = dir[call[p].id].made
         /\ dir'[call[p].id].manifest = dir[call[p].id].manifest
         /\ dir'[call[p].id].digest = dir[call[p].id].digest
         /\ dir'[call[p].id].parent = dir[call[p].id].parent
         /\ dir'[call[p].id].state = dir[call[p].id].state
         /\ dir'[call[p].id].tmp = dir[call[p].id].tmp
    BY <2>5, <2>6 DEF Directory
  <2>12. \A m \in Labels : dir'[call[p].id].files[m] = IF m = l THEN inputs[l] ELSE dir[call[p].id].files[m]
    BY <2>5, <2>6 DEF Directory, Parts
  <2>13. inputs[l] # Absent
    BY <2>6, AbsentAssumption DEF Ids
  <2>14. \A m \in Labels : dir[call[p].id].files[m] # Absent => dir'[call[p].id].files[m] # Absent
    BY <2>12, <2>13
  <2>15. ~dir[call[p].id].manifest
    BY <2>0, <2>1 DEF Progress
  <2>16. Built(call[p].id)'
    BY <2>0, <2>3, <2>6, <2>7, <2>11, <2>15 DEF Built
  <2>17. c.parent # Absent =>
             dir'[c.parent].manifest /\ \A m \in Labels : dir'[c.parent].files[m] # Absent
    <3>1. call[p].parent # Absent => Whole(call[p].parent) /\ call[p].parent \in Ids \ {call[p].id}
      BY <2>0, <2>1 DEF Progress, Freezing, Calls
    <3> QED
      BY <2>5, <2>7, <3>1 DEF Whole, HasFiles
  <2>18. \A m \in Labels \ call[p].todo : dir[call[p].id].files[m] # Absent
    BY <2>0, <2>1 DEF Progress
  <2>19. c.step = "copy" => \A m \in Labels \ c.todo : dir'[c.id].files[m] # Absent
    BY <2>7, <2>9, <2>12, <2>13, <2>18
  <2>20. c.step = "manifest" => \A m \in Labels : dir'[c.id].files[m] # Absent
    BY <2>7, <2>10, <2>12, <2>13, <2>18
  <2>21. Progress(p)'
    BY <2>0, <2>1, <2>3, <2>6, <2>7, <2>8, <2>10, <2>11, <2>15, <2>17, <2>19, <2>20
       DEF Progress, Freezing, Using, Saving, Whole, HasFiles
  <2>22. Builds(p)
    BY <2>1, <2>3, <2>5, <2>6, <2>7, <2>8, <2>11, <2>14 DEF Builds, Freezing
  <2> QED
    BY <2>16, <2>21, <2>22, BuildAlone
<1>7. ASSUME NEW p \in Processes, WriteManifest(p)
      PROVE  BuildInv'
  <2>0. call[p] \in Calls /\ call[p].id \in Ids /\ Progress(p) /\ Built(call[p].id)
    BY <1>7, Named DEF CallsSound, WriteManifest, BuildInv
  <2>1. call[p].step = "manifest"
    BY <1>7 DEF WriteManifest
  <2> DEFINE c == [call[p] EXCEPT !.step = "digest"]
  <2>2. Proceeds(p, c)
    BY <1>7 DEF WriteManifest, Proceeds, Goto
  <2>3. call'[p] = c /\ \A q \in Processes \ {p} : Same(call[q], call'[q])
    BY <2>2, OthersStay
  <2>4. dir' = [dir EXCEPT ![call[p].id] = [dir[call[p].id] EXCEPT !.manifest = TRUE, !.parent = call[p].parent]]
    BY <1>7, <2>0 DEF WriteManifest, FilesTyped, Directory
  <2>5. dir'[call[p].id] = [dir[call[p].id] EXCEPT !.manifest = TRUE, !.parent = call[p].parent] /\ \A id \in Ids \ {call[p].id} : dir'[id] = dir[id]
    BY <2>0, <2>4 DEF FilesTyped
  <2>6. dir[call[p].id] \in Directory /\ inputs \in Ids /\ bound' = bound
    BY <1>7, <2>0 DEF WriteManifest, FilesTyped
  <2>7. c.id = call[p].id /\ c.parent = call[p].parent /\ c.state = call[p].state
    BY <2>0 DEF Calls, Loop
  <2>8. c.step = "digest" /\ c.todo = call[p].todo
    BY <2>0 DEF Calls
  <2> HIDE DEF c
  <2>9. Whole(call[p].id) \/ (call[p].step = "manifest" /\ HasFiles(call[p].id))
    BY <2>0, <2>1 DEF Progress, Built, Whole
  <2>10. dir'[call[p].id].files = dir[call[p].id].files /\ dir'[call[p].id].made = dir[call[p].id].made
    BY <2>5, <2>6 DEF Directory
  <2>11. /\ HasFiles(call[p].id) /\ dir[call[p].id].made /\ call[p].id \notin bound
         /\ \A m \in Labels : dir'[call[p].id].files[m] # Absent
    BY <2>0, <2>1, <2>7, <2>9, <2>10 DEF Progress, Freezing, HasFiles, Whole
  <2>12. dir'[call[p].id].manifest /\ dir'[call[p].id].parent = call[p].parent
    BY <2>0, <2>1, <2>5, <2>6 DEF Directory, Progress
  <2>13. call[p].parent # Absent => Whole(call[p].parent) /\ call[p].parent \in Ids \ {call[p].id}
    BY <2>0, <2>1 DEF Progress, Freezing, Calls
  <2>14. dir[call[p].id].manifest /\ dir[call[p].id].parent # Absent =>
             dir[call[p].id].parent \in Ids \ {call[p].id} /\ Whole(dir[call[p].id].parent)
    BY <2>0 DEF Built
  <2>15. \A id \in Ids \ {call[p].id} : Whole(id) => Whole(id)'
    BY <2>5 DEF Whole, HasFiles
  <2>16. Built(call[p].id)'
    <3>1. call'[p].id = call[p].id
      BY <2>3, <2>7
    <3>2. dir'[call[p].id].made /\ \A m \in Labels : dir'[call[p].id].files[m] # Absent
      BY <2>10, <2>11
    <3>3. dir'[call[p].id].parent # Absent =>
              /\ dir'[call[p].id].parent \in Ids \ {call[p].id}
              /\ Whole(dir'[call[p].id].parent)
      BY <2>12, <2>13
    <3>4. dir'[call[p].id].parent # Absent =>
              /\ dir'[dir'[call[p].id].parent].manifest
              /\ \A m \in Labels : dir'[dir'[call[p].id].parent].files[m] # Absent
      BY <2>5, <3>3 DEF Whole, HasFiles
    <3> QED
      BY <2>12, <3>1, <3>2, <3>3, <3>4 DEF Built, Whole, HasFiles
  <2>17. dir'[call[p].id].state = Absent
    BY <2>0, <2>1, <2>5, <2>6 DEF Directory, Progress, Built
  <2>18. Progress(p)'
    <3>1. call'[p] = c /\ bound' = bound
      BY <2>3, <2>6
    <3>2. c.parent # Absent =>
              dir'[c.parent].manifest /\ \A m \in Labels : dir'[c.parent].files[m] # Absent
      BY <2>5, <2>7, <2>13 DEF Whole, HasFiles
    <3>3. c.state = "frozen" /\ c.todo = Labels /\ c.parent # c.id
      BY <2>0, <2>1, <2>7, <2>8 DEF Progress, Freezing
    <3>4. dir'[c.id].made /\ c.id \notin bound /\ dir'[c.id].manifest /\ dir'[c.id].state = Absent
      BY <2>7, <2>10, <2>11, <2>12, <2>17
    <3> QED
      BY <2>8, <3>1, <3>2, <3>3, <3>4 DEF Progress, Whole, HasFiles, Freezing, Using, Saving
  <2>19. Builds(p)
    BY <2>1, <2>3, <2>5, <2>6, <2>7, <2>8, <2>10, <2>12 DEF Builds, Freezing
  <2> QED
    BY <2>16, <2>18, <2>19, BuildAlone
<1>8. ASSUME NEW p \in Processes, WriteDigest(p)
      PROVE  BuildInv'
  <2>0. call[p] \in Calls /\ call[p].id \in Ids /\ Progress(p) /\ Built(call[p].id)
    BY <1>8, Named DEF CallsSound, WriteDigest, BuildInv
  <2>1. call[p].step = "digest"
    BY <1>8 DEF WriteDigest
  <2> DEFINE c == [call[p] EXCEPT !.step = "create"]
  <2>2. Proceeds(p, c)
    BY <1>8 DEF WriteDigest, Proceeds, Goto
  <2>3. call'[p] = c /\ \A q \in Processes \ {p} : Same(call[q], call'[q])
    BY <2>2, OthersStay
  <2>4. dir' = [dir EXCEPT ![call[p].id] = [dir[call[p].id] EXCEPT !.digest = TRUE]]
    BY <1>8, <2>0 DEF WriteDigest, FilesTyped, Directory
  <2>5. dir'[call[p].id] = [dir[call[p].id] EXCEPT !.digest = TRUE] /\ \A id \in Ids \ {call[p].id} : dir'[id] = dir[id]
    BY <2>0, <2>4 DEF FilesTyped
  <2>6. dir[call[p].id] \in Directory /\ inputs \in Ids /\ bound' = bound
    BY <1>8, <2>0 DEF WriteDigest, FilesTyped
  <2>7. c.id = call[p].id /\ c.parent = call[p].parent /\ c.state = call[p].state
    BY <2>0 DEF Calls, Loop
  <2>8. c.step = "create" /\ c.todo = call[p].todo
    BY <2>0 DEF Calls
  <2> HIDE DEF c
  <2>9. Whole(call[p].id) \/ (call[p].step = "manifest" /\ HasFiles(call[p].id))
    BY <2>0, <2>1 DEF Progress, Built, Whole
  <2>10. dir'[call[p].id].files = dir[call[p].id].files /\ dir'[call[p].id].made = dir[call[p].id].made
    BY <2>5, <2>6 DEF Directory
  <2>11. /\ HasFiles(call[p].id) /\ dir[call[p].id].made /\ call[p].id \notin bound
         /\ \A m \in Labels : dir'[call[p].id].files[m] # Absent
    BY <2>0, <2>1, <2>7, <2>9, <2>10 DEF Progress, Freezing, HasFiles, Whole
  <2>12. dir'[call[p].id].manifest /\ dir'[call[p].id].parent = dir[call[p].id].parent
    BY <2>0, <2>1, <2>5, <2>6 DEF Directory, Progress
  <2>13. call[p].parent # Absent => Whole(call[p].parent) /\ call[p].parent \in Ids \ {call[p].id}
    BY <2>0, <2>1 DEF Progress, Freezing, Calls
  <2>14. dir[call[p].id].manifest /\ dir[call[p].id].parent # Absent =>
             dir[call[p].id].parent \in Ids \ {call[p].id} /\ Whole(dir[call[p].id].parent)
    BY <2>0 DEF Built
  <2>15. \A id \in Ids \ {call[p].id} : Whole(id) => Whole(id)'
    BY <2>5 DEF Whole, HasFiles
  <2>16. Built(call[p].id)'
    <3>1. call'[p].id = call[p].id
      BY <2>3, <2>7
    <3>2. dir'[call[p].id].made /\ \A m \in Labels : dir'[call[p].id].files[m] # Absent
      BY <2>10, <2>11
    <3>3. dir'[call[p].id].parent # Absent =>
              /\ dir'[call[p].id].parent \in Ids \ {call[p].id}
              /\ Whole(dir'[call[p].id].parent)
      BY <2>0, <2>1, <2>12, <2>14 DEF Progress
    <3>4. dir'[call[p].id].parent # Absent =>
              /\ dir'[dir'[call[p].id].parent].manifest
              /\ \A m \in Labels : dir'[dir'[call[p].id].parent].files[m] # Absent
      BY <2>5, <3>3 DEF Whole, HasFiles
    <3> QED
      BY <2>12, <3>1, <3>2, <3>3, <3>4 DEF Built, Whole, HasFiles
  <2>17. dir'[call[p].id].state = Absent
    BY <2>0, <2>1, <2>5, <2>6 DEF Directory, Progress, Built
  <2>18. Progress(p)'
    <3>1. call'[p] = c /\ bound' = bound
      BY <2>3, <2>6
    <3>2. c.parent # Absent =>
              dir'[c.parent].manifest /\ \A m \in Labels : dir'[c.parent].files[m] # Absent
      BY <2>5, <2>7, <2>13 DEF Whole, HasFiles
    <3>3. c.state = "frozen" /\ c.todo = Labels /\ c.parent # c.id
      BY <2>0, <2>1, <2>7, <2>8 DEF Progress, Freezing
    <3>4. dir'[c.id].made /\ c.id \notin bound /\ dir'[c.id].manifest /\ dir'[c.id].state = Absent
      BY <2>7, <2>10, <2>11, <2>12, <2>17
    <3> QED
      BY <2>8, <3>1, <3>2, <3>3, <3>4 DEF Progress, Whole, HasFiles, Freezing, Using, Saving
  <2>19. Builds(p)
    BY <2>1, <2>3, <2>5, <2>6, <2>7, <2>8, <2>10, <2>12 DEF Builds, Freezing
  <2> QED
    BY <2>16, <2>18, <2>19, BuildAlone
<1>9. ASSUME NEW p \in Processes, CreateState(p)
      PROVE  BuildInv'
  <2>0. call[p] \in Calls /\ call[p].id \in Ids /\ Progress(p) /\ Built(call[p].id)
    BY <1>9, Named DEF CallsSound, CreateState, BuildInv
  <2>1. call[p].step = "create"
    BY <1>9 DEF CreateState
  <2> DEFINE c == [call[p] EXCEPT !.step = "initial"]
  <2>2. Proceeds(p, c)
    BY <1>9 DEF CreateState, Proceeds, Goto
  <2>3. call'[p] = c /\ \A q \in Processes \ {p} : Same(call[q], call'[q])
    BY <2>2, OthersStay
  <2>4. dir' = [dir EXCEPT ![call[p].id] = [dir[call[p].id] EXCEPT !.state = "torn"]]
    BY <1>9, <2>0 DEF CreateState, FilesTyped, Directory
  <2>5. dir'[call[p].id] = [dir[call[p].id] EXCEPT !.state = "torn"] /\ \A id \in Ids \ {call[p].id} : dir'[id] = dir[id]
    BY <2>0, <2>4 DEF FilesTyped
  <2>6. dir[call[p].id] \in Directory /\ inputs \in Ids /\ bound' = bound
    BY <1>9, <2>0 DEF CreateState, FilesTyped
  <2>7. c.id = call[p].id /\ c.parent = call[p].parent /\ c.state = call[p].state
    BY <2>0 DEF Calls, Loop
  <2>8. c.step = "initial" /\ c.todo = call[p].todo
    BY <2>0 DEF Calls
  <2> HIDE DEF c
  <2>9. Whole(call[p].id) \/ (call[p].step = "manifest" /\ HasFiles(call[p].id))
    BY <2>0, <2>1 DEF Progress, Built, Whole
  <2>10. dir'[call[p].id].files = dir[call[p].id].files /\ dir'[call[p].id].made = dir[call[p].id].made
    BY <2>5, <2>6 DEF Directory
  <2>11. /\ HasFiles(call[p].id) /\ dir[call[p].id].made /\ call[p].id \notin bound
         /\ \A m \in Labels : dir'[call[p].id].files[m] # Absent
    BY <2>0, <2>1, <2>7, <2>9, <2>10 DEF Progress, Freezing, HasFiles, Whole
  <2>12. dir'[call[p].id].manifest /\ dir'[call[p].id].parent = dir[call[p].id].parent
    BY <2>0, <2>1, <2>5, <2>6 DEF Directory, Progress
  <2>13. call[p].parent # Absent => Whole(call[p].parent) /\ call[p].parent \in Ids \ {call[p].id}
    BY <2>0, <2>1 DEF Progress, Freezing, Calls
  <2>14. dir[call[p].id].manifest /\ dir[call[p].id].parent # Absent =>
             dir[call[p].id].parent \in Ids \ {call[p].id} /\ Whole(dir[call[p].id].parent)
    BY <2>0 DEF Built
  <2>15. \A id \in Ids \ {call[p].id} : Whole(id) => Whole(id)'
    BY <2>5 DEF Whole, HasFiles
  <2>16. Built(call[p].id)'
    <3>1. call'[p].id = call[p].id
      BY <2>3, <2>7
    <3>2. dir'[call[p].id].made /\ \A m \in Labels : dir'[call[p].id].files[m] # Absent
      BY <2>10, <2>11
    <3>3. dir'[call[p].id].parent # Absent =>
              /\ dir'[call[p].id].parent \in Ids \ {call[p].id}
              /\ Whole(dir'[call[p].id].parent)
      BY <2>0, <2>1, <2>12, <2>14 DEF Progress
    <3>4. dir'[call[p].id].parent # Absent =>
              /\ dir'[dir'[call[p].id].parent].manifest
              /\ \A m \in Labels : dir'[dir'[call[p].id].parent].files[m] # Absent
      BY <2>5, <3>3 DEF Whole, HasFiles
    <3> QED
      BY <2>12, <3>1, <3>2, <3>3, <3>4 DEF Built, Whole, HasFiles
  <2>17. dir'[call[p].id].state = "torn"
    BY <2>0, <2>1, <2>5, <2>6 DEF Directory, Progress, Built
  <2>18. Progress(p)'
    <3>1. call'[p] = c /\ bound' = bound
      BY <2>3, <2>6
    <3>2. c.parent # Absent =>
              dir'[c.parent].manifest /\ \A m \in Labels : dir'[c.parent].files[m] # Absent
      BY <2>5, <2>7, <2>13 DEF Whole, HasFiles
    <3>3. c.state = "frozen" /\ c.todo = Labels /\ c.parent # c.id
      BY <2>0, <2>1, <2>7, <2>8 DEF Progress, Freezing
    <3>4. dir'[c.id].made /\ c.id \notin bound /\ dir'[c.id].manifest /\ dir'[c.id].state = "torn"
      BY <2>7, <2>10, <2>11, <2>12, <2>17
    <3> QED
      BY <2>8, <3>1, <3>2, <3>3, <3>4 DEF Progress, Whole, HasFiles, Freezing, Using, Saving
  <2>19. Builds(p)
    BY <2>1, <2>3, <2>5, <2>6, <2>7, <2>8, <2>10, <2>12 DEF Builds, Freezing
  <2> QED
    BY <2>16, <2>18, <2>19, BuildAlone
<1>10. ASSUME NEW p \in Processes, InitialState(p)
      PROVE  BuildInv'
  <2>0. call[p] \in Calls /\ call[p].id \in Ids /\ Progress(p) /\ Built(call[p].id)
    BY <1>10, Named DEF CallsSound, InitialState, BuildInv
  <2>1. call[p].step = "initial"
    BY <1>10 DEF InitialState
  <2> DEFINE c == [call[p] EXCEPT !.step = "verify", !.alone = TRUE]
  <2>2. Proceeds(p, c)
    BY <1>10 DEF InitialState, Proceeds, Goto
  <2>3. call'[p] = c /\ \A q \in Processes \ {p} : Same(call[q], call'[q])
    BY <2>2, OthersStay
  <2>4. dir' = [dir EXCEPT ![call[p].id] = [dir[call[p].id] EXCEPT !.state = "frozen"]]
    BY <1>10, <2>0 DEF InitialState, FilesTyped, Directory
  <2>5. dir'[call[p].id] = [dir[call[p].id] EXCEPT !.state = "frozen"] /\ \A id \in Ids \ {call[p].id} : dir'[id] = dir[id]
    BY <2>0, <2>4 DEF FilesTyped
  <2>6. dir[call[p].id] \in Directory /\ inputs \in Ids /\ bound' = bound
    BY <1>10, <2>0 DEF InitialState, FilesTyped
  <2>7. c.id = call[p].id /\ c.parent = call[p].parent /\ c.state = call[p].state
    BY <2>0 DEF Calls, Loop
  <2>8. c.step = "verify" /\ c.todo = call[p].todo
    BY <2>0 DEF Calls
  <2> HIDE DEF c
  <2>9. Whole(call[p].id) \/ (call[p].step = "manifest" /\ HasFiles(call[p].id))
    BY <2>0, <2>1 DEF Progress, Built, Whole
  <2>10. dir'[call[p].id].files = dir[call[p].id].files /\ dir'[call[p].id].made = dir[call[p].id].made
    BY <2>5, <2>6 DEF Directory
  <2>11. /\ HasFiles(call[p].id) /\ dir[call[p].id].made /\ call[p].id \notin bound
         /\ \A m \in Labels : dir'[call[p].id].files[m] # Absent
    BY <2>0, <2>1, <2>7, <2>9, <2>10 DEF Progress, Freezing, HasFiles, Whole
  <2>12. dir'[call[p].id].manifest /\ dir'[call[p].id].parent = dir[call[p].id].parent
    BY <2>0, <2>1, <2>5, <2>6 DEF Directory, Progress
  <2>13. call[p].parent # Absent => Whole(call[p].parent) /\ call[p].parent \in Ids \ {call[p].id}
    BY <2>0, <2>1 DEF Progress, Freezing, Calls
  <2>14. dir[call[p].id].manifest /\ dir[call[p].id].parent # Absent =>
             dir[call[p].id].parent \in Ids \ {call[p].id} /\ Whole(dir[call[p].id].parent)
    BY <2>0 DEF Built
  <2>15. \A id \in Ids \ {call[p].id} : Whole(id) => Whole(id)'
    BY <2>5 DEF Whole, HasFiles
  <2>16. Built(call[p].id)'
    <3>1. call'[p].id = call[p].id
      BY <2>3, <2>7
    <3>2. dir'[call[p].id].made /\ \A m \in Labels : dir'[call[p].id].files[m] # Absent
      BY <2>10, <2>11
    <3>3. dir'[call[p].id].parent # Absent =>
              /\ dir'[call[p].id].parent \in Ids \ {call[p].id}
              /\ Whole(dir'[call[p].id].parent)
      BY <2>0, <2>1, <2>12, <2>14 DEF Progress
    <3>4. dir'[call[p].id].parent # Absent =>
              /\ dir'[dir'[call[p].id].parent].manifest
              /\ \A m \in Labels : dir'[dir'[call[p].id].parent].files[m] # Absent
      BY <2>5, <3>3 DEF Whole, HasFiles
    <3> QED
      BY <2>12, <3>1, <3>2, <3>3, <3>4 DEF Built, Whole, HasFiles
  <2>18. Progress(p)'
    <3>1. call'[p] = c /\ bound' = bound
      BY <2>3, <2>6
    <3>2. c.parent # Absent =>
              dir'[c.parent].manifest /\ \A m \in Labels : dir'[c.parent].files[m] # Absent
      BY <2>5, <2>7, <2>13 DEF Whole, HasFiles
    <3>3. c.state = "frozen" /\ c.todo = Labels /\ c.parent # c.id
      BY <2>0, <2>1, <2>7, <2>8 DEF Progress, Freezing
    <3>4. dir'[c.id].made /\ c.id \notin bound /\ dir'[c.id].manifest
      BY <2>7, <2>10, <2>11, <2>12
    <3> QED
      BY <2>8, <3>1, <3>2, <3>3, <3>4 DEF Progress, Whole, HasFiles, Freezing, Using, Saving
  <2>19. Builds(p)
    BY <2>1, <2>3, <2>5, <2>6, <2>7, <2>8, <2>10, <2>12 DEF Builds, Freezing
  <2> QED
    BY <2>16, <2>18, <2>19, BuildAlone
<1>11. ASSUME NEW p \in Processes, NEW op \in Operations, NEW id \in Ids, BeginUse(p, op, id)
      PROVE  BuildInv'
  <2> DEFINE c == [Idle EXCEPT !.op = op, !.step = "verify", !.id = id,
                             !.todo = Labels, !.state = dir[id].state, !.alone = TRUE]
  <2>1. Proceeds(p, c)
    BY <1>11 DEF BeginUse, Proceeds
  <2>2. call'[p] = c /\ \A q \in Processes \ {p} : Same(call[q], call'[q])
    BY <2>1, OthersStay
  <2>3. c.step = "verify" /\ c.id = id
    BY DEF Idle
  <2>4. id \in bound /\ dir[id].manifest /\ dir' = dir /\ bound' = bound
    BY <1>11 DEF BeginUse, Loadable
  <2>5. \A q \in Processes : call[q].step \in Freezing => call[q].id # id
    BY <2>4 DEF BuildInv, Progress
  <2>6. Tame(p)
    BY <2>2, <2>3, <2>4, <2>5 DEF Tame, Using, Saving
  <2> QED
    BY <2>6, BuildTame
<1>12. ASSUME NEW p \in Processes, NEW l \in Labels, VerifyInput(p, l)
      PROVE  BuildInv'
  <2>0. call[p] \in Calls /\ call[p].id \in Ids /\ Progress(p) /\ Built(call[p].id)
    BY <1>12, Named DEF CallsSound, VerifyInput, BuildInv
  <2>1. call[p].step \in Using
    BY <1>12 DEF VerifyInput, Using, Saving
  <2>2. PICK c \in {Loop(l, call[p], "decide"), [call[p] EXCEPT !.state = "corrupt", !.step = "open"]} : Proceeds(p, c)
    BY <1>12, <2>0 DEF VerifyInput, Proceeds, Goto, Return
  <2>3. c.step # "idle" =>
            /\ c.step \in Using /\ c.id = call[p].id
            /\ c.step \in {"decide", "zip", "hash"} => c.todo = Labels
    BY <1>12, <2>0, IdleStep DEF VerifyInput, Progress, Calls, Loop, Using, Saving
  <2>4. call'[p] = c /\ \A q \in Processes \ {p} : Same(call[q], call'[q])
    BY <2>2, OthersStay
  <2>5. call'[p].step # "idle" =>
            /\ call'[p].step \in Using /\ call'[p].id = call[p].id
            /\ call'[p].step \in {"decide", "zip", "hash"} => call'[p].todo = Labels
    BY <2>3, <2>4
  <2>6. dir[call[p].id].manifest
    BY <2>0, <2>1 DEF Progress
  <2>7. \A q \in Processes \ {p} : call[q].id = call[p].id => call[q].step \notin Freezing
    BY <2>1 DEF BuildInv, Apart
  <2>8. Tame(p)
    BY <1>12, <2>0, <2>4, <2>5, <2>6, <2>7 DEF VerifyInput, Tame
  <2> QED
    BY <2>8, BuildTame
<1>13. ASSUME NEW p \in Processes, BindFrozen(p)
      PROVE  BuildInv'
  <2>0. call[p] \in Calls /\ call[p].id \in Ids /\ Progress(p) /\ Built(call[p].id)
    BY <1>13, Named DEF CallsSound, BindFrozen, BuildInv
  <2>1. call[p].step \in Using
    BY <1>13 DEF BindFrozen, Using, Saving
  <2>2. PICK c \in {Idle} : Proceeds(p, c)
    BY <1>13, <2>0 DEF BindFrozen, Proceeds, Goto, Return
  <2>3. c.step # "idle" =>
            /\ c.step \in Using /\ c.id = call[p].id
            /\ c.step \in {"decide", "zip", "hash"} => c.todo = Labels
    BY <1>13, <2>0, IdleStep DEF BindFrozen, Progress, Calls, Loop, Using, Saving
  <2>4. call'[p] = c /\ \A q \in Processes \ {p} : Same(call[q], call'[q])
    BY <2>2, OthersStay
  <2>5. call'[p].step # "idle" =>
            /\ call'[p].step \in Using /\ call'[p].id = call[p].id
            /\ call'[p].step \in {"decide", "zip", "hash"} => call'[p].todo = Labels
    BY <2>3, <2>4
  <2>6. dir[call[p].id].manifest
    BY <2>0, <2>1 DEF Progress
  <2>7. \A q \in Processes \ {p} : call[q].id = call[p].id => call[q].step \notin Freezing
    BY <2>1 DEF BuildInv, Apart
  <2>8. dir' = dir /\ bound' = bound \cup {call[p].id}
    BY <1>13 DEF BindFrozen
  <2>9. Tame(p)
    BY <2>0, <2>4, <2>5, <2>6, <2>7, <2>8 DEF Tame
  <2> QED
    BY <2>9, BuildTame
<1>14. ASSUME NEW p \in Processes, RecordEvidence(p)
      PROVE  BuildInv'
  <2>0. call[p] \in Calls /\ call[p].id \in Ids /\ Progress(p) /\ Built(call[p].id)
    BY <1>14, Named DEF CallsSound, RecordEvidence, BuildInv
  <2>1. call[p].step \in Using
    BY <1>14 DEF RecordEvidence, Using, Saving
  <2>2. PICK c \in {[call[p] EXCEPT !.state = "verifying", !.step = "open"], Idle} : Proceeds(p, c)
    BY <1>14, <2>0 DEF RecordEvidence, Proceeds, Goto, Return
  <2>3. c.step # "idle" =>
            /\ c.step \in Using /\ c.id = call[p].id
            /\ c.step \in {"decide", "zip", "hash"} => c.todo = Labels
    BY <1>14, <2>0, IdleStep DEF RecordEvidence, Progress, Calls, Loop, Using, Saving
  <2>4. call'[p] = c /\ \A q \in Processes \ {p} : Same(call[q], call'[q])
    BY <2>2, OthersStay
  <2>5. call'[p].step # "idle" =>
            /\ call'[p].step \in Using /\ call'[p].id = call[p].id
            /\ call'[p].step \in {"decide", "zip", "hash"} => call'[p].todo = Labels
    BY <2>3, <2>4
  <2>6. dir[call[p].id].manifest
    BY <2>0, <2>1 DEF Progress
  <2>7. \A q \in Processes \ {p} : call[q].id = call[p].id => call[q].step \notin Freezing
    BY <2>1 DEF BuildInv, Apart
  <2>8. Tame(p)
    BY <1>14, <2>0, <2>4, <2>5, <2>6, <2>7 DEF RecordEvidence, Tame
  <2> QED
    BY <2>8, BuildTame
<1>15. ASSUME NEW p \in Processes, ApproveCandidate(p)
      PROVE  BuildInv'
  <2>0. call[p] \in Calls /\ call[p].id \in Ids /\ Progress(p) /\ Built(call[p].id)
    BY <1>15, Named DEF CallsSound, ApproveCandidate, BuildInv
  <2>1. call[p].step \in Using
    BY <1>15 DEF ApproveCandidate, Using, Saving
  <2>2. PICK c \in {[call[p] EXCEPT !.state = "approved", !.step = "open"], Idle} : Proceeds(p, c)
    BY <1>15, <2>0 DEF ApproveCandidate, Proceeds, Goto, Return
  <2>3. c.step # "idle" =>
            /\ c.step \in Using /\ c.id = call[p].id
            /\ c.step \in {"decide", "zip", "hash"} => c.todo = Labels
    BY <1>15, <2>0, IdleStep DEF ApproveCandidate, Progress, Calls, Loop, Using, Saving
  <2>4. call'[p] = c /\ \A q \in Processes \ {p} : Same(call[q], call'[q])
    BY <2>2, OthersStay
  <2>5. call'[p].step # "idle" =>
            /\ call'[p].step \in Using /\ call'[p].id = call[p].id
            /\ call'[p].step \in {"decide", "zip", "hash"} => call'[p].todo = Labels
    BY <2>3, <2>4
  <2>6. dir[call[p].id].manifest
    BY <2>0, <2>1 DEF Progress
  <2>7. \A q \in Processes \ {p} : call[q].id = call[p].id => call[q].step \notin Freezing
    BY <2>1 DEF BuildInv, Apart
  <2>8. Tame(p)
    BY <1>15, <2>0, <2>4, <2>5, <2>6, <2>7 DEF ApproveCandidate, Tame
  <2> QED
    BY <2>8, BuildTame
<1>16. ASSUME NEW p \in Processes, BeginPackage(p)
      PROVE  BuildInv'
  <2>0. call[p] \in Calls /\ call[p].id \in Ids /\ Progress(p) /\ Built(call[p].id)
    BY <1>16, Named DEF CallsSound, BeginPackage, BuildInv
  <2>1. call[p].step \in Using
    BY <1>16 DEF BeginPackage, Using, Saving
  <2>2. PICK c \in {[call[p] EXCEPT !.step = "recheck", !.clean = TRUE], Idle} : Proceeds(p, c)
    BY <1>16, <2>0 DEF BeginPackage, Proceeds, Goto, Return
  <2>3. c.step # "idle" =>
            /\ c.step \in Using /\ c.id = call[p].id
            /\ c.step \in {"decide", "zip", "hash"} => c.todo = Labels
    BY <1>16, <2>0, IdleStep DEF BeginPackage, Progress, Calls, Loop, Using, Saving
  <2>4. call'[p] = c /\ \A q \in Processes \ {p} : Same(call[q], call'[q])
    BY <2>2, OthersStay
  <2>5. call'[p].step # "idle" =>
            /\ call'[p].step \in Using /\ call'[p].id = call[p].id
            /\ call'[p].step \in {"decide", "zip", "hash"} => call'[p].todo = Labels
    BY <2>3, <2>4
  <2>6. dir[call[p].id].manifest
    BY <2>0, <2>1 DEF Progress
  <2>7. \A q \in Processes \ {p} : call[q].id = call[p].id => call[q].step \notin Freezing
    BY <2>1 DEF BuildInv, Apart
  <2>8. Tame(p)
    BY <1>16, <2>0, <2>4, <2>5, <2>6, <2>7 DEF BeginPackage, Tame
  <2> QED
    BY <2>8, BuildTame
<1>17. ASSUME NEW p \in Processes, NEW l \in Labels, RecheckInput(p, l)
      PROVE  BuildInv'
  <2>0. call[p] \in Calls /\ call[p].id \in Ids /\ Progress(p) /\ Built(call[p].id)
    BY <1>17, Named DEF CallsSound, RecheckInput, BuildInv
  <2>1. call[p].step \in Using
    BY <1>17 DEF RecheckInput, Using, Saving
  <2>2. PICK c \in {Loop(l, call[p], "zip"), Idle} : Proceeds(p, c)
    BY <1>17, <2>0 DEF RecheckInput, Proceeds, Goto, Return
  <2>3. c.step # "idle" =>
            /\ c.step \in Using /\ c.id = call[p].id
            /\ c.step \in {"decide", "zip", "hash"} => c.todo = Labels
    BY <1>17, <2>0, IdleStep DEF RecheckInput, Progress, Calls, Loop, Using, Saving
  <2>4. call'[p] = c /\ \A q \in Processes \ {p} : Same(call[q], call'[q])
    BY <2>2, OthersStay
  <2>5. call'[p].step # "idle" =>
            /\ call'[p].step \in Using /\ call'[p].id = call[p].id
            /\ call'[p].step \in {"decide", "zip", "hash"} => call'[p].todo = Labels
    BY <2>3, <2>4
  <2>6. dir[call[p].id].manifest
    BY <2>0, <2>1 DEF Progress
  <2>7. \A q \in Processes \ {p} : call[q].id = call[p].id => call[q].step \notin Freezing
    BY <2>1 DEF BuildInv, Apart
  <2>8. Tame(p)
    BY <1>17, <2>0, <2>4, <2>5, <2>6, <2>7 DEF RecheckInput, Tame
  <2> QED
    BY <2>8, BuildTame
<1>18. ASSUME NEW p \in Processes, OpenPackage(p)
      PROVE  BuildInv'
  <2>0. call[p] \in Calls /\ call[p].id \in Ids /\ Progress(p) /\ Built(call[p].id)
    BY <1>18, Named DEF CallsSound, OpenPackage, BuildInv
  <2>1. call[p].step \in Using
    BY <1>18 DEF OpenPackage, Using, Saving
  <2>2. PICK c \in {[call[p] EXCEPT !.step = "pack", !.state = "packaging"]} : Proceeds(p, c)
    BY <1>18, <2>0 DEF OpenPackage, Proceeds, Goto, Return
  <2>3. c.step # "idle" =>
            /\ c.step \in Using /\ c.id = call[p].id
            /\ c.step \in {"decide", "zip", "hash"} => c.todo = Labels
    BY <1>18, <2>0, IdleStep DEF OpenPackage, Progress, Calls, Loop, Using, Saving
  <2>4. call'[p] = c /\ \A q \in Processes \ {p} : Same(call[q], call'[q])
    BY <2>2, OthersStay
  <2>5. call'[p].step # "idle" =>
            /\ call'[p].step \in Using /\ call'[p].id = call[p].id
            /\ call'[p].step \in {"decide", "zip", "hash"} => call'[p].todo = Labels
    BY <2>3, <2>4
  <2>6. dir[call[p].id].manifest
    BY <2>0, <2>1 DEF Progress
  <2>7. \A q \in Processes \ {p} : call[q].id = call[p].id => call[q].step \notin Freezing
    BY <2>1 DEF BuildInv, Apart
  <2>8. Tame(p)
    BY <1>18, <2>0, <2>4, <2>5, <2>6, <2>7 DEF OpenPackage, Tame
  <2> QED
    BY <2>8, BuildTame
<1>19. ASSUME NEW p \in Processes, NEW l \in Labels, PackInput(p, l)
      PROVE  BuildInv'
  <2>0. call[p] \in Calls /\ call[p].id \in Ids /\ Progress(p) /\ Built(call[p].id)
    BY <1>19, Named DEF CallsSound, PackInput, BuildInv
  <2>1. call[p].step \in Using
    BY <1>19 DEF PackInput, Using, Saving
  <2>2. PICK c \in {Loop(l, call[p], "hash")} : Proceeds(p, c)
    BY <1>19, <2>0 DEF PackInput, Proceeds, Goto, Return
  <2>3. c.step # "idle" =>
            /\ c.step \in Using /\ c.id = call[p].id
            /\ c.step \in {"decide", "zip", "hash"} => c.todo = Labels
    BY <1>19, <2>0, IdleStep DEF PackInput, Progress, Calls, Loop, Using, Saving
  <2>4. call'[p] = c /\ \A q \in Processes \ {p} : Same(call[q], call'[q])
    BY <2>2, OthersStay
  <2>5. call'[p].step # "idle" =>
            /\ call'[p].step \in Using /\ call'[p].id = call[p].id
            /\ call'[p].step \in {"decide", "zip", "hash"} => call'[p].todo = Labels
    BY <2>3, <2>4
  <2>6. dir[call[p].id].manifest
    BY <2>0, <2>1 DEF Progress
  <2>7. \A q \in Processes \ {p} : call[q].id = call[p].id => call[q].step \notin Freezing
    BY <2>1 DEF BuildInv, Apart
  <2>8. Tame(p)
    BY <1>19, <2>0, <2>4, <2>5, <2>6, <2>7 DEF PackInput, Tame
  <2> QED
    BY <2>8, BuildTame
<1>20. ASSUME NEW p \in Processes, HashPackage(p)
      PROVE  BuildInv'
  <2>0. call[p] \in Calls /\ call[p].id \in Ids /\ Progress(p) /\ Built(call[p].id)
    BY <1>20, Named DEF CallsSound, HashPackage, BuildInv
  <2>1. call[p].step \in Using
    BY <1>20 DEF HashPackage, Using, Saving
  <2>2. PICK c \in {[call[p] EXCEPT !.packed = package[call[p].id],
              !.state = "release-ready", !.step = "open"]} : Proceeds(p, c)
    BY <1>20, <2>0 DEF HashPackage, Proceeds, Goto, Return
  <2>3. c.step # "idle" =>
            /\ c.step \in Using /\ c.id = call[p].id
            /\ c.step \in {"decide", "zip", "hash"} => c.todo = Labels
    BY <1>20, <2>0, IdleStep DEF HashPackage, Progress, Calls, Loop, Using, Saving
  <2>4. call'[p] = c /\ \A q \in Processes \ {p} : Same(call[q], call'[q])
    BY <2>2, OthersStay
  <2>5. call'[p].step # "idle" =>
            /\ call'[p].step \in Using /\ call'[p].id = call[p].id
            /\ call'[p].step \in {"decide", "zip", "hash"} => call'[p].todo = Labels
    BY <2>3, <2>4
  <2>6. dir[call[p].id].manifest
    BY <2>0, <2>1 DEF Progress
  <2>7. \A q \in Processes \ {p} : call[q].id = call[p].id => call[q].step \notin Freezing
    BY <2>1 DEF BuildInv, Apart
  <2>8. Tame(p)
    BY <1>20, <2>0, <2>4, <2>5, <2>6, <2>7 DEF HashPackage, Tame
  <2> QED
    BY <2>8, BuildTame
<1>21. ASSUME NEW p \in Processes, OpenState(p)
      PROVE  BuildInv'
  <2>0. call[p] \in Calls /\ call[p].id \in Ids /\ Progress(p) /\ Built(call[p].id)
    BY <1>21, Named DEF CallsSound, OpenState, BuildInv
  <2>1. call[p].step \in Using
    BY <1>21 DEF OpenState, Using, Saving
  <2>2. PICK c \in {[call[p] EXCEPT !.opened = "tmp", !.step = "write"]} : Proceeds(p, c)
    BY <1>21, <2>0 DEF OpenState, Proceeds, Goto, Return
  <2>3. c.step # "idle" =>
            /\ c.step \in Using /\ c.id = call[p].id
            /\ c.step \in {"decide", "zip", "hash"} => c.todo = Labels
    BY <1>21, <2>0, IdleStep DEF OpenState, Progress, Calls, Loop, Using, Saving
  <2>4. call'[p] = c /\ \A q \in Processes \ {p} : Same(call[q], call'[q])
    BY <2>2, OthersStay
  <2>5. call'[p].step # "idle" =>
            /\ call'[p].step \in Using /\ call'[p].id = call[p].id
            /\ call'[p].step \in {"decide", "zip", "hash"} => call'[p].todo = Labels
    BY <2>3, <2>4
  <2>6. dir[call[p].id].manifest
    BY <2>0, <2>1 DEF Progress
  <2>7. \A q \in Processes \ {p} : call[q].id = call[p].id => call[q].step \notin Freezing
    BY <2>1 DEF BuildInv, Apart
  <2>8. \A id \in Ids : /\ id # call[p].id => dir'[id] = dir[id]
                        /\ dir'[id].made = dir[id].made /\ dir'[id].manifest = dir[id].manifest
                        /\ dir'[id].digest = dir[id].digest /\ dir'[id].parent = dir[id].parent
                        /\ dir'[id].files = dir[id].files
    BY <1>21, <2>0 DEF OpenState, FilesTyped, Directory
  <2>9. bound' = bound
    BY <1>21 DEF OpenState
  <2>10. \A q \in Processes : call[q].step \in Freezing => call[q].id \in Ids
    BY Named DEF Freezing
  <2>11. Tame(p)
    BY <2>0, <2>4, <2>5, <2>6, <2>7, <2>8, <2>9, <2>10 DEF Tame
  <2> QED
    BY <2>11, BuildTame
<1>22. ASSUME NEW p \in Processes, WriteState(p)
      PROVE  BuildInv'
  <2>0. call[p] \in Calls /\ call[p].id \in Ids /\ Progress(p) /\ Built(call[p].id)
    BY <1>22, Named DEF CallsSound, WriteState, BuildInv
  <2>1. call[p].step \in Using
    BY <1>22 DEF WriteState, Using, Saving
  <2>2. PICK c \in {[call[p] EXCEPT !.step = "replace"]} : Proceeds(p, c)
    BY <1>22, <2>0 DEF WriteState, Proceeds, Goto, Return
  <2>3. c.step # "idle" =>
            /\ c.step \in Using /\ c.id = call[p].id
            /\ c.step \in {"decide", "zip", "hash"} => c.todo = Labels
    BY <1>22, <2>0, IdleStep DEF WriteState, Progress, Calls, Loop, Using, Saving
  <2>4. call'[p] = c /\ \A q \in Processes \ {p} : Same(call[q], call'[q])
    BY <2>2, OthersStay
  <2>5. call'[p].step # "idle" =>
            /\ call'[p].step \in Using /\ call'[p].id = call[p].id
            /\ call'[p].step \in {"decide", "zip", "hash"} => call'[p].todo = Labels
    BY <2>3, <2>4
  <2>6. dir[call[p].id].manifest
    BY <2>0, <2>1 DEF Progress
  <2>7. \A q \in Processes \ {p} : call[q].id = call[p].id => call[q].step \notin Freezing
    BY <2>1 DEF BuildInv, Apart
  <2>8. \A id \in Ids : /\ id # call[p].id => dir'[id] = dir[id]
                        /\ dir'[id].made = dir[id].made /\ dir'[id].manifest = dir[id].manifest
                        /\ dir'[id].digest = dir[id].digest /\ dir'[id].parent = dir[id].parent
                        /\ dir'[id].files = dir[id].files
    <3> DEFINE d == dir[call[p].id]
               t == [d EXCEPT !.tmp = Overwritten(d.tmp, call[p].state)]
               u == [d EXCEPT !.state = Overwritten(d.state, call[p].state)]
    <3>1. d \in Directory
      BY <2>0 DEF FilesTyped
    <3>2. \A e \in {t, u, d} : /\ e.made = d.made /\ e.manifest = d.manifest /\ e.digest = d.digest
                              /\ e.parent = d.parent /\ e.files = d.files
      BY <3>1 DEF Directory
    <3>3. \E e \in {t, u, d} : dir' = [dir EXCEPT ![call[p].id] = e]
      BY <1>22 DEF WriteState
    <3> HIDE DEF t, u
    <3> QED
      BY <2>0, <3>2, <3>3 DEF FilesTyped
  <2>9. bound' = bound
    BY <1>22 DEF WriteState
  <2>10. \A q \in Processes : call[q].step \in Freezing => call[q].id \in Ids
    BY Named DEF Freezing
  <2>11. Tame(p)
    BY <2>0, <2>4, <2>5, <2>6, <2>7, <2>8, <2>9, <2>10 DEF Tame
  <2> QED
    BY <2>11, BuildTame
<1>23. ASSUME NEW p \in Processes, ReplaceState(p)
      PROVE  BuildInv'
  <2>0. call[p] \in Calls /\ call[p].id \in Ids /\ Progress(p) /\ Built(call[p].id)
    BY <1>23, Named DEF CallsSound, ReplaceState, BuildInv
  <2>1. call[p].step \in Using
    BY <1>23 DEF ReplaceState, Using, Saving
  <2>2. PICK c \in {Idle} : Proceeds(p, c)
    BY <1>23, <2>0 DEF ReplaceState, Proceeds, Goto, Return
  <2>3. c.step # "idle" =>
            /\ c.step \in Using /\ c.id = call[p].id
            /\ c.step \in {"decide", "zip", "hash"} => c.todo = Labels
    BY <1>23, <2>0, IdleStep DEF ReplaceState, Progress, Calls, Loop, Using, Saving
  <2>4. call'[p] = c /\ \A q \in Processes \ {p} : Same(call[q], call'[q])
    BY <2>2, OthersStay
  <2>5. call'[p].step # "idle" =>
            /\ call'[p].step \in Using /\ call'[p].id = call[p].id
            /\ call'[p].step \in {"decide", "zip", "hash"} => call'[p].todo = Labels
    BY <2>3, <2>4
  <2>6. dir[call[p].id].manifest
    BY <2>0, <2>1 DEF Progress
  <2>7. \A q \in Processes \ {p} : call[q].id = call[p].id => call[q].step \notin Freezing
    BY <2>1 DEF BuildInv, Apart
  <2>8. \A id \in Ids : /\ id # call[p].id => dir'[id] = dir[id]
                        /\ dir'[id].made = dir[id].made /\ dir'[id].manifest = dir[id].manifest
                        /\ dir'[id].digest = dir[id].digest /\ dir'[id].parent = dir[id].parent
                        /\ dir'[id].files = dir[id].files
    BY <1>23, <2>0 DEF ReplaceState, FilesTyped, Directory
  <2>9. bound' = bound
    BY <1>23 DEF ReplaceState
  <2>10. \A q \in Processes : call[q].step \in Freezing => call[q].id \in Ids
    BY Named DEF Freezing
  <2>11. Tame(p)
    BY <2>0, <2>4, <2>5, <2>6, <2>7, <2>8, <2>9, <2>10 DEF Tame
  <2> QED
    BY <2>11, BuildTame
<1>24. ASSUME NEW p \in Processes, Stop(p)
      PROVE  BuildInv'
  <2>1. call'[p] = Idle /\ \A q \in Processes \ {p} : call'[q] = call[q]
    BY <1>24 DEF Stop, Return, CallsSound
  <2>2. dir' = dir /\ bound' = bound
    BY <1>24 DEF Stop
  <2>3. Tame(p)
    BY <2>1, <2>2 DEF Tame, Same, Idle
  <2> QED
    BY <2>3, BuildTame
<1>25. ASSUME NEW l \in Labels, NEW v \in Values, Edit(l, v)
      PROVE  BuildInv'
  BY <1>25 DEF Edit, BuildInv, Built, Progress, Apart, Whole, HasFiles
<1>26. ASSUME NEW i \in Ids, NEW l \in Labels, NEW v \in Values, Damage(i, l, v)
      PROVE  BuildInv'
  <2>1. \A q \in Processes : Same(call[q], call'[q])
    BY <1>26, MeetingsTyped DEF Damage, CallsSound, Same
  <2>2. \A id \in Ids : /\ dir'[id].made = dir[id].made /\ dir'[id].manifest = dir[id].manifest
                        /\ dir'[id].digest = dir[id].digest /\ dir'[id].parent = dir[id].parent
                        /\ dir'[id].state = dir[id].state /\ dir'[id].tmp = dir[id].tmp
    BY <1>26 DEF Damage, FilesTyped, Directory
  <2>3. \A id \in Ids, m \in Labels :
            dir'[id].files[m] = IF id = i /\ m = l THEN v ELSE dir[id].files[m]
    BY <1>26 DEF Damage, FilesTyped, Directory, Parts
  <2>4. \A id \in Ids, m \in Labels : dir'[id].files[m] = Absent <=> dir[id].files[m] = Absent
    BY <1>26, <2>3, AbsentAssumption DEF Damage
  <2>5. bound' = bound
    BY <1>26 DEF Damage
  <2>6. \A id \in Ids : (Whole(id)' <=> Whole(id)) /\ (HasFiles(id)' <=> HasFiles(id))
    BY <2>2, <2>4 DEF Whole, HasFiles
  <2>7. ASSUME NEW id \in Ids PROVE Built(id)'
    BY <2>2, <2>5, <2>6 DEF BuildInv, Built
  <2>8. ASSUME NEW q \in Processes PROVE Progress(q)'
    <3>1. Progress(q) /\ Same(call[q], call'[q])
      BY <2>1 DEF BuildInv
    <3>2. call[q].step \notin {"idle", "scan"} => call[q].id \in Ids
      BY Named
    <3>3. call[q].parent \in Ids \cup {Absent}
      BY DEF CallsSound, Calls
    <3> QED
      BY <2>2, <2>4, <2>5, <2>6, <3>1, <3>2, <3>3 DEF Progress, Same, HasFiles, Freezing, Using, Saving
  <2>9. ASSUME NEW q \in Processes, NEW r \in Processes PROVE Apart(q, r)'
    BY <2>1 DEF BuildInv, Apart, Same
  <2> QED
    BY <2>7, <2>8, <2>9 DEF BuildInv
<1> QED
  BY <1>1, <1>2, <1>3, <1>4, <1>5, <1>6, <1>7, <1>8, <1>9, <1>10, <1>11, <1>12, <1>13, <1>14, <1>15, <1>16, <1>17, <1>18, <1>19, <1>20, <1>21, <1>22, <1>23, <1>24, <1>25, <1>26 DEF Next, Act

-----------------------------------------------------------------------------
(* So is CareInv, beside it.                                               *)

PackInv == \A p \in Processes : Packed(p)

SaveInv == \A p \in Processes : Saver(p)

CareInv == NameInv /\ PackInv /\ SaveInv

\* What the step of another process leaves of a call.
Touched(c, d) ==
    /\ Same(c, d)
    /\ d.clean => c.clean
    /\ d.alone => c.alone /\ d.opened = c.opened
    /\ d.opened = "no" <=> c.opened = "no"

\* What a process does to another one's call takes claims from it, adds none.
LEMMA MeetingsTouch ==
    ASSUME NEW c \in Calls
    PROVE  \A d \in {c, NotAlone(c), NotClean(c), Moved(c)} : Touched(c, d)
<1>1. \A d \in {c, NotAlone(c), NotClean(c), Moved(c)} : Same(c, d)
  BY MeetingsTyped DEF Same
<1> QED
  BY <1>1 DEF Touched, NotAlone, NotClean, Moved, Calls

\* That is so for every other process when p goes on.
LEMMA OthersTouched ==
    ASSUME CallsSound, NEW p \in Processes, NEW c, Proceeds(p, c)
    PROVE  call'[p] = c /\ \A q \in Processes \ {p} : Touched(call[q], call'[q])
<1>1. call'[p] = c
  BY DEF Proceeds, GoOn, CallsSound
<1>2. ASSUME NEW q \in Processes \ {p}
      PROVE  Touched(call[q], call'[q])
  <2>1. call[q] \in Calls
    BY DEF CallsSound
  <2>2. call'[q] \in {call[q], NotAlone(call[q]), NotClean(call[q]), Moved(call[q])}
    BY DEF Proceeds, GoOn, CallsSound
  <2> QED
    BY <2>1, <2>2, MeetingsTouch
<1> QED
  BY <1>1, <1>2

\* After a step that saves, nobody else is alone with the candidate.
LEMMA SaveIsSeen ==
    ASSUME CallsSound, NEW p \in Processes, NEW c, GoOn(p, c, NotAlone) \/ GoOn(p, c, Moved)
    PROVE  /\ call'[p] = c
           /\ \A q \in Processes \ {p} :
                 /\ Touched(call[q], call'[q])
                 /\ call[q].id = call[p].id => ~call'[q].alone
<1>1. call'[p] = c /\ \A q \in Processes \ {p} : Touched(call[q], call'[q])
  BY OthersTouched DEF Proceeds
<1>2. ASSUME NEW q \in Processes \ {p}, call[q].id = call[p].id
      PROVE  ~call'[q].alone
  <2>1. call[q] \in Calls
    BY DEF CallsSound
  <2>2. call'[q] \in {NotAlone(call[q]), Moved(call[q])}
    BY <1>2 DEF GoOn
  <2> QED
    BY <2>1, <2>2 DEF NotAlone, Moved, Calls
<1> QED
  BY <1>1, <1>2

\* What is left to show of a step of p: it changes no file, and what it does to
\* states, packages and bindings bothers no other call.
LEMMA CareKept ==
    ASSUME TypeOK, CareInv, NEW p \in Processes,
           \A q \in Processes \ {p} :
              /\ Touched(call[q], call'[q])
              /\ call'[q].alone => /\ dir'[call[q].id].state = dir[call[q].id].state
                                   /\ dir'[call[q].id].tmp = dir[call[q].id].tmp
              /\ call'[q].clean /\ call[q].step \in {"pack", "hash"} =>
                     \A l \in Labels :
                         package'[call[q].id][l] \in {package[call[q].id][l], call[q].id[l]},
           damaged' = damaged,
           \A id \in Ids :
              /\ dir'[id].files = dir[id].files
              /\ id \in bound' \/ dir'[id].state \in Decided \/ dir'[id].tmp \in Decided
                 => \/ id \in bound \/ dir[id].state \in Decided \/ dir[id].tmp \in Decided
                    \/ id \in damaged \/ AllNamed(id),
           Verified(p)', Packed(p)', Saver(p)'
    PROVE  CareInv'
<1>1. \A q \in Processes : call[q].step \notin {"idle", "scan"} => call[q].id \in Ids
  BY Named, TypeParts
<1>2. ASSUME NEW q \in Processes, q # p PROVE Verified(q)'
  BY <1>1, <1>2 DEF CareInv, NameInv, Verified, AllNamed, Touched, Same, Using, Saving
<1>3. ASSUME NEW id \in Ids PROVE Settled(id)'
  BY DEF CareInv, NameInv, Settled, AllNamed
<1>4. ASSUME NEW q \in Processes, q # p PROVE Packed(q)'
  BY <1>1, <1>4 DEF CareInv, PackInv, Packed, AllNamed, Touched, Same, Using, Saving
<1>5. ASSUME NEW q \in Processes, q # p PROVE Saver(q)'
  BY <1>1, <1>5 DEF CareInv, SaveInv, Saver, Touched, Same, Using, Saving
<1> QED
  BY <1>2, <1>3, <1>4, <1>5 DEF CareInv, NameInv, PackInv, SaveInv

\* A step that changes no file is to keep only what is said of its own call.
LEMMA CareQuiet ==
    ASSUME TypeOK, CareInv, NEW p \in Processes, NEW c, Proceeds(p, c),
           UNCHANGED <<dir, package, bound, damaged>>, Verified(p)', Packed(p)', Saver(p)'
    PROVE  CareInv'
<1>1. \A q \in Processes \ {p} : Touched(call[q], call'[q])
  BY OthersTouched, TypeParts
<1> QED
  BY <1>1, CareKept

\* A call that does not use a candidate.
Aside(c) == c.step \notin Using /\ ~c.clean /\ ~c.alone /\ c.opened = "no"

\* An idle call claims nothing.
LEMMA IdleAside == Aside(Idle)
BY DEF Aside, Idle, Using, Saving

\* A step before the verification keeps what is said of candidates and calls.
LEMMA CareBefore ==
    ASSUME TypeOK, BuildInv, CareInv, NEW p \in Processes, NEW c, Proceeds(p, c), Aside(c),
           UNCHANGED <<package, bound, damaged>>,
           \A id \in Ids :
              \/ dir'[id] = dir[id]
              \/ /\ id = call[p].id /\ call[p].step \in Freezing
                 /\ dir'[id].tmp = dir[id].tmp
                 /\ \/ dir'[id].files = dir[id].files /\ dir'[id].state \notin Decided
                    \/ ~dir[id].manifest /\ dir'[id].state = dir[id].state
    PROVE  CareInv'
<1>0. call'[p] = c /\ \A q \in Processes \ {p} : Touched(call[q], call'[q])
  BY OthersTouched, TypeParts
<1>1. \A q \in Processes : call[q].step \notin {"idle", "scan"} => call[q].id \in Ids
  BY Named, TypeParts
<1>2. ASSUME NEW q \in Processes, q # p, call[q].step \in Using
      PROVE  dir'[call[q].id] = dir[call[q].id] /\ call[q].id \in Ids
  BY <1>1, <1>2 DEF BuildInv, Apart, Using, Saving
<1>3. ASSUME NEW id \in Ids PROVE Settled(id)'
  <2>1. Settled(id) /\ Built(id)
    BY DEF CareInv, NameInv, BuildInv
  <2>2. ASSUME id = call[p].id, call[p].step \in Freezing PROVE id \notin bound
    BY <2>2 DEF BuildInv, Progress
  <2>3. Absent \notin Decided
    BY AbsentAssumption DEF Decided
  <2> QED
    BY <2>1, <2>2, <2>3 DEF Settled, AllNamed, Built
<1>4. ASSUME NEW q \in Processes, q # p PROVE Verified(q)'
  BY <1>0, <1>2, <1>4 DEF CareInv, NameInv, Verified, AllNamed, Touched, Same, Using, Saving
<1>5. ASSUME NEW q \in Processes, q # p PROVE Packed(q)'
  BY <1>0, <1>2, <1>5 DEF CareInv, PackInv, Packed, AllNamed, Touched, Same, Using, Saving
<1>6. ASSUME NEW q \in Processes, q # p PROVE Saver(q)'
  BY <1>0, <1>2, <1>6 DEF CareInv, SaveInv, Saver, Touched, Same, Using, Saving
<1>7. Verified(p)' /\ Packed(p)' /\ Saver(p)'
  BY <1>0 DEF Aside, Verified, Packed, Saver, Using, Saving
<1> QED
  BY <1>3, <1>4, <1>5, <1>6, <1>7 DEF CareInv, NameInv, PackInv, SaveInv

\* The moves that calls make.
LEMMA MovesMade ==
    /\ \A s \in CandidateState : Moves(s, "corrupt")
    /\ Moves("frozen", "verifying") /\ Moves("verifying", "approved")
    /\ Moves("reviewing", "approved") /\ Moves("approved", "release-ready")
<1>1. \A s \in CandidateState : Moves(s, "corrupt")
  BY DEF Moves
<1>2. Moves("frozen", "verifying")
  BY DEF Moves, Allowed
<1>3. Moves("verifying", "approved")
  BY DEF Moves, Allowed
<1>4. Moves("reviewing", "approved")
  BY DEF Moves, Allowed
<1>5. Moves("approved", "release-ready")
  BY DEF Moves, Allowed
<1> QED
  BY <1>1, <1>2, <1>3, <1>4, <1>5

\* No call claims anything at the start.
LEMMA CareInit == Init => CareInv
BY AbsentAssumption
   DEF Init, CareInv, NameInv, PackInv, SaveInv, Verified, Settled, Packed, Saver,
       NoDirectory, Idle, Using, Saving, Decided, CandidateState

\* Every step keeps CareInv.
LEMMA CareNext == TypeOK /\ BuildInv /\ CareInv /\ [Next]_vars => CareInv'
<1> SUFFICES ASSUME TypeOK, BuildInv, CareInv, [Next]_vars
             PROVE  CareInv'
  OBVIOUS
<1>0. CallsSound /\ FilesTyped
  BY TypeParts
<1> USE <1>0
<1>1. CASE UNCHANGED vars
  BY <1>1 DEF vars, CareInv, NameInv, PackInv, SaveInv, Verified, Settled, Packed, Saver, AllNamed
<1>2. ASSUME NEW p \in Processes, NEW parent \in Ids \cup {Absent}, BeginFreeze(p, parent)
      PROVE  CareInv'
  <2>1. call[p] \in Calls /\ Packed(p) /\ Saver(p)
    BY <1>2 DEF CallsSound, CareInv, PackInv, SaveInv
  <2>2. PICK c \in {[Idle EXCEPT !.step = "scan", !.todo = Labels, !.parent = parent]} : Proceeds(p, c)
    BY <1>2, <2>1 DEF BeginFreeze, Proceeds, Goto, Return
  <2>3. Aside(c)
    BY <1>2, <2>1, IdleAside DEF BeginFreeze, Aside, Idle, Packed, Saver, Calls, Loop, Using, Saving
  <2> QED
    BY <1>2, <2>2, <2>3, CareBefore DEF BeginFreeze, Outside, Environment
<1>3. ASSUME NEW p \in Processes, NEW l \in Labels, ScanInput(p, l)
      PROVE  CareInv'
  <2>1. call[p] \in Calls /\ Packed(p) /\ Saver(p)
    BY <1>3 DEF CallsSound, CareInv, PackInv, SaveInv
  <2>2. PICK c \in {Loop(l, [call[p] EXCEPT !.id[l] = inputs[l]], "exists")} : Proceeds(p, c)
    BY <1>3, <2>1 DEF ScanInput, Proceeds, Goto, Return
  <2>3. Aside(c)
    BY <1>3, <2>1, IdleAside DEF ScanInput, Aside, Packed, Saver, Calls, Loop, Using, Saving
  <2> QED
    BY <1>3, <2>2, <2>3, CareBefore DEF ScanInput, Outside, Environment
<1>4. ASSUME NEW p \in Processes, CheckExists(p)
      PROVE  CareInv'
  <2>1. call[p] \in Calls /\ Packed(p) /\ Saver(p)
    BY <1>4 DEF CallsSound, CareInv, PackInv, SaveInv
  <2>2. PICK c \in {Idle, [call[p] EXCEPT !.step = "mkdir"]} : Proceeds(p, c)
    BY <1>4, <2>1 DEF CheckExists, Proceeds, Goto, Return
  <2>3. Aside(c)
    BY <1>4, <2>1, IdleAside DEF CheckExists, Aside, Packed, Saver, Calls, Loop, Using, Saving
  <2> QED
    BY <1>4, <2>2, <2>3, CareBefore DEF CheckExists, Outside, Environment
<1>5. ASSUME NEW p \in Processes, MakeDirectory(p)
      PROVE  CareInv'
  <2>1. call[p] \in Calls /\ Packed(p) /\ Saver(p) /\ call[p].id \in Ids
    BY <1>5, Named DEF MakeDirectory, CallsSound, CareInv, PackInv, SaveInv
  <2>2. PICK c \in {Idle, [call[p] EXCEPT !.step = "copy"]} : Proceeds(p, c)
    BY <1>5, <2>1 DEF MakeDirectory, Proceeds, Goto, Return
  <2>3. Aside(c)
    BY <1>5, <2>1, IdleAside DEF MakeDirectory, Aside, Packed, Saver, Calls, Using, Saving
  <2>4. \A id \in Ids : /\ dir'[id].files = dir[id].files
                        /\ dir'[id].state = dir[id].state /\ dir'[id].tmp = dir[id].tmp
    BY <1>5, <2>1 DEF MakeDirectory, FilesTyped, Directory
  <2>5. UNCHANGED <<package, bound, damaged>>
    BY <1>5 DEF MakeDirectory, Outside, Environment
  <2>6. call'[p] = c /\ \A q \in Processes \ {p} : Touched(call[q], call'[q])
    BY <2>2, OthersTouched
  <2>7. \A q \in Processes : call[q].alone => call[q].id \in Ids
    BY Named DEF CareInv, SaveInv, Saver, Using, Saving
  <2>8. Verified(p)' /\ Packed(p)' /\ Saver(p)'
    BY <2>3, <2>6 DEF Aside, Verified, Packed, Saver, Using, Saving
  <2>9. \A q \in Processes \ {p} :
            call'[q].alone => /\ dir'[call[q].id].state = dir[call[q].id].state
                              /\ dir'[call[q].id].tmp = dir[call[q].id].tmp
    BY <2>4, <2>6, <2>7 DEF Touched
  <2> QED
    BY <2>4, <2>5, <2>6, <2>8, <2>9, CareKept
<1>6. ASSUME NEW p \in Processes, NEW l \in Labels, CopyInput(p, l)
      PROVE  CareInv'
  <2>1. call[p] \in Calls /\ Packed(p) /\ Saver(p)
    BY <1>6 DEF CallsSound, CareInv, PackInv, SaveInv
  <2>2. PICK c \in {Loop(l, call[p], "manifest")} : Proceeds(p, c)
    BY <1>6, <2>1 DEF CopyInput, Proceeds, Goto, Return
  <2>3. Aside(c)
    BY <1>6, <2>1, IdleAside DEF CopyInput, Aside, Packed, Saver, Calls, Loop, Using, Saving
  <2>4. call[p].id \in Ids /\ Progress(p)
    BY <1>6, Named DEF CopyInput, BuildInv
  <2>5. \A id \in Ids \ {call[p].id} : dir'[id] = dir[id]
    BY <1>6, <2>4 DEF CopyInput, FilesTyped
  <2>6. /\ call[p].step \in Freezing /\ dir'[call[p].id].tmp = dir[call[p].id].tmp
        /\ ~dir[call[p].id].manifest /\ dir'[call[p].id].state = dir[call[p].id].state
    BY <1>6, <2>4, AbsentAssumption DEF CopyInput, FilesTyped, Directory, Freezing, Progress, Decided, CandidateState
  <2>7. UNCHANGED <<package, bound, damaged>>
    BY <1>6 DEF CopyInput, Outside, Environment
  <2> QED
    BY <2>2, <2>3, <2>5, <2>6, <2>7, CareBefore
<1>7. ASSUME NEW p \in Processes, WriteManifest(p)
      PROVE  CareInv'
  <2>1. call[p] \in Calls /\ Packed(p) /\ Saver(p)
    BY <1>7 DEF CallsSound, CareInv, PackInv, SaveInv
  <2>2. PICK c \in {[call[p] EXCEPT !.step = "digest"]} : Proceeds(p, c)
    BY <1>7, <2>1 DEF WriteManifest, Proceeds, Goto, Return
  <2>3. Aside(c)
    BY <1>7, <2>1, IdleAside DEF WriteManifest, Aside, Packed, Saver, Calls, Loop, Using, Saving
  <2>4. call[p].id \in Ids /\ Progress(p)
    BY <1>7, Named DEF WriteManifest, BuildInv
  <2>5. \A id \in Ids \ {call[p].id} : dir'[id] = dir[id]
    BY <1>7, <2>4 DEF WriteManifest, FilesTyped
  <2>6. /\ call[p].step \in Freezing /\ dir'[call[p].id].tmp = dir[call[p].id].tmp
        /\ ~dir[call[p].id].manifest /\ dir'[call[p].id].state = dir[call[p].id].state
    BY <1>7, <2>4, AbsentAssumption DEF WriteManifest, FilesTyped, Directory, Freezing, Progress, Decided, CandidateState
  <2>7. UNCHANGED <<package, bound, damaged>>
    BY <1>7 DEF WriteManifest, Outside, Environment
  <2> QED
    BY <2>2, <2>3, <2>5, <2>6, <2>7, CareBefore
<1>8. ASSUME NEW p \in Processes, WriteDigest(p)
      PROVE  CareInv'
  <2>1. call[p] \in Calls /\ Packed(p) /\ Saver(p)
    BY <1>8 DEF CallsSound, CareInv, PackInv, SaveInv
  <2>2. PICK c \in {[call[p] EXCEPT !.step = "create"]} : Proceeds(p, c)
    BY <1>8, <2>1 DEF WriteDigest, Proceeds, Goto, Return
  <2>3. Aside(c)
    BY <1>8, <2>1, IdleAside DEF WriteDigest, Aside, Packed, Saver, Calls, Loop, Using, Saving
  <2>4. call[p].id \in Ids /\ Progress(p)
    BY <1>8, Named DEF WriteDigest, BuildInv
  <2>5. \A id \in Ids \ {call[p].id} : dir'[id] = dir[id]
    BY <1>8, <2>4 DEF WriteDigest, FilesTyped
  <2>6. /\ call[p].step \in Freezing /\ dir'[call[p].id].tmp = dir[call[p].id].tmp
        /\ dir'[call[p].id].files = dir[call[p].id].files
        /\ dir'[call[p].id].state \notin Decided
    BY <1>8, <2>4, AbsentAssumption DEF WriteDigest, FilesTyped, Directory, Freezing, Progress, Decided, CandidateState
  <2>7. UNCHANGED <<package, bound, damaged>>
    BY <1>8 DEF WriteDigest, Outside, Environment
  <2> QED
    BY <2>2, <2>3, <2>5, <2>6, <2>7, CareBefore
<1>9. ASSUME NEW p \in Processes, CreateState(p)
      PROVE  CareInv'
  <2>1. call[p] \in Calls /\ Packed(p) /\ Saver(p)
    BY <1>9 DEF CallsSound, CareInv, PackInv, SaveInv
  <2>2. PICK c \in {[call[p] EXCEPT !.step = "initial"]} : Proceeds(p, c)
    BY <1>9, <2>1 DEF CreateState, Proceeds, Goto, Return
  <2>3. Aside(c)
    BY <1>9, <2>1, IdleAside DEF CreateState, Aside, Packed, Saver, Calls, Loop, Using, Saving
  <2>4. call[p].id \in Ids /\ Progress(p)
    BY <1>9, Named DEF CreateState, BuildInv
  <2>5. \A id \in Ids \ {call[p].id} : dir'[id] = dir[id]
    BY <1>9, <2>4 DEF CreateState, FilesTyped
  <2>6. /\ call[p].step \in Freezing /\ dir'[call[p].id].tmp = dir[call[p].id].tmp
        /\ dir'[call[p].id].files = dir[call[p].id].files
        /\ dir'[call[p].id].state \notin Decided
    BY <1>9, <2>4, AbsentAssumption DEF CreateState, FilesTyped, Directory, Freezing, Progress, Decided, CandidateState
  <2>7. UNCHANGED <<package, bound, damaged>>
    BY <1>9 DEF CreateState, Outside, Environment
  <2> QED
    BY <2>2, <2>3, <2>5, <2>6, <2>7, CareBefore
<1>10. ASSUME NEW p \in Processes, InitialState(p)
      PROVE  CareInv'
  <2>1. call[p] \in Calls /\ call[p].id \in Ids /\ Progress(p)
    BY <1>10, Named DEF InitialState, CallsSound, BuildInv
  <2>2. Verified(p) /\ Packed(p) /\ Saver(p) /\ Settled(call[p].id)
    BY <2>1 DEF CareInv, NameInv, PackInv, SaveInv
  <2> DEFINE c == [call[p] EXCEPT !.step = "verify", !.alone = TRUE]
  <2>3. GoOn(p, c, NotAlone)
    BY <1>10 DEF InitialState
  <2>4. /\ call'[p] = c
        /\ \A q \in Processes \ {p} : /\ Touched(call[q], call'[q])
                                      /\ call[q].id = call[p].id => ~call'[q].alone
    BY <2>3, SaveIsSeen
  <2>5. dir'[call[p].id] = [dir[call[p].id] EXCEPT !.state = "frozen"]
        /\ \A id \in Ids \ {call[p].id} : dir'[id] = dir[id]
    BY <1>10, <2>1 DEF InitialState, FilesTyped
  <2>6. \A id \in Ids : dir'[id].files = dir[id].files /\ dir'[id].tmp = dir[id].tmp
    BY <2>1, <2>5 DEF FilesTyped, Directory
  <2>7. dir'[call[p].id].state = "frozen"
    BY <2>1, <2>5 DEF FilesTyped, Directory
  <2>8. /\ c.step = "verify" /\ c.todo = Labels /\ ~c.clean /\ c.id = call[p].id
        /\ c.state = "frozen" /\ c.opened = "no"
    BY <1>10, <2>1, <2>2 DEF InitialState, Progress, Packed, Saver, Calls, Saving, Freezing
  <2>9. Verified(p)' /\ Packed(p)' /\ Saver(p)'
    BY <2>4, <2>7, <2>8 DEF Verified, Packed, Saver, Using, Saving, CandidateState
  <2>10. UNCHANGED <<package, bound, damaged>>
    BY <1>10 DEF InitialState, Outside, Environment
  <2>11. \A q \in Processes : call[q].alone => call[q].id \in Ids
    BY Named DEF CareInv, SaveInv, Saver, Using, Saving
  <2>12. \A q \in Processes \ {p} :
            call'[q].alone => /\ dir'[call[q].id].state = dir[call[q].id].state
                              /\ dir'[call[q].id].tmp = dir[call[q].id].tmp
    BY <2>4, <2>5, <2>11 DEF Touched
  <2>13. \A id \in Ids : dir'[id].state \in Decided => dir[id].state \in Decided
    BY <2>5, <2>7 DEF Decided
  <2> QED
    BY <2>4, <2>6, <2>9, <2>10, <2>12, <2>13, CareKept
<1>11. ASSUME NEW p \in Processes, NEW op \in Operations, NEW id \in Ids, BeginUse(p, op, id)
      PROVE  CareInv'
  <2> DEFINE c == [Idle EXCEPT !.op = op, !.step = "verify", !.id = id,
                             !.todo = Labels, !.state = dir[id].state, !.alone = TRUE]
  <2>1. Proceeds(p, c)
    BY <1>11 DEF BeginUse, Proceeds
  <2>2. call'[p] = c
    BY <2>1, OthersTouched
  <2>3. /\ c.step = "verify" /\ c.id = id /\ c.todo = Labels /\ c.state = dir[id].state
        /\ c.opened = "no" /\ ~c.clean
    BY DEF Idle
  <2>4. dir[id].state \in CandidateState /\ UNCHANGED <<dir, package, bound, damaged>>
    BY <1>11 DEF BeginUse, Loadable, Environment
  <2> HIDE DEF c
  <2>5. Verified(p)' /\ Packed(p)' /\ Saver(p)'
    BY <2>2, <2>3, <2>4 DEF Verified, Packed, Saver, Using, Saving
  <2> QED
    BY <2>1, <2>4, <2>5, CareQuiet
<1>12. ASSUME NEW p \in Processes, NEW l \in Labels, VerifyInput(p, l)
      PROVE  CareInv'
  <2>1. call[p] \in Calls /\ call[p].id \in Ids /\ Progress(p)
    BY <1>12, Named DEF VerifyInput, CallsSound, BuildInv
  <2>2. Verified(p) /\ Packed(p) /\ Saver(p) /\ Settled(call[p].id)
    BY <2>1 DEF CareInv, NameInv, PackInv, SaveInv
  <2>3. UNCHANGED <<dir, package, bound, damaged>>
    BY <1>12 DEF VerifyInput, Outside, Environment
  <2>4. call[p].step = "verify" /\ l \in call[p].todo /\ call[p].opened = "no" /\ ~call[p].clean
    BY <1>12, <2>2 DEF VerifyInput, Saver, Packed, Saving
  <2>5. CASE AsNamed(call[p].id, l)
    <3> DEFINE c == Loop(l, call[p], "decide")
    <3>1. Proceeds(p, c)
      BY <1>12, <2>5 DEF VerifyInput, Proceeds
    <3>2. call'[p] = c
      BY <3>1, OthersTouched
    <3>3. /\ c.step \in {"verify", "decide"} /\ c.id = call[p].id /\ c.state = call[p].state
          /\ c.opened = "no" /\ ~c.clean /\ c.alone = call[p].alone
          /\ c.step = "verify" => c.todo = call[p].todo \ {l}
          /\ c.step = "decide" => call[p].todo = {l}
      BY <2>1, <2>4 DEF Loop, Calls
    <3> HIDE DEF c
    <3>4. Verified(p)'
      BY <2>2, <2>3, <2>4, <2>5, <3>2, <3>3 DEF Verified, AllNamed, AsNamed, Using, Saving
    <3>5. Packed(p)' /\ Saver(p)'
      BY <2>2, <2>3, <2>4, <3>2, <3>3 DEF Packed, Saver, Using, Saving
    <3> QED
      BY <2>3, <3>1, <3>4, <3>5, CareQuiet
  <2>6. CASE ~AsNamed(call[p].id, l)
    <3> DEFINE c == [call[p] EXCEPT !.state = "corrupt", !.step = "open"]
    <3>1. Proceeds(p, c)
      BY <1>12, <2>6 DEF VerifyInput, Proceeds
    <3>2. call'[p] = c
      BY <3>1, OthersTouched
    <3>3. /\ c.step = "open" /\ c.id = call[p].id /\ c.state = "corrupt"
          /\ c.opened = "no" /\ ~c.clean /\ c.alone = call[p].alone
      BY <2>1, <2>4 DEF Calls
    <3> HIDE DEF c
    <3>4. Verified(p)' /\ Packed(p)' /\ Saver(p)'
      BY <2>2, <2>3, <2>4, <3>2, <3>3, MovesMade DEF Verified, Packed, Saver, Using, Saving
    <3> QED
      BY <2>3, <3>1, <3>4, CareQuiet
  <2> QED
    BY <2>5, <2>6
<1>13. ASSUME NEW p \in Processes, BindFrozen(p)
      PROVE  CareInv'
  <2>1. call[p] \in Calls /\ call[p].id \in Ids /\ Progress(p)
    BY <1>13, Named DEF BindFrozen, CallsSound, BuildInv
  <2>2. Verified(p) /\ Packed(p) /\ Saver(p) /\ Settled(call[p].id)
    BY <2>1 DEF CareInv, NameInv, PackInv, SaveInv
  <2>3. call'[p] = Idle /\ \A q \in Processes \ {p} : Touched(call[q], call'[q])
    BY <1>13, OthersTouched DEF BindFrozen, Return, Proceeds
  <2>4. dir' = dir /\ bound' = bound \cup {call[p].id} /\ package' = package /\ damaged' = damaged
    BY <1>13 DEF BindFrozen, Outside, Environment
  <2>5. call[p].id \in damaged \/ AllNamed(call[p].id)
    BY <1>13, <2>2 DEF BindFrozen, Verified, Using, Saving
  <2>6. Verified(p)' /\ Packed(p)' /\ Saver(p)'
    BY <2>3, IdleAside DEF Aside, Verified, Packed, Saver, Using, Saving
  <2> QED
    BY <2>3, <2>4, <2>5, <2>6, CareKept
<1>14. ASSUME NEW p \in Processes, RecordEvidence(p)
      PROVE  CareInv'
  <2>1. call[p] \in Calls /\ call[p].id \in Ids /\ Progress(p)
    BY <1>14, Named DEF RecordEvidence, CallsSound, BuildInv
  <2>2. Verified(p) /\ Packed(p) /\ Saver(p) /\ Settled(call[p].id)
    BY <2>1 DEF CareInv, NameInv, PackInv, SaveInv
  <2>3. UNCHANGED <<dir, package, bound, damaged>>
    BY <1>14 DEF RecordEvidence, Outside, Environment
  <2>4. PICK c \in {[call[p] EXCEPT !.state = "verifying", !.step = "open"], Idle} : Proceeds(p, c) /\ (c # Idle => call[p].state = "frozen")
    BY <1>14, <2>1 DEF RecordEvidence, MovesOnEvidence, Proceeds, Goto, Return
  <2>5. call'[p] = c
    BY <2>4, OthersTouched
  <2>6. CASE c = Idle
    BY <2>3, <2>4, <2>5, <2>6, IdleAside, CareQuiet
       DEF Aside, Verified, Packed, Saver, Using, Saving
  <2>7. CASE c # Idle
    <3>1. c = [call[p] EXCEPT !.state = "verifying", !.step = "open"]
      BY <2>4, <2>7
    <3>2. /\ c.step = "open" /\ c.id = call[p].id /\ c.state = "verifying" /\ c.opened = "no"
          /\ ~c.clean /\ c.alone = call[p].alone
      BY <1>14, <2>1, <2>2, <3>1 DEF RecordEvidence, Calls, Packed, Saver, Saving
    <3>3. Verified(p)' /\ Packed(p)'
      BY <1>14, <2>2, <2>3, <2>5, <3>2 DEF RecordEvidence, Verified, Packed, AllNamed, Using, Saving
    <3>4. Saver(p)'
      BY <1>14, <2>2, <2>3, <2>4, <2>5, <2>7, <3>2, MovesMade DEF RecordEvidence, Saver, Using, Saving
    <3> QED
      BY <2>3, <2>4, <3>3, <3>4, CareQuiet
  <2> QED
    BY <2>6, <2>7
<1>15. ASSUME NEW p \in Processes, ApproveCandidate(p)
      PROVE  CareInv'
  <2>1. call[p] \in Calls /\ call[p].id \in Ids /\ Progress(p)
    BY <1>15, Named DEF ApproveCandidate, CallsSound, BuildInv
  <2>2. Verified(p) /\ Packed(p) /\ Saver(p) /\ Settled(call[p].id)
    BY <2>1 DEF CareInv, NameInv, PackInv, SaveInv
  <2>3. UNCHANGED <<dir, package, bound, damaged>>
    BY <1>15 DEF ApproveCandidate, Outside, Environment
  <2>4. PICK c \in {[call[p] EXCEPT !.state = "approved", !.step = "open"], Idle} : Proceeds(p, c)
            /\ (c # Idle => call[p].state \in {"verifying", "reviewing"})
    BY <1>15, <2>1 DEF ApproveCandidate, Reviewing, Proceeds, Goto, Return
  <2>5. call'[p] = c
    BY <2>4, OthersTouched
  <2>6. CASE c = Idle
    BY <2>3, <2>4, <2>5, <2>6, IdleAside, CareQuiet
       DEF Aside, Verified, Packed, Saver, Using, Saving
  <2>7. CASE c # Idle
    <3>1. c = [call[p] EXCEPT !.state = "approved", !.step = "open"]
      BY <2>4, <2>7
    <3>2. /\ c.step = "open" /\ c.id = call[p].id /\ c.state = "approved" /\ c.opened = "no"
          /\ ~c.clean /\ c.alone = call[p].alone
      BY <1>15, <2>1, <2>2, <3>1 DEF ApproveCandidate, Calls, Packed, Saver, Saving
    <3>3. Verified(p)' /\ Packed(p)'
      BY <1>15, <2>2, <2>3, <2>5, <3>2 DEF ApproveCandidate, Verified, Packed, AllNamed, Using, Saving
    <3>4. Saver(p)'
      BY <1>15, <2>2, <2>3, <2>4, <2>5, <2>7, <3>2, MovesMade DEF ApproveCandidate, Saver, Using, Saving
    <3> QED
      BY <2>3, <2>4, <3>3, <3>4, CareQuiet
  <2> QED
    BY <2>6, <2>7
<1>16. ASSUME NEW p \in Processes, BeginPackage(p)
      PROVE  CareInv'
  <2>1. call[p] \in Calls /\ call[p].id \in Ids /\ Progress(p)
    BY <1>16, Named DEF BeginPackage, CallsSound, BuildInv
  <2>2. Verified(p) /\ Packed(p) /\ Saver(p) /\ Settled(call[p].id)
    BY <2>1 DEF CareInv, NameInv, PackInv, SaveInv
  <2>3. UNCHANGED <<dir, package, bound, damaged>>
    BY <1>16 DEF BeginPackage, Outside, Environment
  <2>4. PICK c \in {[call[p] EXCEPT !.step = "recheck", !.clean = TRUE], Idle} : Proceeds(p, c) /\ (c # Idle => call[p].state = "approved")
    BY <1>16, <2>1 DEF BeginPackage, Proceeds, Goto, Return
  <2>5. call'[p] = c
    BY <2>4, OthersTouched
  <2>6. CASE c = Idle
    BY <2>3, <2>4, <2>5, <2>6, IdleAside, CareQuiet
       DEF Aside, Verified, Packed, Saver, Using, Saving
  <2>7. CASE c # Idle
    <3>1. c = [call[p] EXCEPT !.step = "recheck", !.clean = TRUE]
      BY <2>4, <2>7
    <3>2. /\ c.step = "recheck" /\ c.id = call[p].id /\ c.opened = "no"
          /\ c.todo = Labels /\ c.alone = call[p].alone
      BY <1>16, <2>1, <2>2, <3>1 DEF BeginPackage, Progress, Calls, Saver, Saving
    <3>3. Verified(p)' /\ Packed(p)'
      BY <1>16, <2>2, <2>3, <2>5, <3>2 DEF BeginPackage, Verified, Packed, AllNamed, Using, Saving
    <3>4. Saver(p)'
      BY <1>16, <2>2, <2>3, <2>4, <2>5, <2>7, <3>2 DEF BeginPackage, Saver, Using, Saving
    <3> QED
      BY <2>3, <2>4, <3>3, <3>4, CareQuiet
  <2> QED
    BY <2>6, <2>7
<1>17. ASSUME NEW p \in Processes, NEW l \in Labels, RecheckInput(p, l)
      PROVE  CareInv'
  <2>1. call[p] \in Calls /\ call[p].id \in Ids /\ Progress(p)
    BY <1>17, Named DEF RecheckInput, CallsSound, BuildInv
  <2>2. Verified(p) /\ Packed(p) /\ Saver(p) /\ Settled(call[p].id)
    BY <2>1 DEF CareInv, NameInv, PackInv, SaveInv
  <2>3. UNCHANGED <<dir, package, bound, damaged>>
    BY <1>17 DEF RecheckInput, Outside, Environment
  <2>4. PICK c \in {Loop(l, call[p], "zip"), Idle} : Proceeds(p, c) /\ (c # Idle => AsNamed(call[p].id, l))
    BY <1>17, <2>1 DEF RecheckInput, Proceeds, Goto, Return
  <2>5. call'[p] = c
    BY <2>4, OthersTouched
  <2>6. CASE c = Idle
    BY <2>3, <2>4, <2>5, <2>6, IdleAside, CareQuiet
       DEF Aside, Verified, Packed, Saver, Using, Saving
  <2>7. CASE c # Idle
    <3>1. c = Loop(l, call[p], "zip")
      BY <2>4, <2>7
    <3>2. call[p].step = "recheck" /\ l \in call[p].todo
      BY <1>17 DEF RecheckInput
    <3>3. /\ c.step \in {"recheck", "zip"} /\ c.id = call[p].id /\ c.opened = call[p].opened
          /\ c.clean = call[p].clean /\ c.alone = call[p].alone
          /\ c.step = "recheck" => c.todo = call[p].todo \ {l}
          /\ c.step = "zip" => call[p].todo = {l}
      BY <2>1, <3>1, <3>2 DEF Loop, Calls
    <3>4. dir[call[p].id].files[l] = call[p].id[l]
      BY <2>4, <2>7 DEF AsNamed
    <3>5. Verified(p)'
      BY <2>2, <2>3, <2>5, <3>2, <3>3 DEF Verified, AllNamed, Using, Saving
    <3>6. Packed(p)'
      BY <2>2, <2>3, <2>5, <3>2, <3>3, <3>4 DEF Packed, AllNamed, Saving
    <3>7. Saver(p)'
      BY <2>2, <2>3, <2>5, <3>2, <3>3 DEF Saver, Using, Saving
    <3> QED
      BY <2>3, <2>4, <3>5, <3>6, <3>7, CareQuiet
  <2> QED
    BY <2>6, <2>7
<1>18. ASSUME NEW p \in Processes, OpenPackage(p)
      PROVE  CareInv'
  <2>1. call[p] \in Calls /\ call[p].id \in Ids /\ Progress(p)
    BY <1>18, Named DEF OpenPackage, CallsSound, BuildInv
  <2>2. Verified(p) /\ Packed(p) /\ Saver(p) /\ Settled(call[p].id)
    BY <2>1 DEF CareInv, NameInv, PackInv, SaveInv
  <2> DEFINE c == [call[p] EXCEPT !.step = "pack", !.state = "packaging"]
  <2>3. GoOn(p, c, NotClean) /\ UNCHANGED <<dir, bound, damaged>>
    BY <1>18 DEF OpenPackage, Outside, Environment
  <2>4. call'[p] = c /\ \A q \in Processes \ {p} : Touched(call[q], call'[q])
    BY <2>3, OthersTouched DEF Proceeds
  <2>5. ASSUME NEW q \in Processes \ {p}, call'[q].clean PROVE call[q].id # call[p].id
    BY <2>3, <2>5 DEF GoOn, NotClean, CallsSound, Calls
  <2>6. \A id \in Ids \ {call[p].id} : package'[id] = package[id]
    BY <1>18 DEF OpenPackage, FilesTyped
  <2>7. /\ c.step = "pack" /\ c.id = call[p].id /\ c.todo = Labels /\ c.opened = "no"
        /\ c.clean = call[p].clean /\ c.alone = call[p].alone
    BY <1>18, <2>1, <2>2 DEF OpenPackage, Progress, Saver, Calls, Saving
  <2> HIDE DEF c
  <2>8. Verified(p)' /\ Packed(p)' /\ Saver(p)'
    BY <1>18, <2>2, <2>3, <2>4, <2>7 DEF OpenPackage, Verified, Packed, Saver, AllNamed, Using, Saving
  <2>9. \A q \in Processes : call[q].step \in {"pack", "hash"} => call[q].id \in Ids
    BY Named
  <2> QED
    BY <2>3, <2>4, <2>5, <2>6, <2>8, <2>9, CareKept
<1>19. ASSUME NEW p \in Processes, NEW l \in Labels, PackInput(p, l)
      PROVE  CareInv'
  <2>1. call[p] \in Calls /\ call[p].id \in Ids /\ Progress(p)
    BY <1>19, Named DEF PackInput, CallsSound, BuildInv
  <2>2. Verified(p) /\ Packed(p) /\ Saver(p) /\ Settled(call[p].id)
    BY <2>1 DEF CareInv, NameInv, PackInv, SaveInv
  <2> DEFINE c == Loop(l, call[p], "hash")
  <2>3. Proceeds(p, c) /\ UNCHANGED <<dir, bound, damaged>>
    BY <1>19 DEF PackInput, Proceeds, Outside, Environment
  <2>4. call'[p] = c /\ \A q \in Processes \ {p} : Touched(call[q], call'[q])
    BY <2>3, OthersTouched
  <2>5. \A id \in Ids, m \in Labels :
            package'[id][m] = IF id = call[p].id /\ m = l THEN dir[id].files[l] ELSE package[id][m]
    BY <1>19, <2>1 DEF PackInput, FilesTyped, Parts
  <2>6. call[p].step = "pack" /\ l \in call[p].todo
    BY <1>19 DEF PackInput
  <2>7. /\ c.step \in {"pack", "hash"} /\ c.id = call[p].id /\ c.opened = call[p].opened
        /\ c.clean = call[p].clean /\ c.alone = call[p].alone
        /\ c.step = "pack" => c.todo = call[p].todo \ {l}
        /\ c.step = "hash" => call[p].todo = {l}
    BY <2>1, <2>6 DEF Loop, Calls
  <2> HIDE DEF c
  <2>8. Verified(p)' /\ Saver(p)'
    BY <2>2, <2>3, <2>4, <2>6, <2>7 DEF Verified, Saver, AllNamed, Using, Saving
  <2>9. Packed(p)'
    BY <2>1, <2>2, <2>3, <2>4, <2>5, <2>6, <2>7 DEF Packed, AllNamed, Saving
  <2>10. ASSUME NEW q \in Processes \ {p}, call'[q].clean, call[q].step \in {"pack", "hash"}
         PROVE  \A m \in Labels : package'[call[q].id][m] \in {package[call[q].id][m], call[q].id[m]}
    <3>1. call[q].id \in Ids
      BY <2>10, Named
    <3>2. AllNamed(call[q].id)
      BY <2>4, <2>10 DEF Touched, CareInv, PackInv, Packed
    <3> QED
      BY <2>5, <3>1, <3>2 DEF AllNamed
  <2> QED
    BY <2>3, <2>4, <2>8, <2>9, <2>10, CareKept
<1>20. ASSUME NEW p \in Processes, HashPackage(p)
      PROVE  CareInv'
  <2>1. call[p] \in Calls /\ call[p].id \in Ids /\ Progress(p)
    BY <1>20, Named DEF HashPackage, CallsSound, BuildInv
  <2>2. Verified(p) /\ Packed(p) /\ Saver(p) /\ Settled(call[p].id)
    BY <2>1 DEF CareInv, NameInv, PackInv, SaveInv
  <2>3. UNCHANGED <<dir, package, bound, damaged>>
    BY <1>20 DEF HashPackage, Outside, Environment
  <2> DEFINE c == [call[p] EXCEPT !.packed = package[call[p].id],
                              !.state = "release-ready", !.step = "open"]
  <2>4. Proceeds(p, c)
    BY <1>20 DEF HashPackage, Proceeds
  <2>5. call'[p] = c
    BY <2>4, OthersTouched
  <2>6. /\ c.step = "open" /\ c.id = call[p].id /\ c.state = "release-ready" /\ c.opened = "no"
        /\ c.clean = call[p].clean /\ c.alone = call[p].alone /\ c.packed = package[call[p].id]
    BY <1>20, <2>1, <2>2 DEF HashPackage, Calls, Saver
  <2>7. Verified(p)'
    <3>1. call[p].step = "hash"
      BY <1>20 DEF HashPackage
    <3> HIDE DEF c
    <3> QED
      BY <2>2, <2>3, <2>5, <2>6, <3>1 DEF Verified, AllNamed, Using, Saving
  <2> HIDE DEF c
  <2>8. Packed(p)'
    <3>1. call[p].clean => \A l \in Labels : package[call[p].id][l] = call[p].id[l]
      BY <1>20, <2>2 DEF HashPackage, Packed
    <3>2. c.clean => \A l \in Labels : c.packed[l] = c.id[l]
      BY <2>6, <3>1
    <3> QED
      BY <2>5, <2>6, <3>2 DEF Packed, Saving
  <2>9. Saver(p)'
    BY <1>20, <2>2, <2>3, <2>5, <2>6, MovesMade DEF HashPackage, Saver, Using, Saving
  <2> QED
    BY <2>3, <2>4, <2>7, <2>8, <2>9, CareQuiet
<1>21. ASSUME NEW p \in Processes, OpenState(p)
      PROVE  CareInv'
  <2>1. call[p] \in Calls /\ call[p].id \in Ids /\ Progress(p)
    BY <1>21, Named DEF OpenState, CallsSound, BuildInv
  <2>2. Verified(p) /\ Packed(p) /\ Saver(p) /\ Settled(call[p].id)
    BY <2>1 DEF CareInv, NameInv, PackInv, SaveInv
  <2> DEFINE c == [call[p] EXCEPT !.opened = "tmp", !.step = "write"]
  <2>3. GoOn(p, c, NotAlone) /\ UNCHANGED <<package, bound, damaged>>
    BY <1>21 DEF OpenState, Outside, Environment
  <2>4. /\ call'[p] = c
        /\ \A q \in Processes \ {p} : /\ Touched(call[q], call'[q])
                                      /\ call[q].id = call[p].id => ~call'[q].alone
    BY <2>3, SaveIsSeen
  <2>5. /\ \A id \in Ids \ {call[p].id} : dir'[id] = dir[id]
        /\ \A id \in Ids : dir'[id].files = dir[id].files /\ dir'[id].state = dir[id].state
        /\ dir'[call[p].id].tmp = "torn"
    BY <1>21, <2>1 DEF OpenState, FilesTyped, Directory
  <2>6. /\ c.step = "write" /\ c.id = call[p].id /\ c.opened = "tmp" /\ c.state = call[p].state
        /\ c.clean = call[p].clean /\ c.alone = call[p].alone /\ c.packed = call[p].packed
    BY <2>1 DEF Calls
  <2> HIDE DEF c
  <2>7. Verified(p)' /\ Packed(p)'
    BY <1>21, <2>1, <2>2, <2>3, <2>4, <2>5, <2>6
       DEF OpenState, Verified, Packed, AllNamed, Using, Saving
  <2>8. Saver(p)'
    BY <1>21, <2>1, <2>2, <2>4, <2>5, <2>6 DEF OpenState, Saver, Using, Saving
  <2>9. \A q \in Processes : call[q].alone => call[q].id \in Ids
    BY Named DEF CareInv, SaveInv, Saver, Using, Saving
  <2>10. \A q \in Processes \ {p} : call'[q].alone => dir'[call[q].id] = dir[call[q].id]
    BY <2>4, <2>5, <2>9 DEF Touched
  <2>11. \A id \in Ids : dir'[id].tmp \in Decided => dir[id].tmp \in Decided
    BY <2>5 DEF Decided, CandidateState
  <2> QED
    BY <2>3, <2>4, <2>5, <2>7, <2>8, <2>10, <2>11, CareKept
<1>22. ASSUME NEW p \in Processes, WriteState(p)
      PROVE  CareInv'
  <2>1. call[p] \in Calls /\ call[p].id \in Ids /\ Progress(p)
    BY <1>22, Named DEF WriteState, CallsSound, BuildInv
  <2>2. Verified(p) /\ Packed(p) /\ Saver(p) /\ Settled(call[p].id)
    BY <2>1 DEF CareInv, NameInv, PackInv, SaveInv
  <2> DEFINE c == [call[p] EXCEPT !.step = "replace"]
             d == dir[call[p].id]
             t == [d EXCEPT !.tmp = Overwritten(d.tmp, call[p].state)]
             u == [d EXCEPT !.state = Overwritten(d.state, call[p].state)]
  <2>3. GoOn(p, c, NotAlone) /\ UNCHANGED <<package, bound, damaged>>
    BY <1>22 DEF WriteState, Outside, Environment
  <2>4. /\ call'[p] = c
        /\ \A q \in Processes \ {p} : /\ Touched(call[q], call'[q])
                                      /\ call[q].id = call[p].id => ~call'[q].alone
    BY <2>3, SaveIsSeen
  <2>5. call[p].step = "write"
    BY <1>22 DEF WriteState
  <2>6. /\ dir'[call[p].id] \in {t, u, d} /\ \A id \in Ids \ {call[p].id} : dir'[id] = dir[id]
        /\ call[p].opened = "tmp" => dir'[call[p].id] = t
    <3>1. \E x \in {t, u, d} : /\ dir' = [dir EXCEPT ![call[p].id] = x]
                               /\ call[p].opened = "tmp" => x = t
      BY <1>22 DEF WriteState
    <3> HIDE DEF t, u
    <3> QED
      BY <2>1, <3>1 DEF FilesTyped
  <2> DEFINE e == dir'[call[p].id]
  <2>8. /\ e.files = d.files
        /\ e.tmp \in {d.tmp, call[p].state, "torn"} /\ e.state \in {d.state, call[p].state, "torn"}
    <3>1. \A x \in {t, u, d} :
              /\ x.files = d.files /\ x.tmp \in {d.tmp, call[p].state, "torn"}
              /\ x.state \in {d.state, call[p].state, "torn"}
      BY <2>1 DEF FilesTyped, Directory, Overwritten
    <3> HIDE DEF t, u, d
    <3> QED
      BY <2>6, <3>1
  <2>9. call[p].opened = "tmp" /\ d.tmp = "torn" => e.tmp = call[p].state /\ e.state = d.state
    <3>1. d \in Directory
      BY <2>1 DEF FilesTyped
    <3>2. t.tmp = Overwritten(d.tmp, call[p].state) /\ t.state = d.state
      BY <3>1 DEF Directory
    <3>3. Overwritten("torn", call[p].state) = call[p].state
      BY DEF Overwritten, CandidateState
    <3> HIDE DEF t, u, d
    <3> QED
      BY <2>6, <3>2, <3>3
  <2>10. \A id \in Ids : dir'[id].files = dir[id].files
    BY <2>1, <2>6, <2>8
  <2>11. /\ c.step = "replace" /\ c.id = call[p].id /\ c.opened = call[p].opened
         /\ c.state = call[p].state
         /\ c.clean = call[p].clean /\ c.alone = call[p].alone /\ c.packed = call[p].packed
    BY <2>1 DEF Calls
  <2> HIDE DEF c, t, u
  <2>12. Verified(p)' /\ Packed(p)'
    BY <2>1, <2>2, <2>3, <2>4, <2>5, <2>10, <2>11 DEF Verified, Packed, AllNamed, Using, Saving
  <2>13. Saver(p)'
    BY <2>1, <2>2, <2>4, <2>5, <2>6, <2>9, <2>11 DEF Saver, Using, Saving
  <2>14. \A q \in Processes : call[q].alone => call[q].id \in Ids
    BY Named DEF CareInv, SaveInv, Saver, Using, Saving
  <2>15. \A q \in Processes \ {p} : call'[q].alone => dir'[call[q].id] = dir[call[q].id]
    BY <2>4, <2>6, <2>14 DEF Touched
  <2>16. call[p].state \in Decided => call[p].id \in damaged \/ AllNamed(call[p].id)
    BY <2>2, <2>5 DEF Verified, Decided, Using, Saving
  <2>17. \A id \in Ids :
            id \in bound' \/ dir'[id].state \in Decided \/ dir'[id].tmp \in Decided
            => \/ id \in bound \/ dir[id].state \in Decided \/ dir[id].tmp \in Decided
               \/ id \in damaged \/ AllNamed(id)
    BY <2>3, <2>6, <2>8, <2>16 DEF Decided, CandidateState
  <2> QED
    BY <2>3, <2>4, <2>10, <2>12, <2>13, <2>15, <2>17, CareKept
<1>23. ASSUME NEW p \in Processes, ReplaceState(p)
      PROVE  CareInv'
  <2>1. call[p] \in Calls /\ call[p].id \in Ids /\ Progress(p)
    BY <1>23, Named DEF ReplaceState, CallsSound, BuildInv
  <2>2. Verified(p) /\ Packed(p) /\ Saver(p) /\ Settled(call[p].id)
    BY <2>1 DEF CareInv, NameInv, PackInv, SaveInv
  <2>3. UNCHANGED <<package, bound, damaged>>
    BY <1>23 DEF ReplaceState, Outside, Environment
  <2>4. CASE dir[call[p].id].tmp = Absent
    <3>1. Proceeds(p, Idle) /\ dir' = dir
      BY <1>23, <2>4 DEF ReplaceState, Return, Proceeds
    <3>2. call'[p] = Idle
      BY <3>1, OthersTouched
    <3> QED
      BY <2>3, <3>1, <3>2, IdleAside, CareQuiet
         DEF Aside, Verified, Packed, Saver, Using, Saving
  <2>5. CASE dir[call[p].id].tmp # Absent
    <3>1. GoOn(p, Idle, Moved)
      BY <1>23, <2>5 DEF ReplaceState
    <3>2. /\ call'[p] = Idle
          /\ \A q \in Processes \ {p} : /\ Touched(call[q], call'[q])
                                        /\ call[q].id = call[p].id => ~call'[q].alone
      BY <3>1, SaveIsSeen
    <3>3. /\ \A id \in Ids \ {call[p].id} : dir'[id] = dir[id]
          /\ \A id \in Ids : dir'[id].files = dir[id].files
          /\ dir'[call[p].id].tmp = Absent /\ dir'[call[p].id].state = dir[call[p].id].tmp
      BY <1>23, <2>1, <2>5 DEF ReplaceState, FilesTyped, Directory
    <3>4. Verified(p)' /\ Packed(p)' /\ Saver(p)'
      BY <3>2, IdleAside DEF Aside, Verified, Packed, Saver, Using, Saving
    <3>5. \A q \in Processes : call[q].alone => call[q].id \in Ids
      BY Named DEF CareInv, SaveInv, Saver, Using, Saving
    <3>6. \A q \in Processes \ {p} : call'[q].alone => dir'[call[q].id] = dir[call[q].id]
      BY <3>2, <3>3, <3>5 DEF Touched
    <3>7. Absent \notin Decided
      BY AbsentAssumption DEF Decided
    <3> QED
      BY <2>3, <3>2, <3>3, <3>4, <3>6, <3>7, CareKept
  <2> QED
    BY <2>4, <2>5
<1>24. ASSUME NEW p \in Processes, Stop(p)
      PROVE  CareInv'
  <2>1. Proceeds(p, Idle) /\ UNCHANGED <<dir, package, bound, damaged>>
    BY <1>24 DEF Stop, Return, Proceeds, Outside, Environment
  <2> QED
    BY <2>1, IdleAside, CareBefore
<1>25. ASSUME NEW l \in Labels, NEW v \in Values, Edit(l, v)
      PROVE  CareInv'
  BY <1>25 DEF Edit, CareInv, NameInv, PackInv, SaveInv, Verified, Settled, Packed, Saver, AllNamed
<1>26. ASSUME NEW i \in Ids, NEW l \in Labels, NEW v \in Values, Damage(i, l, v)
      PROVE  CareInv'
  <2>1. \A q \in Processes : Touched(call[q], call'[q])
    BY <1>26, MeetingsTouch DEF Damage, CallsSound
  <2>2. \A q \in Processes : call[q].id = i => ~call'[q].clean
    BY <1>26 DEF Damage, CallsSound, Calls, NotClean
  <2>3. \A id \in Ids : dir'[id].state = dir[id].state /\ dir'[id].tmp = dir[id].tmp
    BY <1>26 DEF Damage, FilesTyped, Directory
  <2>4. \A id \in Ids \ {i} : dir'[id] = dir[id]
    BY <1>26 DEF Damage, FilesTyped
  <2>5. damaged' = damaged \cup {i} /\ bound' = bound /\ package' = package
    BY <1>26 DEF Damage
  <2>6. \A q \in Processes : call[q].step \notin {"idle", "scan"} => call[q].id \in Ids
    BY Named
  <2>7. ASSUME NEW q \in Processes PROVE Verified(q)' /\ Packed(q)'
    BY <2>1, <2>2, <2>4, <2>5, <2>6
       DEF CareInv, NameInv, PackInv, Verified, Packed, AllNamed, Touched, Same, Using, Saving
  <2>8. ASSUME NEW q \in Processes PROVE Saver(q)'
    BY <2>1, <2>3, <2>6 DEF CareInv, SaveInv, Saver, Touched, Same, Using, Saving
  <2>9. ASSUME NEW id \in Ids PROVE Settled(id)'
    BY <2>3, <2>4, <2>5 DEF CareInv, NameInv, Settled, AllNamed
  <2> QED
    BY <2>7, <2>8, <2>9 DEF CareInv, NameInv, PackInv, SaveInv
<1> QED
  BY <1>1, <1>2, <1>3, <1>4, <1>5, <1>6, <1>7, <1>8, <1>9, <1>10, <1>11, <1>12, <1>13, <1>14, <1>15, <1>16, <1>17, <1>18, <1>19, <1>20, <1>21, <1>22, <1>23, <1>24, <1>25, <1>26 DEF Next, Act

-----------------------------------------------------------------------------
(* The theorems.                                                           *)

CandidateInv == TypeOK /\ BuildInv /\ CareInv

\* The inductive invariant holds in every reachable state.
LEMMA CandidateInvariant == Spec => []CandidateInv
<1>1. Init => CandidateInv
  BY TypeInit, BuildInit, CareInit DEF CandidateInv
<1>2. CandidateInv /\ [Next]_vars => CandidateInv'
  BY TypeNext, BuildNext, CareNext DEF CandidateInv
<1> QED
  BY <1>1, <1>2, PTL DEF Spec

\* However many processes freeze the same inputs, one of them writes.
THEOREM FreezersExcluded == Spec => []OneFreezer
<1>1. CandidateInv => OneFreezer
  BY DEF CandidateInv, BuildInv, Apart, OneFreezer, Freezing, Using
<1> QED
  BY <1>1, CandidateInvariant, PTL

\* A candidate that loads is complete and so is its parent, wherever freezes
\* stopped.
THEOREM LoadedIsWhole == Spec => []LineageWhole
<1>1. CandidateInv => LineageWhole
  BY DEF CandidateInv, BuildInv, Built, Whole, HasFiles, LineageWhole, Loadable
<1> QED
  BY <1>1, CandidateInvariant, PTL

\* What missions are bound to and decide on is what the id names.
THEOREM DecidesOnNamed == Spec => []DecidedAsNamed
<1>1. ASSUME CandidateInv, NEW id \in Ids \ damaged,
             id \in bound \/ dir[id].state \in {"verifying", "approved", "release-ready"}
      PROVE  dir[id].files = id
  <2>1. AllNamed(id)
    BY <1>1 DEF CandidateInv, CareInv, NameInv, Settled, Decided, CandidateState
  <2>2. dir[id].files \in [Labels -> Values \cup {Absent}] /\ id \in [Labels -> Values]
    BY <1>1 DEF CandidateInv, TypeOK, Directory, Parts, Ids
  <2> QED
    BY <2>1, <2>2 DEF AllNamed
<1>2. CandidateInv => DecidedAsNamed
  BY <1>1 DEF DecidedAsNamed
<1> QED
  BY <1>2, CandidateInvariant, PTL

\* The digest of a release that nobody disturbed is of the candidate's files.
THEOREM PackagesCandidate == Spec => []PackageIsCandidate
<1>1. ASSUME CandidateInv, NEW p \in Processes, call[p].clean, call[p].step \in Saving
      PROVE  call[p].packed = call[p].id
  <2>1. \A l \in Labels : call[p].packed[l] = call[p].id[l]
    BY <1>1 DEF CandidateInv, CareInv, PackInv, Packed
  <2>2. call[p].packed \in [Labels -> Values \cup {Absent}]
        /\ call[p].id \in [Labels -> Values \cup {Absent}]
    BY <1>1 DEF CandidateInv, TypeOK, Calls, Parts
  <2> QED
    BY <2>1, <2>2
<1>2. CandidateInv => PackageIsCandidate
  BY <1>1 DEF PackageIsCandidate, Saving
<1> QED
  BY <1>2, CandidateInvariant, PTL

\* Only processes that meet can tear a state or break the transition table.
THEOREM SavesInOrder == Spec => SavesFollowTable
<1> DEFINE Followed(id) ==
        \/ dir'[id].state = dir[id].state
        \/ Moves(dir[id].state, dir'[id].state)
        \/ <<dir[id].state, dir'[id].state>> \in {<<Absent, "torn">>, <<"torn", "frozen">>}
        \/ \E p \in Processes : call[p].id = id /\ call[p].opened # "no" /\ ~call[p].alone
<1>1. ASSUME CandidateInv, NEW p \in Processes, NEW id \in Ids, id = call[p].id,
             CreateState(p) \/ InitialState(p) \/ WriteState(p) \/ ReplaceState(p)
      PROVE  Followed(id)
  <2>0. dir \in [Ids -> Directory] /\ Progress(p) /\ Saver(p) /\ call[p] \in Calls
    BY <1>1 DEF CandidateInv, TypeOK, BuildInv, CareInv, SaveInv
  <2>1. CASE CreateState(p)
    <3>1. dir[id].state = Absent /\ dir'[id].state = "torn"
      BY <1>1, <2>0, <2>1 DEF CreateState, Progress, Directory
    <3> QED
      BY <3>1
  <2>2. CASE InitialState(p)
    <3>1. dir[id].state = "torn" /\ dir'[id].state = "frozen"
      BY <1>1, <2>0, <2>2 DEF InitialState, Progress, Directory
    <3> QED
      BY <3>1
  <2>3. CASE WriteState(p)
    <3>1. call[p].opened # "no"
      BY <2>0, <2>3 DEF WriteState, Saver
    <3>2. CASE call[p].alone
      <4>1. call[p].opened = "tmp"
        BY <2>0, <3>1, <3>2 DEF Saver
      <4>2. dir' = [dir EXCEPT ![id] =
                [dir[id] EXCEPT !.tmp = Overwritten(dir[id].tmp, call[p].state)]]
        BY <1>1, <2>3, <4>1 DEF WriteState
      <4>3. dir'[id].state = dir[id].state
        BY <2>0, <4>2 DEF Directory
      <4> QED
        BY <4>3
    <3> QED
      BY <1>1, <3>1, <3>2
  <2>4. CASE ReplaceState(p)
    <3>1. call[p].opened # "no"
      BY <2>0, <2>4 DEF ReplaceState, Saver
    <3>2. CASE call[p].alone
      <4>1. Moves(dir[id].state, call[p].state) /\ dir[id].tmp = call[p].state
        BY <1>1, <2>0, <2>4, <3>2 DEF ReplaceState, Saver, Saving
      <4>2. dir'[id].state \in {dir[id].state, dir[id].tmp}
        BY <1>1, <2>0, <2>4 DEF ReplaceState, Directory
      <4> QED
        BY <4>1, <4>2
    <3> QED
      BY <1>1, <3>1, <3>2
  <2> QED
    BY <1>1, <2>1, <2>2, <2>3, <2>4
<1>2. ASSUME CandidateInv, [Next]_vars, NEW id \in Ids,
             ~ \E p \in Processes : /\ id = call[p].id
                                    /\ \/ CreateState(p) \/ InitialState(p)
                                       \/ WriteState(p) \/ ReplaceState(p)
      PROVE  dir'[id].state = dir[id].state
  <2>1. dir \in [Ids -> Directory]
    BY <1>2 DEF CandidateInv, TypeOK
  <2>2. ASSUME NEW p \in Processes,
               \/ MakeDirectory(p) \/ \E l \in Labels : CopyInput(p, l)
               \/ WriteManifest(p) \/ WriteDigest(p) \/ OpenState(p)
        PROVE  dir'[id].state = dir[id].state
    <3>1. CASE MakeDirectory(p)
      BY <2>1, <3>1 DEF MakeDirectory, Directory
    <3>2. ASSUME NEW l \in Labels, CopyInput(p, l) PROVE dir'[id].state = dir[id].state
      BY <2>1, <3>2 DEF CopyInput, Directory
    <3>3. CASE WriteManifest(p)
      BY <2>1, <3>3 DEF WriteManifest, Directory
    <3>4. CASE WriteDigest(p)
      BY <2>1, <3>4 DEF WriteDigest, Directory
    <3>5. CASE OpenState(p)
      BY <2>1, <3>5 DEF OpenState, Directory
    <3> QED
      BY <2>2, <3>1, <3>2, <3>3, <3>4, <3>5
  <2>3. ASSUME NEW p \in Processes,
               CreateState(p) \/ InitialState(p) \/ WriteState(p) \/ ReplaceState(p)
        PROVE  dir'[id].state = dir[id].state
    <3>1. id # call[p].id
      BY <1>2, <2>3
    <3> QED
      BY <2>1, <2>3, <3>1 DEF CreateState, InitialState, WriteState, ReplaceState
  <2>4. ASSUME NEW i \in Ids, NEW l \in Labels, NEW v \in Values, Damage(i, l, v)
        PROVE  dir'[id].state = dir[id].state
    BY <2>1, <2>4 DEF Damage, Directory
  <2>5. ASSUME NEW p \in Processes,
               \/ \E parent \in Ids \cup {Absent} : BeginFreeze(p, parent)
               \/ \E l \in Labels : ScanInput(p, l)
               \/ CheckExists(p)
               \/ \E op \in Operations, i \in Ids : BeginUse(p, op, i)
               \/ \E l \in Labels : VerifyInput(p, l)
               \/ BindFrozen(p) \/ RecordEvidence(p) \/ ApproveCandidate(p) \/ BeginPackage(p)
               \/ \E l \in Labels : RecheckInput(p, l)
               \/ OpenPackage(p)
               \/ \E l \in Labels : PackInput(p, l)
               \/ HashPackage(p) \/ Stop(p)
        PROVE  dir' = dir
    BY <2>5 DEF BeginFreeze, ScanInput, CheckExists, BeginUse, VerifyInput, BindFrozen,
        RecordEvidence, ApproveCandidate, BeginPackage, RecheckInput, OpenPackage, PackInput,
        HashPackage, Stop
  <2>6. ASSUME NEW l \in Labels, NEW v \in Values, Edit(l, v) PROVE dir' = dir
    BY <2>6 DEF Edit
  <2>7. CASE UNCHANGED vars
    BY <2>7 DEF vars
  <2>8. CASE Next
    <3>1. ASSUME NEW p \in Processes, Act(p) PROVE dir'[id].state = dir[id].state
      BY <2>2, <2>3, <2>5, <3>1 DEF Act
    <3> QED
      BY <2>4, <2>6, <2>8, <3>1 DEF Next
  <2> QED
    BY <1>2, <2>7, <2>8
<1>3. CandidateInv /\ [Next]_vars => [\A id \in Ids : Followed(id)]_dir
  BY <1>1, <1>2
<1> QED
  BY <1>3, CandidateInvariant, PTL DEF Spec, SavesFollowTable

=============================================================================
