--------------------------- MODULE CandidateStore ---------------------------
(***************************************************************************)
(* The candidate directories of one mission as files that processes share: *)
(* freeze_candidate, get, verify_snapshot and save_state of                *)
(* src/agent_harness/candidate.py, ReleasePackager.package of release.py,  *)
(* and what the four calls of plugin_service.py do with them.  The lock of *)
(* the service is one of its process, every call makes a store of its own, *)
(* and the data directory is the user's: processes meet in the files only. *)
(*                                                                         *)
(* A step reads or writes one file, or one input of a candidate, and a     *)
(* process may die or raise after any.  An id is what the inputs contained *)
(* when they were scanned, so Ids are functions of labels; the manifest    *)
(* says what the id says, and names the parent.                            *)
(***************************************************************************)
EXTENDS Integers

CONSTANTS Processes, Labels, Values,
          Absent,     \* no file, no entry, no parent
          MaxChanges, \* bound: changes of files, of the inputs or in a candidate
          MaxCalls    \* bound: calls that are begun

ASSUME LabelsAssumption == Labels # {}
ASSUME BoundsAssumption == MaxChanges \in Nat /\ MaxCalls \in Nat

VARIABLES
    inputs,   \* the files in the build directories, per label
    dir,      \* the candidate directories
    package,  \* the zip file of each candidate
    bound,    \* the candidates missions were bound to
    call,     \* per process: its running call
    changes, calls,
    damaged   \* history: candidates of which a file was changed

vars == <<inputs, dir, package, bound, call, changes, calls, damaged>>

Ids == [Labels -> Values]

\* The inputs of a candidate while they are scanned, copied or packed.
Parts == [Labels -> Values \cup {Absent}]

Nothing == [l \in Labels |-> Absent]

CandidateState == {"frozen", "verifying", "reviewing", "approved", "packaging",
                   "release-ready", "review-failed", "corrupt"}

\* What a state file holds; "torn" does not parse, as an empty file does not.
StateFile == CandidateState \cup {"torn", Absent}

ASSUME AbsentAssumption == Absent \notin Values \cup Ids \cup CandidateState \cup {"torn"}

Directory == [made : BOOLEAN, files : Parts, manifest : BOOLEAN, digest : BOOLEAN,
              parent : Ids \cup {Absent}, state : StateFile, tmp : StateFile]

NoDirectory == [made |-> FALSE, files |-> Nothing, manifest |-> FALSE, digest |-> FALSE,
                parent |-> Absent, state |-> Absent, tmp |-> Absent]

Operations == {"freeze", "evidence", "approve", "package"}

Steps == {"idle", "scan", "exists", "mkdir", "copy", "manifest", "digest", "create",
          "initial", "verify", "decide", "recheck", "zip", "pack", "hash",
          "open", "write", "replace"}

\* todo are the labels a loop has not come to; opened says where the file is
\* that the process opened as state.json.tmp; packed is what its digest is of.
\* History: alone, nobody else has saved a state since this call has read it;
\* clean, no file was changed and nobody else has packed since this call has
\* begun to verify for its package.
Calls == [op : Operations, step : Steps, id : Parts, parent : Ids \cup {Absent},
          todo : SUBSET Labels, state : CandidateState,
          opened : {"no", "tmp", "state", "gone"}, packed : Parts,
          alone : BOOLEAN, clean : BOOLEAN]

Idle == [op |-> "freeze", step |-> "idle", id |-> Nothing, parent |-> Absent, todo |-> {},
         state |-> "frozen", opened |-> "no", packed |-> Nothing,
         alone |-> FALSE, clean |-> FALSE]

Init ==
    /\ inputs \in Ids
    /\ dir = [id \in Ids |-> NoDirectory]
    /\ package = [id \in Ids |-> Nothing]
    /\ bound = {}
    /\ call = [p \in Processes |-> Idle]
    /\ changes = 0 /\ calls = 0
    /\ damaged = {}

Goto(p, next) == call' = [call EXCEPT ![p].step = next]

Return(p) == call' = [call EXCEPT ![p] = Idle]

\* A loop over the labels comes to l; after the last one it goes on at next.
Loop(l, c, next) ==
    [c EXCEPT !.todo = IF @ = {l} THEN Labels ELSE @ \ {l},
          !.step = IF c.todo = {l} THEN next ELSE @]

\* p goes on as c, and Met is what becomes of the other calls at its candidate.
GoOn(p, c, Met(_)) ==
    call' = [q \in Processes |-> IF q = p THEN c
                                ELSE IF call[q].id = call[p].id THEN Met(call[q]) ELSE call[q]]

NotAlone(c) == [c EXCEPT !.alone = FALSE]
NotClean(c) == [c EXCEPT !.clean = FALSE]

Environment == UNCHANGED <<inputs, changes, damaged>>
Outside == Environment /\ UNCHANGED calls

-----------------------------------------------------------------------------
(* freeze_candidate.                                                       *)

\* What get() needs to find: a manifest, its digest, and a state that parses.
Loadable(id) ==
    /\ dir[id].manifest /\ dir[id].digest
    /\ dir[id].state \in CandidateState

BeginFreeze(p, parent) ==
    /\ call[p].step = "idle" /\ calls < MaxCalls
    /\ parent # Absent => Loadable(parent)
    /\ call' = [call EXCEPT ![p] = [Idle EXCEPT !.step = "scan", !.todo = Labels,
                                                !.parent = parent]]
    /\ calls' = calls + 1
    /\ UNCHANGED <<dir, package, bound>> /\ Environment

\* Mutant: the scan ends with the first label.
ScanFirst(p, l) ==
    /\ call[p].step = "scan" /\ l \in call[p].todo
    /\ call' = [call EXCEPT ![p].id[l] = inputs[l], ![p].step = "exists"]
    /\ UNCHANGED <<dir, package, bound>> /\ Outside

ScanInput(p, l) ==
    /\ call[p].step = "scan" /\ l \in call[p].todo
    /\ call' = [call EXCEPT ![p] = Loop(l, [call[p] EXCEPT !.id[l] = inputs[l]], "exists")]
    /\ UNCHANGED <<dir, package, bound>> /\ Outside

CheckExists(p) ==
    /\ call[p].step = "exists"
    /\ IF dir[call[p].id].made THEN Return(p) ELSE Goto(p, "mkdir")
    /\ UNCHANGED <<dir, package, bound>> /\ Outside

\* Mutant: mkdir(exist_ok=True).
MakeDirectoryExistOk(p) ==
    /\ call[p].step = "mkdir"
    /\ dir' = [dir EXCEPT ![call[p].id].made = TRUE]
    /\ Goto(p, "copy")
    /\ UNCHANGED <<package, bound>> /\ Outside

\* Mutant: manifest, digest and state are written before the files are copied.
MakeDescribed(p) ==
    /\ call[p].step = "mkdir" /\ ~dir[call[p].id].made
    /\ dir' = [dir EXCEPT ![call[p].id] = [@ EXCEPT !.made = TRUE, !.manifest = TRUE,
                                                    !.digest = TRUE, !.state = "frozen"]]
    /\ Goto(p, "copy")
    /\ UNCHANGED <<package, bound>> /\ Outside

\* mkdir raises if somebody else came first.
MakeDirectory(p) ==
    /\ call[p].step = "mkdir"
    /\ IF dir[call[p].id].made
       THEN Return(p) /\ UNCHANGED dir
       ELSE /\ dir' = [dir EXCEPT ![call[p].id].made = TRUE]
            /\ Goto(p, "copy")
    /\ UNCHANGED <<package, bound>> /\ Outside

CopyInput(p, l) ==
    /\ call[p].step = "copy" /\ l \in call[p].todo
    /\ dir' = [dir EXCEPT ![call[p].id].files[l] = inputs[l]]
    /\ call' = [call EXCEPT ![p] = Loop(l, call[p], "manifest")]
    /\ UNCHANGED <<package, bound>> /\ Outside

WriteManifest(p) ==
    /\ call[p].step = "manifest"
    /\ dir' = [dir EXCEPT ![call[p].id].manifest = TRUE,
                          ![call[p].id].parent = call[p].parent]
    /\ Goto(p, "digest")
    /\ UNCHANGED <<package, bound>> /\ Outside

WriteDigest(p) ==
    /\ call[p].step = "digest"
    /\ dir' = [dir EXCEPT ![call[p].id].digest = TRUE]
    /\ Goto(p, "create")
    /\ UNCHANGED <<package, bound>> /\ Outside

\* The first state is written in place: the file is empty until it is.
CreateState(p) ==
    /\ call[p].step = "create"
    /\ dir' = [dir EXCEPT ![call[p].id].state = "torn"]
    /\ Goto(p, "initial")
    /\ UNCHANGED <<package, bound>> /\ Outside

InitialState(p) ==
    /\ call[p].step = "initial"
    /\ dir' = [dir EXCEPT ![call[p].id].state = "frozen"]
    /\ GoOn(p, [call[p] EXCEPT !.step = "verify", !.alone = TRUE], NotAlone)
    /\ UNCHANGED <<package, bound>> /\ Outside

-----------------------------------------------------------------------------
(* get, verify_snapshot, and the decision of the call.                     *)

BeginUse(p, op, id) ==
    /\ call[p].step = "idle" /\ calls < MaxCalls
    /\ op \in Operations \ {"freeze"} /\ id \in bound /\ Loadable(id)
    /\ call' = [call EXCEPT ![p] = [Idle EXCEPT !.op = op, !.step = "verify", !.id = id,
                                                !.todo = Labels, !.state = dir[id].state,
                                                !.alone = TRUE]]
    /\ calls' = calls + 1
    /\ UNCHANGED <<dir, package, bound>> /\ Environment

\* Mutant: files that are there are taken for the right ones.
HasSomeFiles(id, l) == dir[id].files[l] # Absent

AsNamed(id, l) == dir[id].files[l] = id[l]

\* A candidate that does not verify is corrupt, and saved as that.
VerifyInput(p, l) ==
    /\ call[p].step = "verify" /\ l \in call[p].todo
    /\ call' = [call EXCEPT ![p] =
           IF AsNamed(call[p].id, l) THEN Loop(l, call[p], "decide")
           ELSE [call[p] EXCEPT !.state = "corrupt", !.step = "open"]]
    /\ UNCHANGED <<dir, package, bound>> /\ Outside

BindFrozen(p) ==
    /\ call[p].step = "decide" /\ call[p].op = "freeze"
    /\ bound' = bound \cup {call[p].id}
    /\ Return(p)
    /\ UNCHANGED <<dir, package>> /\ Outside

\* The transition table, and its use in the calls.
Allowed == { <<"frozen", "verifying">>,
             <<"verifying", "reviewing">>, <<"verifying", "review-failed">>,
             <<"reviewing", "approved">>, <<"reviewing", "review-failed">>,
             <<"approved", "packaging">>, <<"packaging", "release-ready">> }
           \cup {<<s, "corrupt">> : s \in {"frozen", "verifying", "reviewing",
                                         "approved", "packaging"}}

MovesOnEvidence(state) == state = "frozen"

RecordEvidence(p) ==
    /\ call[p].step = "decide" /\ call[p].op = "evidence"
    /\ IF MovesOnEvidence(call[p].state)
       THEN call' = [call EXCEPT ![p].state = "verifying", ![p].step = "open"]
       ELSE Return(p)
    /\ UNCHANGED <<dir, package, bound>> /\ Outside

Reviewing(state) == IF state = "verifying" THEN "reviewing" ELSE state

\* The gate refuses or approves; a refusal leaves the state that was saved.
ApproveCandidate(p) ==
    /\ call[p].step = "decide" /\ call[p].op = "approve"
    /\ \/ /\ Reviewing(call[p].state) = "reviewing"
          /\ call' = [call EXCEPT ![p].state = "approved", ![p].step = "open"]
       \/ Return(p)
    /\ UNCHANGED <<dir, package, bound>> /\ Outside

-----------------------------------------------------------------------------
(* ReleasePackager.package.                                                *)

BeginPackage(p) ==
    /\ call[p].step = "decide" /\ call[p].op = "package"
    /\ IF call[p].state = "approved"
       THEN call' = [call EXCEPT ![p].step = "recheck", ![p].clean = TRUE]
       ELSE Return(p)
    /\ UNCHANGED <<dir, package, bound>> /\ Outside

\* Mutant: the packager takes the caller's verification for his own.
Unchecked(p, l) ==
    /\ call[p].step = "recheck" /\ l \in call[p].todo
    /\ call' = [call EXCEPT ![p] = Loop(l, call[p], "zip")]
    /\ UNCHANGED <<dir, package, bound>> /\ Outside

\* The files are verified again; here a mismatch raises and saves nothing.
RecheckInput(p, l) ==
    /\ call[p].step = "recheck" /\ l \in call[p].todo
    /\ call' = [call EXCEPT ![p] =
           IF AsNamed(call[p].id, l) THEN Loop(l, call[p], "zip") ELSE Idle]
    /\ UNCHANGED <<dir, package, bound>> /\ Outside

\* Opening the file for writing empties it, also under another packager.
OpenPackage(p) ==
    /\ call[p].step = "zip"
    /\ package' = [package EXCEPT ![call[p].id] = Nothing]
    /\ GoOn(p, [call[p] EXCEPT !.step = "pack", !.state = "packaging"], NotClean)
    /\ UNCHANGED <<dir, bound>> /\ Outside

PackInput(p, l) ==
    /\ call[p].step = "pack" /\ l \in call[p].todo
    /\ package' = [package EXCEPT ![call[p].id][l] = dir[call[p].id].files[l]]
    /\ call' = [call EXCEPT ![p] = Loop(l, call[p], "hash")]
    /\ UNCHANGED <<dir, bound>> /\ Outside

HashPackage(p) ==
    /\ call[p].step = "hash"
    /\ call' = [call EXCEPT ![p].packed = package[call[p].id],
                            ![p].state = "release-ready", ![p].step = "open"]
    /\ UNCHANGED <<dir, package, bound>> /\ Outside

-----------------------------------------------------------------------------
(* save_state.                                                             *)

\* Mutant: the state is written where it is read.
OpenInPlace(p) ==
    /\ call[p].step = "open"
    /\ dir' = [dir EXCEPT ![call[p].id].state = "torn", ![call[p].id].tmp = call[p].state]
    /\ GoOn(p, [call[p] EXCEPT !.opened = "state", !.step = "write"], NotAlone)
    /\ UNCHANGED <<package, bound>> /\ Outside

\* state.json.tmp is opened and emptied: one name for all processes.
OpenState(p) ==
    /\ call[p].step = "open"
    /\ dir' = [dir EXCEPT ![call[p].id].tmp = "torn"]
    /\ GoOn(p, [call[p] EXCEPT !.opened = "tmp", !.step = "write"], NotAlone)
    /\ UNCHANGED <<package, bound>> /\ Outside

Length(state) ==
    CASE state = "frozen" -> 6 [] state = "corrupt" -> 7 [] state = "approved" -> 8
      [] state \in {"verifying", "reviewing", "packaging"} -> 9
      [] OTHER -> 13

\* A text is written over what another process has written to the same file.
Overwritten(old, new) ==
    IF old \in CandidateState /\ Length(old) > Length(new) THEN "torn" ELSE new

\* The text goes to the file that was opened, wherever that has been moved.
WriteState(p) ==
    /\ call[p].step = "write"
    /\ LET d == dir[call[p].id]
       IN dir' = [dir EXCEPT ![call[p].id] =
             CASE call[p].opened = "tmp"   -> [d EXCEPT !.tmp = Overwritten(d.tmp, call[p].state)]
               [] call[p].opened = "state" -> [d EXCEPT !.state = Overwritten(d.state, call[p].state)]
               [] OTHER -> d]
    /\ GoOn(p, [call[p] EXCEPT !.step = "replace"], NotAlone)
    /\ UNCHANGED <<package, bound>> /\ Outside

\* What another process has open moves with its name, or loses it.
Moved(c) ==
    [c EXCEPT !.alone = FALSE,
              !.opened = CASE @ = "tmp" -> "state" [] @ = "state" -> "gone" [] OTHER -> @]

\* os.replace, which raises if somebody else has moved the file.
ReplaceState(p) ==
    /\ call[p].step = "replace"
    /\ IF dir[call[p].id].tmp = Absent
       THEN Return(p) /\ UNCHANGED dir
       ELSE /\ dir' = [dir EXCEPT ![call[p].id].state = dir[call[p].id].tmp,
                                  ![call[p].id].tmp = Absent]
            /\ GoOn(p, Idle, Moved)
    /\ UNCHANGED <<package, bound>> /\ Outside

-----------------------------------------------------------------------------
(* Faults.                                                                 *)

\* The process dies, or the call raises.
Stop(p) ==
    /\ call[p].step # "idle"
    /\ Return(p)
    /\ UNCHANGED <<dir, package, bound>> /\ Outside

\* Somebody goes on working in the build directories.
Edit(l, v) ==
    /\ changes < MaxChanges
    /\ inputs' = [inputs EXCEPT ![l] = v]
    /\ changes' = changes + 1
    /\ UNCHANGED <<dir, package, bound, call, calls, damaged>>

\* A file of a candidate changes.
Damage(id, l, v) ==
    /\ changes < MaxChanges /\ dir[id].files[l] # Absent
    /\ dir' = [dir EXCEPT ![id].files[l] = v]
    /\ changes' = changes + 1
    /\ damaged' = damaged \cup {id}
    /\ call' = [p \in Processes |-> IF call[p].id = id THEN NotClean(call[p]) ELSE call[p]]
    /\ UNCHANGED <<inputs, package, bound, calls>>

Act(p) ==
    \/ \E parent \in Ids \cup {Absent} : BeginFreeze(p, parent)
    \/ \E l \in Labels : ScanInput(p, l)
    \/ CheckExists(p) \/ MakeDirectory(p)
    \/ \E l \in Labels : CopyInput(p, l)
    \/ WriteManifest(p) \/ WriteDigest(p) \/ CreateState(p) \/ InitialState(p)
    \/ \E op \in Operations, id \in Ids : BeginUse(p, op, id)
    \/ \E l \in Labels : VerifyInput(p, l)
    \/ BindFrozen(p) \/ RecordEvidence(p) \/ ApproveCandidate(p)
    \/ BeginPackage(p)
    \/ \E l \in Labels : RecheckInput(p, l)
    \/ OpenPackage(p)
    \/ \E l \in Labels : PackInput(p, l)
    \/ HashPackage(p)
    \/ OpenState(p) \/ WriteState(p) \/ ReplaceState(p)
    \/ Stop(p)

Next ==
    \/ \E p \in Processes : Act(p)
    \/ \E l \in Labels, v \in Values : Edit(l, v)
    \/ \E id \in Ids, l \in Labels, v \in Values : Damage(id, l, v)

Spec == Init /\ [][Next]_vars

-----------------------------------------------------------------------------
(* Properties.                                                             *)

TypeOK ==
    /\ inputs \in Ids
    /\ dir \in [Ids -> Directory]
    /\ package \in [Ids -> Parts]
    /\ bound \subseteq Ids
    /\ call \in [Processes -> Calls]
    /\ \A p \in Processes, l \in Labels :
           \/ call[p].step = "idle"
           \/ call[p].step = "scan" /\ l \in call[p].todo
           \/ call[p].id[l] \in Values
    /\ changes \in Nat /\ calls \in Nat
    /\ damaged \subseteq Ids

\* Nobody but the process that made the directory copies into it: of two that
\* freeze the same inputs one is refused, in whatever order they look and make.
\* (freeze_candidate: the test for the path, then mkdir)
OneFreezer ==
    \A p, q \in Processes :
        /\ p # q /\ call[p].id = call[q].id
        /\ call[p].step \in {"copy", "manifest", "digest", "create", "initial"}
        => call[q].step \notin {"copy", "manifest", "digest", "create", "initial"}

\* A candidate that can be loaded has all its files, and so has its parent,
\* which is another one: what a freeze that died has left is never taken for a
\* candidate, not by a child either.  (freeze_candidate writes manifest, digest
\* and state last; get wants all three)
LineageWhole ==
    \A id \in Ids : Loadable(id) =>
        /\ \A l \in Labels : dir[id].files[l] # Absent
        /\ dir[id].parent # Absent =>
               /\ dir[id].parent # id
               /\ dir[dir[id].parent].manifest
               /\ \A l \in Labels : dir[dir[id].parent].files[l] # Absent

\* Unless a file was changed in the candidate, what a mission is bound to, and
\* what has begun to be verified, approved or packaged, consists of the files
\* its id names, though the inputs changed between the scan and the copy.
\* (freeze_candidate of the service verifies before it binds)
DecidedAsNamed ==
    \A id \in Ids \ damaged :
        id \in bound \/ dir[id].state \in {"verifying", "approved", "release-ready"}
        => dir[id].files = id

\* The digest that is bound as the release is of a package with the files the
\* candidate's id names, unless after the packager began to verify a file was
\* changed or another process packed the same candidate.
\* (package: verify_snapshot, ZipFile, _sha256; REQ-CAN-002, REQ-POL-002)
PackageIsCandidate ==
    \A p \in Processes :
        call[p].clean /\ call[p].step \in {"open", "write", "replace"}
        => call[p].packed = call[p].id

\* What one call may save over what it has read.
Moves(from, to) ==
    \/ <<from, to>> \in Allowed
    \/ \E s \in {"reviewing", "packaging"} : <<from, s>> \in Allowed /\ <<s, to>> \in Allowed
    \/ from \in CandidateState /\ to = "corrupt"

\* The state of a candidate stays readable and follows the transition table,
\* or turns to corrupt, through every crash: save_state only breaks this when
\* two processes were at the candidate at once.  (save_state: temporary file
\* and replace; the lock of plugin_service.py:40 is one of the process)
SavesFollowTable ==
    [][ \A id \in Ids :
            \/ dir'[id].state = dir[id].state
            \/ Moves(dir[id].state, dir'[id].state)
            \/ <<dir[id].state, dir'[id].state>> \in {<<Absent, "torn">>, <<"torn", "frozen">>}
            \/ \E p \in Processes :
                   call[p].id = id /\ call[p].opened # "no" /\ ~call[p].alone ]_dir
=============================================================================
