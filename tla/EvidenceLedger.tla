--------------------------- MODULE EvidenceLedger ---------------------------
(***************************************************************************)
(* The evidence ledger as a SQLite file: EvidenceLedger._append_event of   *)
(* src/agent_harness/evidence.py, statement by statement, for append()     *)
(* and invalidate().                                                       *)
(*                                                                         *)
(* The connection is in Python's default transaction mode: a SELECT runs   *)
(* on its own, and the first INSERT opens the transaction and takes the    *)
(* write lock, which is held to the commit.  When a new artifact is bound, *)
(* that INSERT comes before the last hash is read; for an artifact that is *)
(* bound already, and for an invalidation, it comes after.                 *)
(*                                                                         *)
(* Calls of one process are serialised by the service's lock; a writer is  *)
(* therefore a process.  As in EventStore a hash is what it is computed    *)
(* from; an event is known by its sequence number, which is as unique as   *)
(* its random id.                                                          *)
(***************************************************************************)
EXTENDS Integers, Sequences

CONSTANTS Writers,
          Artifacts,   \* digests of evidence files
          Targets,     \* mission, revision and candidate an artifact belongs to
          MaxEvents,   \* bound: events in the ledger
          NoOne, None

ASSUME LedgerAssumption == NoOne \notin Writers /\ None \notin Targets
                               /\ MaxEvents \in Nat

VARIABLES
    events,    \* the committed rows of evidence_events, in sequence order
    bindings,  \* the committed rows of evidence_artifact_bindings
    lock,      \* the writer whose transaction holds the write lock, or NoOne
    step,      \* per writer: the next statement of its _append_event
    call,      \* per writer: the event it appends
    bound,     \* per writer: the artifact its open transaction has bound, or not
    last       \* per writer: the last record's hash as it read it

vars == <<events, bindings, lock, step, call, bound, last>>

ZeroHash == <<>>
Hash(e) == <<e.id, e.type, e.subject, e.artifact, e.target, e.previous>>

LastHash == IF events = <<>> THEN ZeroHash ELSE Hash(events[Len(events)])

Kinds == {"evidence", "invalidation"}
Steps == {"idle", "bind", "read", "insert"}

Unset == [type |-> "evidence", subject |-> 0, artifact |-> None, target |-> None]

Init ==
    /\ events = <<>> /\ lock = NoOne
    /\ bindings = [a \in Artifacts |-> None]
    /\ step = [w \in Writers |-> "idle"]
    /\ call = [w \in Writers |-> Unset]
    /\ bound = [w \in Writers |-> FALSE]
    /\ last = [w \in Writers |-> ZeroHash]

Goto(w, next) == step' = [step EXCEPT ![w] = next]

NewEvent(w, type, subject, a, target) ==
    /\ step[w] = "idle"
    /\ call' = [call EXCEPT ![w] = [type |-> type, subject |-> subject,
                                    artifact |-> a, target |-> target]]
    /\ UNCHANGED <<events, bindings, lock, bound, last>>

CallAppend(w, a, target) ==
    NewEvent(w, "evidence", 0, a, target) /\ Goto(w, "bind")

\* invalidate(): the event to invalidate is read first.
CallInvalidate(w, i) ==
    /\ events[i].type = "evidence"
    /\ NewEvent(w, "invalidation", events[i].id, events[i].artifact, events[i].target)
    /\ Goto(w, "read")

\* Mutant: an artifact that is bound is bound to whoever asks.
BoundToAnybody(a, target) == FALSE

BoundElsewhere(a, target) == bindings[a] \notin {None, target}

\* SELECT of the artifact's binding, and the INSERT when there is none.  The
\* INSERT waits for the write lock; by then another writer may have bound the
\* artifact, and the primary key makes it fail.
BindArtifact(w) ==
    /\ step[w] = "bind"
    /\ LET a == call[w].artifact
       IN \/ /\ bindings[a] = None
             /\ lock = NoOne
             /\ lock' = w
             /\ bound' = [bound EXCEPT ![w] = TRUE]
             /\ Goto(w, "read")
          \/ /\ bindings[a] # None /\ ~BoundElsewhere(a, call[w].target)
             /\ Goto(w, "read")
             /\ UNCHANGED <<lock, bound>>
          \/ \* Bound to another target: refused.
             /\ BoundElsewhere(a, call[w].target)
             /\ Goto(w, "idle")
             /\ UNCHANGED <<lock, bound>>
    /\ UNCHANGED <<events, bindings, call, last>>

ReadLast(w) ==
    /\ step[w] = "read"
    /\ last' = [last EXCEPT ![w] = LastHash]
    /\ Goto(w, "insert")
    /\ UNCHANGED <<events, bindings, lock, call, bound>>

NewRow(w) == [id |-> Len(events) + 1, type |-> call[w].type, subject |-> call[w].subject,
              artifact |-> call[w].artifact, target |-> call[w].target,
              previous |-> last[w]]

Inserted(w) == Append(events, NewRow(w))

\* Mutant: the row of the binding is not written.
BindingsUnwritten(w) == bindings

BindingsWritten(w) ==
    IF bound[w] THEN [bindings EXCEPT ![call[w].artifact] = call[w].target] ELSE bindings

\* The INSERT takes the write lock unless the transaction has it, and the
\* commit follows at once; both rows of the transaction become visible.
InsertAndCommit(w) ==
    /\ step[w] = "insert"
    /\ lock \in {NoOne, w} /\ Len(events) < MaxEvents
    /\ events' = Inserted(w)
    /\ bindings' = BindingsWritten(w)
    /\ bound' = [bound EXCEPT ![w] = FALSE]
    /\ lock' = NoOne
    /\ Goto(w, "idle")
    /\ UNCHANGED <<call, last>>

\* The process dies, the lock is not to be had, or a key is taken.
Rollback(w) ==
    /\ step[w] # "idle"
    /\ lock' = IF lock = w THEN NoOne ELSE lock
    /\ bound' = [bound EXCEPT ![w] = FALSE]
    /\ Goto(w, "idle")
    /\ UNCHANGED <<events, bindings, call, last>>

Next ==
    \E w \in Writers :
        \/ \E a \in Artifacts, target \in Targets : CallAppend(w, a, target)
        \/ \E i \in DOMAIN events : CallInvalidate(w, i)
        \/ BindArtifact(w)
        \/ ReadLast(w)
        \/ InsertAndCommit(w)
        \/ Rollback(w)

Spec == Init /\ [][Next]_vars

-----------------------------------------------------------------------------
(* Properties.                                                             *)

TypeOK ==
    /\ DOMAIN events = 1..Len(events)
    /\ \A i \in DOMAIN events :
          /\ events[i].id \in Nat \ {0} /\ events[i].type \in Kinds
          /\ events[i].artifact \in Artifacts /\ events[i].target \in Targets
    /\ bindings \in [Artifacts -> Targets \cup {None}]
    /\ lock \in Writers \cup {NoOne}
    /\ step \in [Writers -> Steps]
    /\ bound \in [Writers -> BOOLEAN]

\* verify_chain(): every record carries the hash of the one before it.
\* (REQ-EVD-001)
ChainValid ==
    \A i \in DOMAIN events :
        events[i].previous = IF i = 1 THEN ZeroHash ELSE Hash(events[i - 1])

\* The binding table says exactly what the evidence events say, so that opening
\* the ledger, which compares the two and refuses a difference, never fails.
\* (EvidenceLedger._initialize)
BindingsMatchEvents ==
    /\ \A i \in DOMAIN events :
          events[i].type = "evidence" => bindings[events[i].artifact] = events[i].target
    /\ \A a \in Artifacts : bindings[a] # None =>
          \E i \in DOMAIN events : events[i].type = "evidence" /\ events[i].artifact = a

\* Evidence of one target is never counted for another: two records of the same
\* file agree on mission, revision and candidate, whoever wrote them when.
\* (REQ-EVD-004)
OneTargetPerArtifact ==
    \A i, j \in DOMAIN events :
        events[i].artifact = events[j].artifact => events[i].target = events[j].target
=============================================================================
