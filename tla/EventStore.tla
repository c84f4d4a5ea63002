----------------------------- MODULE EventStore -----------------------------
(***************************************************************************)
(* The append-only event log of one mission as a SQLite file shared by     *)
(* processes: WorkflowEventStore.append of                                 *)
(* src/agent_harness/workflow_state.py, statement by statement.  Service   *)
(* takes an append to be one step; here is why it may.                     *)
(*                                                                         *)
(* BEGIN IMMEDIATE takes the database's write lock; the two SELECTs, the   *)
(* INSERT and the COMMIT follow under it.  A writer that dies or raises    *)
(* before its COMMIT is rolled back, so the INSERT and the COMMIT are one  *)
(* step: nobody sees a row in between.                                     *)
(*                                                                         *)
(* A hash is modelled by what it is computed from, so two hashes are equal *)
(* exactly when their events are; an event id is a number never used       *)
(* before.                                                                 *)
(***************************************************************************)
EXTENDS Integers, Sequences

CONSTANTS Writers,   \* processes that append to the log
          CommandIds,
          Bodies,    \* revision, event type and payload of an event
          MaxEvents, \* bound: events in the log
          NoOne, Nothing

ASSUME WritersAssumption == NoOne \notin Writers
ASSUME EventBound == MaxEvents \in Nat

VARIABLES
    rows,    \* the committed events, in the order of their sequence numbers
    lock,    \* the writer that holds the write lock, or NoOne
    step,    \* per writer: the next statement of its append
    call,    \* per writer: the command and body it appends
    last,    \* per writer: sequence and hash of the last row, as it read them
    replies  \* history: <<command, body, event>> of the appends that returned

vars == <<rows, lock, step, call, last, replies>>

ZeroHash == <<>>

\* The hash covers the event and, through previous, all events before it.
Hash(e) == <<e.command, e.body, e.sequence, e.previous>>

Steps == {"idle", "begin", "lookup", "read", "insert"}
Locked == {"lookup", "read", "insert"}

Init ==
    /\ rows = <<>> /\ lock = NoOne /\ replies = {}
    /\ step = [w \in Writers |-> "idle"]
    /\ call = [w \in Writers |-> Nothing]
    /\ last = [w \in Writers |-> [sequence |-> 0, hash |-> ZeroHash]]

Goto(w, next) == step' = [step EXCEPT ![w] = next]

\* append() is called.
CallAppend(w, c, b) ==
    /\ step[w] = "idle"
    /\ call' = [call EXCEPT ![w] = [command |-> c, body |-> b]]
    /\ Goto(w, "begin")
    /\ UNCHANGED <<rows, lock, last, replies>>

\* Mutant: BEGIN DEFERRED takes no lock.
BeginDeferred(w) ==
    /\ step[w] = "begin"
    /\ Goto(w, "lookup")
    /\ UNCHANGED <<rows, lock, call, last, replies>>

BeginImmediate(w) ==
    /\ step[w] = "begin" /\ lock = NoOne
    /\ lock' = w
    /\ Goto(w, "lookup")
    /\ UNCHANGED <<rows, call, last, replies>>

\* Mutant: no command is ever recognised.
KnownNever(c) == {}

Known(c) == {i \in DOMAIN rows : rows[i].command = c}

\* Mutant: the command id alone decides.
SameEventById(e, w) == e.command = call[w].command

SameEvent(e, w) == e.body = call[w].body

\* The transaction is over and the connection closed.
Close(w) == lock' = NoOne /\ Goto(w, "idle") /\ UNCHANGED <<call, last>>

\* The command id is looked up: an event of the same command and body is the
\* answer, one of another body is a conflict.
LookupCommand(w) ==
    /\ step[w] = "lookup"
    /\ UNCHANGED rows
    /\ \/ /\ Known(call[w].command) = {}
          /\ Goto(w, "read")
          /\ UNCHANGED <<lock, call, last, replies>>
       \/ \E i \in Known(call[w].command) :
             /\ Close(w)
             /\ replies' = IF SameEvent(rows[i], w)
                           THEN replies \cup {<<call[w].command, call[w].body, rows[i]>>}
                           ELSE replies

LastSequence == IF rows = <<>> THEN 0 ELSE rows[Len(rows)].sequence

ReadLast(w) ==
    /\ step[w] = "read"
    /\ last' = [last EXCEPT ![w] =
           [sequence |-> LastSequence,
            hash     |-> IF rows = <<>> THEN ZeroHash ELSE Hash(rows[Len(rows)])]]
    /\ Goto(w, "insert")
    /\ UNCHANGED <<rows, lock, call, replies>>

NewRow(w) == [command  |-> call[w].command, body |-> call[w].body,
              sequence |-> last[w].sequence + 1, previous |-> last[w].hash]

\* Mutant: INSERT OR REPLACE on the sequence number of the last row.
InsertedOver(w) == IF rows = <<>> THEN <<NewRow(w)>> ELSE [rows EXCEPT ![Len(rows)] = NewRow(w)]

Inserted(w) == Append(rows, NewRow(w))

InsertAndCommit(w) ==
    /\ step[w] = "insert"
    /\ Len(rows) < MaxEvents
    /\ rows' = Inserted(w)
    /\ replies' = replies \cup {<<call[w].command, call[w].body, NewRow(w)>>}
    /\ Close(w)

\* The process dies, or waited too long for the lock: SQLite drops what was not
\* committed.
Rollback(w) ==
    /\ step[w] # "idle"
    /\ lock' = IF lock = w THEN NoOne ELSE lock
    /\ Goto(w, "idle")
    /\ UNCHANGED <<rows, call, last, replies>>

Next ==
    \E w \in Writers :
        \/ \E c \in CommandIds, b \in Bodies : CallAppend(w, c, b)
        \/ BeginImmediate(w)
        \/ LookupCommand(w)
        \/ ReadLast(w)
        \/ InsertAndCommit(w)
        \/ Rollback(w)

Spec == Init /\ [][Next]_vars

-----------------------------------------------------------------------------
(* Properties.                                                             *)

IsRow(e) ==
    /\ DOMAIN e = {"command", "body", "sequence", "previous"}
    /\ e.command \in CommandIds /\ e.body \in Bodies /\ e.sequence \in Nat

TypeOK ==
    /\ DOMAIN rows = 1..Len(rows) /\ \A i \in DOMAIN rows : IsRow(rows[i])
    /\ lock \in Writers \cup {NoOne}
    /\ step \in [Writers -> Steps]
    /\ \A w \in Writers : step[w] # "idle" => call[w] \in [command : CommandIds, body : Bodies]
    /\ \A w \in Writers : last[w].sequence \in Nat

\* verify_chain() holds of the committed rows whenever anybody reads them:
\* however many writers there are and wherever they die, sequence numbers have
\* no gap and every row carries the hash of the one before it.
ChainHolds ==
    \A i \in DOMAIN rows :
        /\ rows[i].sequence = i
        /\ rows[i].previous = IF i = 1 THEN ZeroHash ELSE Hash(rows[i - 1])

\* A command is applied once: a retried append returns the first event and
\* does not add another.
OneEventPerCommand ==
    \A i, j \in DOMAIN rows : rows[i].command = rows[j].command => i = j

\* Whoever got an event back got the event of his own command and body, and it
\* is in the log for good.
RepliesDurable ==
    \A r \in replies : \E i \in DOMAIN rows :
        /\ rows[i] = r[3]
        /\ rows[i].command = r[1] /\ rows[i].body = r[2]

\* However many processes append, repeat and die, the log is what one process
\* would make of it that applies one command at a time (append): the events by
\* their commands and bodies, the answers by the place of the event.
Abstract == INSTANCE CommandLog
    WITH events  <- [i \in DOMAIN rows |-> [command |-> rows[i].command, body |-> rows[i].body]],
         answers <- {<<r[1], r[2], r[3].sequence>> : r \in replies}

ImplementsCommandLog == Abstract!Spec
=============================================================================
