----------------------------- MODULE Authority ------------------------------
(***************************************************************************)
(* The authority grants of one task as a SQLite table shared by processes: *)
(* revoke_issued, issue and consume of src/agent_harness/authority.py,     *)
(* statement by statement, and the clock they are compared with.  The      *)
(* process that answers for the task revokes and issues; any process may   *)
(* be handed a token and consume it.                                       *)
(*                                                                         *)
(* consume() takes the write lock (BEGIN IMMEDIATE), reads the row, checks *)
(* it, and updates it on the condition that it is still unspent.  The      *)
(* UPDATE of revoke_issued and the INSERT of issue are transactions of     *)
(* their own.  A token stands for its grant, and the bindings of a grant   *)
(* that are compared for equality for the one that changes in the life of  *)
(* a task: its attempt.                                                    *)
(***************************************************************************)
EXTENDS Integers

CONSTANTS Processes, Grants, Operations,
          Lifetime,    \* expires_at is this long after the issue
          MaxTime,     \* bound: ticks of the clock
          MaxAttempt,  \* bound: attempts of the task
          NoOne

ASSUME ProcessAssumption == NoOne \notin Processes
ASSUME OperationsAssumption == Operations # {}
ASSUME TimeAssumption == /\ Lifetime \in Nat /\ MaxTime \in Nat
                         /\ MaxAttempt \in Nat

VARIABLES
    table,    \* the rows: per grant its operation, attempt, expiry and status
    attempt,  \* the attempt the task is at
    lock,     \* the process inside BEGIN IMMEDIATE, or NoOne
    step,     \* per process: the next statement of its consume()
    request,  \* per process: the grant it presents, for which operation and attempt
    now,
    uses      \* history: per grant, how often consume() granted it, and when checked

vars == <<table, attempt, lock, step, request, now, uses>>

Status == {"unused", "ISSUED", "REVOKED", "CONSUMED"}

Row == [operation : Operations, attempt : Nat, expires : Nat, status : Status]

Steps == {"idle", "begin", "check", "update"}

AnyOperation == CHOOSE operation \in Operations : TRUE

Init ==
    /\ table = [g \in Grants |-> [operation |-> AnyOperation, attempt |-> 0,
                                  expires |-> 0, status |-> "unused"]]
    /\ attempt = 1 /\ lock = NoOne /\ now = 0
    /\ step = [p \in Processes |-> "idle"]
    /\ request \in [Processes -> [grant : Grants, operation : Operations, attempt : {1}]]
    /\ uses = [g \in Grants |-> 0]

Goto(p, next) == step' = [step EXCEPT ![p] = next]

-----------------------------------------------------------------------------

\* Mutant: rows of every status are revoked.
RevokeAll(operation) ==
    /\ lock = NoOne
    /\ table' = [g \in Grants |-> IF table[g].operation = operation
                                  THEN [table[g] EXCEPT !.status = "REVOKED"] ELSE table[g]]
    /\ UNCHANGED <<attempt, lock, step, request, now, uses>>

RevokeIssued(operation) ==
    /\ lock = NoOne
    /\ table' = [g \in Grants |->
           IF table[g].status = "ISSUED" /\ table[g].operation = operation
           THEN [table[g] EXCEPT !.status = "REVOKED"] ELSE table[g]]
    /\ UNCHANGED <<attempt, lock, step, request, now, uses>>

\* Mutant: the lifetime is taken off the present time.
ExpiryInThePast == now - Lifetime

Expiry == now + Lifetime

Issue(g, operation) ==
    /\ lock = NoOne
    /\ table[g].status = "unused"
    /\ table' = [table EXCEPT ![g] = [operation |-> operation, attempt |-> attempt,
                                      expires |-> Expiry, status |-> "ISSUED"]]
    /\ UNCHANGED <<attempt, lock, step, request, now, uses>>

\* The task is retried; grants of the old attempt stay in the table.
NextAttempt ==
    /\ attempt < MaxAttempt
    /\ attempt' = attempt + 1
    /\ UNCHANGED <<table, lock, step, request, now, uses>>

\* A call hands over a token; the request is built from the task as the call
\* loaded it.
Present(p, g, operation) ==
    /\ step[p] = "idle"
    /\ request' = [request EXCEPT ![p] = [grant |-> g, operation |-> operation,
                                          attempt |-> attempt]]
    /\ Goto(p, "begin")
    /\ UNCHANGED <<table, attempt, lock, now, uses>>

\* Mutant: BEGIN DEFERRED takes no lock.
BeginDeferred(p) ==
    /\ step[p] = "begin"
    /\ Goto(p, "check")
    /\ UNCHANGED <<table, attempt, lock, request, now, uses>>

BeginImmediate(p) ==
    /\ step[p] = "begin" /\ lock = NoOne
    /\ lock' = p
    /\ Goto(p, "check")
    /\ UNCHANGED <<table, attempt, request, now, uses>>

Acceptable(row, r) ==
    /\ row.status = "ISSUED"
    /\ now < row.expires
    /\ row.attempt = r.attempt
    /\ row.operation = r.operation

\* The row is read and checked; a check that fails raises, and the transaction
\* is rolled back.
CheckGrant(p) ==
    /\ step[p] = "check"
    /\ IF Acceptable(table[request[p].grant], request[p])
       THEN Goto(p, "update") /\ UNCHANGED lock
       ELSE Goto(p, "idle") /\ lock' = NoOne
    /\ UNCHANGED <<table, attempt, request, now, uses>>

\* Mutant: the use is counted and the status left.
SpentAgain(row) == row

Spent(row) == [row EXCEPT !.status = "CONSUMED"]

\* UPDATE ... WHERE status = 'ISSUED', and the COMMIT.
UpdateGrant(p) ==
    /\ step[p] = "update"
    /\ LET g == request[p].grant
       IN IF table[g].status = "ISSUED"
          THEN /\ table' = [table EXCEPT ![g] = Spent(table[g])]
               /\ uses' = [uses EXCEPT ![g] = @ + 1]
          ELSE UNCHANGED <<table, uses>>
    /\ Goto(p, "idle")
    /\ lock' = NoOne
    /\ UNCHANGED <<attempt, request, now>>

\* The process dies or gives up waiting for the lock.
Rollback(p) ==
    /\ step[p] # "idle"
    /\ Goto(p, "idle")
    /\ lock' = IF lock = p THEN NoOne ELSE lock
    /\ UNCHANGED <<table, attempt, request, now, uses>>

Tick ==
    /\ now < MaxTime
    /\ now' = now + 1
    /\ UNCHANGED <<table, attempt, lock, step, request, uses>>

Next ==
    \/ \E operation \in Operations : RevokeIssued(operation)
    \/ \E g \in Grants, operation \in Operations : Issue(g, operation)
    \/ NextAttempt
    \/ \E p \in Processes :
          \/ \E g \in Grants, operation \in Operations : Present(p, g, operation)
          \/ BeginImmediate(p)
          \/ CheckGrant(p)
          \/ UpdateGrant(p)
          \/ Rollback(p)
    \/ Tick

Spec == Init /\ [][Next]_vars

-----------------------------------------------------------------------------
(* Properties.                                                             *)

TypeOK ==
    /\ table \in [Grants -> Row]
    /\ attempt \in Nat /\ now \in Nat
    /\ lock \in Processes \cup {NoOne}
    /\ step \in [Processes -> Steps]
    /\ request \in [Processes -> [grant : Grants, operation : Operations, attempt : Nat]]
    /\ uses \in [Grants -> Nat]

\* A token buys one operation once: however many processes are handed the same
\* token at the same moment, consume() grants at most one of them, and the row
\* says so.  (consume, max_uses = 1)
OneUse == \A g \in Grants : uses[g] = IF table[g].status = "CONSUMED" THEN 1 ELSE 0

\* A grant that was checked is spent or abandoned before anybody else can
\* revoke it, consume it or check another: between the SELECT and the UPDATE
\* the row still is what was read.
CheckedStaysTrue ==
    \A p \in Processes : step[p] = "update" =>
        LET row == table[request[p].grant]
        IN /\ row.status = "ISSUED"
           /\ row.operation = request[p].operation /\ row.attempt = request[p].attempt

\* Revoked and consumed grants never become usable again, and nothing but its
\* status changes in an issued one: a retry or an expiry can not be undone by
\* writing to the table.
GrantsOnlyEnd ==
    [][ \A g \in Grants :
            /\ table[g].status \in {"REVOKED", "CONSUMED"} => table'[g] = table[g]
            /\ table[g].status = "ISSUED" =>
                   /\ table'[g].status \in {"ISSUED", "REVOKED", "CONSUMED"}
                   /\ table'[g].expires = table[g].expires
                   /\ table'[g].attempt = table[g].attempt ]_table
=============================================================================
