-------------------------- MODULE EventStoreProofs --------------------------
(***************************************************************************)
(* The event log keeps its promises for any set of writers, commands and   *)
(* bodies and any bound on its length: proofs about EventStore.            *)
(***************************************************************************)
EXTENDS EventStore, SequenceTheorems, TLAPS

IsLog == \E S : rows \in Seq(S)

PerWriter == DOMAIN call = Writers /\ DOMAIN last = Writers

\* A writer is between BEGIN IMMEDIATE and its commit exactly when it holds
\* the lock.
LockHeld == \A w \in Writers : step[w] \in Locked <=> lock = w

\* What a lock holder has read of the log is still so.
LookedUp(w) == step[w] \in {"read", "insert"} => Known(call[w].command) = {}

HasRead(w) ==
    step[w] = "insert" =>
        /\ last[w].sequence = Len(rows)
        /\ last[w].hash = IF rows = <<>> THEN ZeroHash ELSE Hash(rows[Len(rows)])

IInv ==
    /\ TypeOK
    /\ IsLog
    /\ PerWriter
    /\ LockHeld
    /\ \A w \in Writers : LookedUp(w) /\ HasRead(w)
    /\ ChainHolds
    /\ OneEventPerCommand
    /\ RepliesDurable

-----------------------------------------------------------------------------

\* What Append does to a log.
LEMMA AppendedLog ==
    ASSUME IsLog, NEW e
    PROVE  /\ Len(rows) \in Nat /\ DOMAIN rows = 1..Len(rows)
           /\ rows = <<>> <=> Len(rows) = 0
           /\ \E S : Append(rows, e) \in Seq(S)
           /\ Len(Append(rows, e)) = Len(rows) + 1
           /\ DOMAIN Append(rows, e) = 1..(Len(rows) + 1)
           /\ \A i \in 1..Len(rows) : Append(rows, e)[i] = rows[i]
           /\ Append(rows, e)[Len(rows) + 1] = e
<1>1. PICK S : rows \in Seq(S)
  BY DEF IsLog
<1>2. rows \in Seq(S \cup {e})
  BY <1>1, SeqMonotonic
<1>3. /\ Append(rows, e) \in Seq(S \cup {e})
      /\ Len(Append(rows, e)) = Len(rows) + 1
      /\ \A i \in 1..Len(rows) : Append(rows, e)[i] = rows[i]
      /\ Append(rows, e)[Len(rows) + 1] = e
  BY <1>2, AppendProperties
<1>4. Len(rows) \in Nat /\ DOMAIN rows = 1..Len(rows) /\ (rows = <<>> <=> Len(rows) = 0)
  BY <1>1, LenProperties, EmptySeq
<1>5. DOMAIN Append(rows, e) = 1..(Len(rows) + 1)
  BY <1>3, LenProperties
<1> QED
  BY <1>3, <1>4, <1>5

-----------------------------------------------------------------------------

\* The empty log satisfies the invariant.
LEMMA InitIInv == Init => IInv
<1> SUFFICES ASSUME Init PROVE IInv
  OBVIOUS
<1> USE DEF Init
<1>1. rows \in Seq({}) /\ Len(rows) = 0 /\ DOMAIN rows = 1..Len(rows)
  BY EmptySeq, LenProperties
<1>2. TypeOK /\ PerWriter
  BY <1>1 DEF TypeOK, PerWriter, Steps
<1>3. LockHeld
  BY WritersAssumption DEF LockHeld, Locked
<1>4. \A w \in Writers : LookedUp(w) /\ HasRead(w)
  BY DEF LookedUp, HasRead
<1>5. ChainHolds /\ OneEventPerCommand /\ RepliesDurable
  BY <1>1 DEF ChainHolds, OneEventPerCommand, RepliesDurable
<1> QED
  BY <1>1, <1>2, <1>3, <1>4, <1>5 DEF IInv, IsLog

\* A step that leaves the rows and the replies alone leaves alone what is said
\* of them.
LEMMA RowsUnchanged ==
    IInv /\ UNCHANGED <<rows, replies>> =>
        IsLog' /\ ChainHolds' /\ OneEventPerCommand' /\ RepliesDurable'
<1> SUFFICES ASSUME IInv, UNCHANGED <<rows, replies>>
             PROVE  IsLog' /\ ChainHolds' /\ OneEventPerCommand' /\ RepliesDurable'
  OBVIOUS
<1>1. IsLog' /\ ChainHolds' /\ OneEventPerCommand'
  BY DEF IInv, IsLog, ChainHolds, OneEventPerCommand, ZeroHash, Hash
<1>2. RepliesDurable'
  BY DEF IInv, RepliesDurable
<1> QED
  BY <1>1, <1>2

\* Every statement of every writer preserves the invariant.
LEMMA StepIInv == IInv /\ [Next]_vars => IInv'
<1> SUFFICES ASSUME IInv, [Next]_vars PROVE IInv'
  OBVIOUS
<1> USE DEF IInv
<1>1. ASSUME NEW w \in Writers, NEW c \in CommandIds, NEW b \in Bodies, CallAppend(w, c, b)
      PROVE  IInv'
  <2> USE <1>1 DEF CallAppend, Goto
  <2>1. (TypeOK /\ PerWriter)'
    BY DEF TypeOK, PerWriter, IsRow, Steps
  <2>2. LockHeld'
    BY DEF LockHeld, Locked, TypeOK
  <2>3. \A x \in Writers : (LookedUp(x) /\ HasRead(x))'
    BY DEF LookedUp, HasRead, Known, TypeOK, PerWriter, Steps, ZeroHash, Hash
  <2> QED
    BY <2>1, <2>2, <2>3, RowsUnchanged
<1>2. ASSUME NEW w \in Writers, BeginImmediate(w)
      PROVE  IInv'
  <2> USE <1>2 DEF BeginImmediate, Goto
  <2>1. (TypeOK /\ PerWriter)'
    BY DEF TypeOK, PerWriter, IsRow, Steps
  <2>2. LockHeld'
    BY WritersAssumption DEF LockHeld, Locked, TypeOK
  <2>3. \A x \in Writers : (LookedUp(x) /\ HasRead(x))'
    BY DEF LookedUp, HasRead, Known, TypeOK, PerWriter, Steps, ZeroHash, Hash
  <2> QED
    BY <2>1, <2>2, <2>3, RowsUnchanged
<1>3. ASSUME NEW w \in Writers, LookupCommand(w)
      PROVE  IInv'
  <2> USE <1>3
  <2>1. CASE Known(call[w].command) = {} /\ Goto(w, "read")
                 /\ UNCHANGED <<lock, call, last, replies>>
    <3> USE <2>1 DEF LookupCommand, Goto
    <3>1. (TypeOK /\ PerWriter)'
      BY DEF TypeOK, PerWriter, IsRow, Steps
    <3>2. LockHeld'
      BY DEF LockHeld, Locked, TypeOK
    <3>3. \A x \in Writers : LookedUp(x)'
      BY DEF LookedUp, Known, TypeOK, PerWriter, Steps
    <3>4. \A x \in Writers : HasRead(x)'
      BY DEF HasRead, TypeOK, PerWriter, Steps, ZeroHash, Hash
    <3> QED
      BY <3>1, <3>2, <3>3, <3>4, RowsUnchanged
  <2>2. ASSUME NEW i \in Known(call[w].command), Close(w), UNCHANGED rows, step[w] = "lookup",
               replies' = IF SameEvent(rows[i], w)
                          THEN replies \cup {<<call[w].command, call[w].body, rows[i]>>}
                          ELSE replies
        PROVE  IInv'
    <3> USE <2>2 DEF Close, Goto
    <3>1. (TypeOK /\ PerWriter)'
      BY DEF TypeOK, PerWriter, IsRow, Steps
    <3>2. LockHeld'
      BY WritersAssumption DEF LockHeld, Locked, TypeOK
    <3>3. \A x \in Writers : (LookedUp(x) /\ HasRead(x))'
      BY DEF LookedUp, HasRead, Known, TypeOK, PerWriter, Steps, ZeroHash, Hash
    <3>4. IsLog' /\ ChainHolds' /\ OneEventPerCommand'
      BY DEF IsLog, ChainHolds, OneEventPerCommand, ZeroHash, Hash
    <3>5. i \in DOMAIN rows /\ rows[i].command = call[w].command
      BY DEF Known
    <3>6. RepliesDurable'
      BY <3>5 DEF RepliesDurable, SameEvent
    <3> QED
      BY <3>1, <3>2, <3>3, <3>4, <3>6
  <2> QED
    BY <2>1, <2>2 DEF LookupCommand
<1>4. ASSUME NEW w \in Writers, ReadLast(w)
      PROVE  IInv'
  <2> USE <1>4 DEF ReadLast, Goto
  <2>1. Len(rows) \in Nat /\ (rows = <<>> <=> Len(rows) = 0) /\ DOMAIN rows = 1..Len(rows)
    BY LenProperties, EmptySeq DEF IsLog
  <2>2. LastSequence = Len(rows)
    BY <2>1 DEF LastSequence, ChainHolds
  <2>3. (TypeOK /\ PerWriter)'
    BY <2>1, <2>2 DEF TypeOK, PerWriter, IsRow, Steps
  <2>4. LockHeld'
    BY DEF LockHeld, Locked, TypeOK
  <2>5. \A x \in Writers : (LookedUp(x) /\ HasRead(x))'
    BY <2>2 DEF LookedUp, HasRead, Known, TypeOK, PerWriter, Steps, ZeroHash, Hash
  <2> QED
    BY <2>3, <2>4, <2>5, RowsUnchanged
<1>5. ASSUME NEW w \in Writers, InsertAndCommit(w)
      PROVE  IInv'
  <2> USE <1>5 DEF InsertAndCommit, Close, Goto, Inserted
  <2> DEFINE row == NewRow(w)
             n == Len(rows)
  <2>1. /\ n \in Nat /\ (rows = <<>> <=> n = 0) /\ DOMAIN rows = 1..n
        /\ Len(rows') = n + 1 /\ DOMAIN rows' = 1..(n + 1)
        /\ \A i \in 1..n : rows'[i] = rows[i]
        /\ rows'[n + 1] = row
        /\ IsLog'
    <3>1. IsLog /\ rows' = Append(rows, row)
      OBVIOUS
    <3> HIDE DEF row
    <3> QED
      BY ONLY <3>1, AppendedLog DEF IsLog
  <2>2. Known(call[w].command) = {} /\ call[w] \in [command : CommandIds, body : Bodies]
    BY DEF LookedUp, TypeOK
  <2>3. /\ row.command = call[w].command /\ row.body = call[w].body
        /\ row.sequence = n + 1
        /\ row.previous = IF rows = <<>> THEN ZeroHash ELSE Hash(rows[n])
        /\ DOMAIN row = {"command", "body", "sequence", "previous"}
    BY DEF NewRow, HasRead
  <2> HIDE DEF row
  <2>4. (TypeOK /\ PerWriter)'
    <3>1. \A i \in DOMAIN rows' : IsRow(rows'[i])
      BY <2>1, <2>2, <2>3 DEF TypeOK, IsRow
    <3> QED
      BY <2>1, <3>1 DEF TypeOK, PerWriter, Steps, IsRow
  <2>5. LockHeld'
    BY WritersAssumption DEF LockHeld, Locked, TypeOK
  <2>6. \A x \in Writers : x # w => step[x] \notin Locked
    BY DEF LockHeld, Locked
  <2>7. \A x \in Writers : (LookedUp(x) /\ HasRead(x))'
    BY <2>6 DEF LookedUp, HasRead, Locked, TypeOK, Steps
  <2>8. ChainHolds'
    <3> SUFFICES ASSUME NEW i \in 1..(n + 1)
                 PROVE  /\ rows'[i].sequence = i
                        /\ rows'[i].previous = IF i = 1 THEN ZeroHash ELSE Hash(rows'[i - 1])
      BY <2>1 DEF ChainHolds, ZeroHash, Hash
    <3>1. CASE i \in 1..n
      BY <3>1, <2>1 DEF ChainHolds
    <3>2. CASE i = n + 1
      <4>1. i = 1 <=> rows = <<>>
        BY <3>2, <2>1
      <4>2. i # 1 => i - 1 = n /\ n \in 1..n
        BY <3>2, <2>1
      <4>3. i # 1 => rows'[i - 1] = rows[n]
        BY <4>2, <2>1
      <4>4. rows'[i] = row
        BY <3>2, <2>1
      <4> HIDE DEF n
      <4> QED
        BY <3>2, <2>3, <4>1, <4>3, <4>4
    <3> QED
      BY <3>1, <3>2, <2>1
  <2>9. OneEventPerCommand'
    BY <2>1, <2>2, <2>3 DEF OneEventPerCommand, Known
  <2>10. RepliesDurable'
    <3> SUFFICES ASSUME NEW r \in replies'
                 PROVE  \E i \in DOMAIN rows' : rows'[i] = r[3] /\ rows'[i].command = r[1]
                                                    /\ rows'[i].body = r[2]
      BY DEF RepliesDurable
    <3>1. CASE r \in replies
      BY <3>1, <2>1 DEF RepliesDurable
    <3>2. CASE r = <<call[w].command, call[w].body, row>>
      BY <3>2, <2>1, <2>3
    <3> QED
      BY <3>1, <3>2 DEF row
  <2> QED
    BY <2>1, <2>4, <2>5, <2>7, <2>8, <2>9, <2>10
<1>6. ASSUME NEW w \in Writers, Rollback(w)
      PROVE  IInv'
  <2> USE <1>6 DEF Rollback, Goto
  <2>1. (TypeOK /\ PerWriter)'
    BY DEF TypeOK, PerWriter, IsRow, Steps
  <2>2. LockHeld'
    BY WritersAssumption DEF LockHeld, Locked, TypeOK
  <2>3. \A x \in Writers : (LookedUp(x) /\ HasRead(x))'
    BY DEF LookedUp, HasRead, Known, TypeOK, PerWriter, Steps, ZeroHash, Hash
  <2> QED
    BY <2>1, <2>2, <2>3, RowsUnchanged
<1>7. CASE UNCHANGED vars
  <2> USE <1>7 DEF vars
  <2>1. TypeOK' /\ PerWriter' /\ LockHeld'
    BY DEF TypeOK, PerWriter, IsRow, LockHeld
  <2>2. \A x \in Writers : (LookedUp(x) /\ HasRead(x))'
    BY DEF LookedUp, HasRead, Known, ZeroHash, Hash
  <2> QED
    BY <2>1, <2>2, RowsUnchanged
<1> QED
  BY <1>1, <1>2, <1>3, <1>4, <1>5, <1>6, <1>7 DEF Next

\* The invariant holds of every reachable state.
LEMMA Invariance == Spec => []IInv
BY InitIInv, StepIInv, PTL DEF Spec

-----------------------------------------------------------------------------

\* The values the writers work with are of the types the code gives them.
THEOREM LogTyped == Spec => []TypeOK
<1>1. IInv => TypeOK
  BY DEF IInv
<1> QED
  BY <1>1, Invariance, PTL

\* verify_chain() accepts the log at every moment, whoever writes to it.
THEOREM ChainIsKept == Spec => []ChainHolds
<1>1. IInv => ChainHolds
  BY DEF IInv
<1> QED
  BY <1>1, Invariance, PTL

\* No command is applied twice, however often and by whomever it is retried.
THEOREM CommandsOnce == Spec => []OneEventPerCommand
<1>1. IInv => OneEventPerCommand
  BY DEF IInv
<1> QED
  BY <1>1, Invariance, PTL

\* An event that was returned is in the log and stays there.
THEOREM RepliesHold == Spec => []RepliesDurable
<1>1. IInv => RepliesDurable
  BY DEF IInv
<1> QED
  BY <1>1, Invariance, PTL

-----------------------------------------------------------------------------
(* The log as its callers see it.                                          *)

\* A row as an applied command, and a reply as the place of its event.
Applied(e) == [command |-> e.command, body |-> e.body]
Events == [i \in DOMAIN rows |-> Applied(rows[i])]
Told(r) == <<r[1], r[2], r[3].sequence>>
Answers == {Told(r) : r \in replies}

\* A reply more is an answer more.
LEMMA MoreReplies ==
    ASSUME NEW r, replies' = replies \cup {r}
    PROVE  Answers' = Answers \cup {Told(r)}
BY DEF Answers, Told

\* Events are as many as rows, in the same places; a row more is an event more.
LEMMA EventsOfRows ==
    ASSUME IInv
    PROVE  /\ DOMAIN Events = DOMAIN rows /\ Len(Events) = Len(rows)
           /\ \A i \in DOMAIN rows : /\ Events[i].command = rows[i].command
                                     /\ Events[i].body = rows[i].body
           /\ \A e : rows' = Append(rows, e) => Events' = Append(Events, Applied(e))
<1>1. PICK S : rows \in Seq(S)
  BY DEF IInv, IsLog
<1>2. Len(rows) \in Nat /\ DOMAIN rows = 1..Len(rows)
  BY <1>1, LenProperties
<1> DEFINE T == {Events[i] : i \in 1..Len(rows)}
<1>3. Events \in Seq(T) /\ Len(Events) = Len(rows)
  <2>1. Events \in [1..Len(rows) -> T]
    BY <1>2 DEF Events
  <2> HIDE DEF T
  <2> QED
    BY <1>2, <2>1, SeqDef, LenProperties
<1>4. ASSUME NEW e, rows' = Append(rows, e) PROVE Events' = Append(Events, Applied(e))
  <2> DEFINE n == Len(rows)
             U == T \cup {Applied(e)}
  <2>1. /\ DOMAIN rows' = 1..(n + 1) /\ rows'[n + 1] = e
        /\ \A i \in 1..n : rows'[i] = rows[i]
    BY <1>4, AppendedLog DEF IInv
  <2>2. /\ DOMAIN Events' = 1..(n + 1) /\ Events' = [i \in 1..(n + 1) |-> Events'[i]]
        /\ \A i \in 1..(n + 1) : Events'[i] = Applied(rows'[i])
    BY <2>1 DEF Events
  <2>3. \A i \in 1..n : Events[i] = Applied(rows[i])
    BY <1>2 DEF Events
  <2>4. Events \in Seq(U)
    BY <1>3, SeqMonotonic
  <2> DEFINE a == Append(Events, Applied(e))
  <2>5. /\ a \in Seq(U) /\ Len(a) = n + 1 /\ a[n + 1] = Applied(e)
        /\ \A i \in 1..n : a[i] = Events[i]
    <3> HIDE DEF T
    <3> QED
      BY <1>3, <2>4, AppendProperties
  <2>6. DOMAIN a = 1..(n + 1) /\ a = [i \in 1..(n + 1) |-> a[i]]
    BY <2>5, SeqDef, LenProperties
  <2>7. \A i \in 1..(n + 1) : a[i] = Events'[i]
    <3>1. \A i \in 1..(n + 1) : i \in 1..n \/ i = n + 1
      BY <1>2
    <3> HIDE DEF a, Applied, n
    <3> QED
      BY <2>1, <2>2, <2>3, <2>5, <3>1
  <2> HIDE DEF a, n
  <2> QED
    BY <2>2, <2>6, <2>7 DEF a
<1> QED
  BY <1>2, <1>3, <1>4 DEF Events, Applied

\* Every statement of every writer is a step of CommandLog or none: a command is
\* applied when its row is inserted, and repeated when its row is found.
LEMMA StepIsCommand ==
    IInv /\ [Next]_vars => [Abstract!Next]_<<Events, Answers>>
<1> SUFFICES ASSUME IInv, [Next]_vars, ~UNCHANGED <<Events, Answers>>
    PROVE  Abstract!Next
  OBVIOUS
<1>1. ~UNCHANGED <<rows, replies>>
  BY DEF Events, Answers
<1>2. PICK w \in Writers : LookupCommand(w) \/ InsertAndCommit(w)
  BY <1>1 DEF Next, vars, CallAppend, BeginImmediate, ReadLast, Rollback
<1>3. PICK cmd \in CommandIds, text \in Bodies :
          call[w].command = cmd /\ call[w].body = text
  <2>1. step[w] # "idle"
    BY <1>2 DEF LookupCommand, InsertAndCommit
  <2> QED
    BY <2>1 DEF IInv, TypeOK
<1>4. CASE LookupCommand(w)
  <2>1. PICK i \in Known(cmd) : /\ rows[i].body = text /\ rows' = rows
                                /\ replies' = replies \cup {<<cmd, text, rows[i]>>}
    BY <1>1, <1>3, <1>4 DEF LookupCommand, Close, SameEvent
  <2>2. i \in DOMAIN rows /\ rows[i].command = cmd /\ rows[i].sequence = i
    BY <2>1 DEF Known, IInv, ChainHolds
  <2>3. Answers' = Answers \cup {<<cmd, text, i>>}
    <3>1. Told(<<cmd, text, rows[i]>>) = <<cmd, text, i>>
      BY <2>2 DEF Told
    <3> QED
      BY <2>1, <3>1, MoreReplies
  <2>4. i \in Abstract!Places(cmd) /\ Events[i].body = text
    BY <2>1, <2>2, EventsOfRows DEF Abstract!Places, Events, Applied
  <2>5. Events' = Events
    BY <2>1 DEF Events
  <2>6. Abstract!Repeat(cmd, text)
    BY <2>3, <2>4, <2>5 DEF Abstract!Repeat, Events, Applied, Answers, Told
  <2> QED
    BY <2>6 DEF Abstract!Next
<1>5. CASE InsertAndCommit(w)
  <2>1. /\ rows' = Append(rows, NewRow(w)) /\ Known(cmd) = {}
        /\ replies' = replies \cup {<<cmd, text, NewRow(w)>>}
        /\ NewRow(w).command = cmd /\ NewRow(w).body = text /\ NewRow(w).sequence = Len(rows) + 1
    BY <1>3, <1>5 DEF InsertAndCommit, Inserted, NewRow, IInv, LookedUp, HasRead
  <2>2. /\ Events' = Append(Events, [command |-> cmd, body |-> text])
        /\ Len(Events) = Len(rows)
    BY <2>1, EventsOfRows DEF Applied
  <2>3. Answers' = Answers \cup {<<cmd, text, Len(Events) + 1>>}
    <3>1. Told(<<cmd, text, NewRow(w)>>) = <<cmd, text, Len(Events) + 1>>
      BY <2>1, <2>2 DEF Told
    <3> QED
      BY <2>1, <3>1, MoreReplies
  <2>4. Abstract!Places(cmd) = {}
    BY <2>1, EventsOfRows DEF Known, Abstract!Places, Events, Applied
  <2>5. Abstract!Apply(cmd, text)
    BY <2>2, <2>3, <2>4 DEF Abstract!Apply, Events, Applied, Answers, Told
  <2> QED
    BY <2>5 DEF Abstract!Next
<1> QED
  BY <1>2, <1>4, <1>5

\* However many processes append, repeat and die, an append is one step: the
\* log is what one process that applies commands one at a time would make of it
\* (append: the lookup, the read and the insert under BEGIN IMMEDIATE).
THEOREM AppendsAreAtomic == Spec => ImplementsCommandLog
<1>1. Init => Abstract!Init
  BY DEF Init, Abstract!Init
<1>2. IInv /\ [Next]_vars =>
          [Abstract!Next]_<<[i \in DOMAIN rows |-> [command |-> rows[i].command,
                                                    body |-> rows[i].body]],
                            {<<r[1], r[2], r[3].sequence>> : r \in replies}>>
  BY StepIsCommand DEF Events, Applied, Answers, Told
<1> QED
  BY <1>1, <1>2, Invariance, PTL DEF Spec, ImplementsCommandLog, Abstract!Spec
=============================================================================
