---------------------------- MODULE LedgerProofs ----------------------------
(***************************************************************************)
(* Proofs about EvidenceLedger, for any artifacts and targets: an artifact *)
(* keeps its one target and records are never undone, with any number of   *)
(* writers; the hash chain holds when there is one writer.                 *)
(***************************************************************************)
EXTENDS EvidenceLedger, SequenceTheorems, TLAPS

IsLog == \E S : events \in Seq(S)

PerWriter == DOMAIN call = Writers /\ DOMAIN last = Writers

\* A writer at work has a well-typed event to append.
HasCall(w) == step[w] # "idle" =>
    call[w].type \in Kinds /\ call[w].artifact \in Artifacts /\ call[w].target \in Targets

\* The lock is held by the writer whose transaction has bound an artifact, and
\* that artifact is bound to nobody yet.
HoldsLock(w) ==
    /\ lock = w <=> bound[w]
    /\ bound[w] => /\ step[w] \in {"read", "insert"} /\ call[w].type = "evidence"
                   /\ bindings[call[w].artifact] = None

\* Whoever goes on without binding the artifact found it bound to his target.
FoundBound(w) ==
    step[w] \in {"read", "insert"} /\ ~bound[w] =>
        bindings[call[w].artifact] = call[w].target

BindsEvidence(w) == step[w] = "bind" => call[w].type = "evidence"

\* Every record, an invalidation too, has the target its artifact is bound to.
RecordsBound == \A i \in DOMAIN events : bindings[events[i].artifact] = events[i].target

IInv ==
    /\ TypeOK
    /\ IsLog
    /\ PerWriter
    /\ \A w \in Writers : HasCall(w) /\ HoldsLock(w) /\ FoundBound(w) /\ BindsEvidence(w)
    /\ RecordsBound
    /\ BindingsMatchEvents

-----------------------------------------------------------------------------

\* What Append does to a log.
LEMMA AppendedLog ==
    ASSUME IsLog, NEW e
    PROVE  /\ Len(events) \in Nat /\ DOMAIN events = 1..Len(events)
           /\ events = <<>> <=> Len(events) = 0
           /\ \E S : Append(events, e) \in Seq(S)
           /\ Len(Append(events, e)) = Len(events) + 1
           /\ DOMAIN Append(events, e) = 1..(Len(events) + 1)
           /\ \A i \in 1..Len(events) : Append(events, e)[i] = events[i]
           /\ Append(events, e)[Len(events) + 1] = e
<1>1. PICK S : events \in Seq(S)
  BY DEF IsLog
<1>2. events \in Seq(S \cup {e})
  BY <1>1, SeqMonotonic
<1>3. /\ Append(events, e) \in Seq(S \cup {e})
      /\ Len(Append(events, e)) = Len(events) + 1
      /\ \A i \in 1..Len(events) : Append(events, e)[i] = events[i]
      /\ Append(events, e)[Len(events) + 1] = e
  BY <1>2, AppendProperties
<1>4. /\ Len(events) \in Nat /\ DOMAIN events = 1..Len(events)
      /\ events = <<>> <=> Len(events) = 0
  BY <1>1, LenProperties, EmptySeq
<1>5. DOMAIN Append(events, e) = 1..(Len(events) + 1)
  BY <1>3, LenProperties
<1> QED
  BY <1>3, <1>4, <1>5

\* The empty ledger satisfies the invariant.
LEMMA InitIInv == Init => IInv
<1> SUFFICES ASSUME Init PROVE IInv
  OBVIOUS
<1> USE DEF Init
<1>1. events \in Seq({}) /\ Len(events) = 0 /\ DOMAIN events = 1..Len(events)
  BY EmptySeq, LenProperties
<1>2. TypeOK /\ PerWriter
  BY <1>1 DEF TypeOK, PerWriter, Steps
<1>3. \A w \in Writers : HasCall(w) /\ HoldsLock(w) /\ FoundBound(w) /\ BindsEvidence(w)
  BY LedgerAssumption DEF HasCall, HoldsLock, FoundBound, BindsEvidence
<1>4. RecordsBound /\ BindingsMatchEvents
  BY <1>1 DEF RecordsBound, BindingsMatchEvents
<1> QED
  BY <1>1, <1>2, <1>3, <1>4 DEF IInv, IsLog

\* A step that writes no row leaves alone what is said of the rows.
LEMMA RowsUnchanged ==
    IInv /\ UNCHANGED <<events, bindings>> =>
        IsLog' /\ RecordsBound' /\ BindingsMatchEvents'
BY DEF IInv, IsLog, RecordsBound, BindingsMatchEvents

\* Every statement of every writer preserves the invariant.
LEMMA StepIInv == IInv /\ [Next]_vars => IInv'
<1> SUFFICES ASSUME IInv, [Next]_vars PROVE IInv'
  OBVIOUS
<1> USE DEF IInv
<1> DEFINE Writer(w) == HasCall(w) /\ HoldsLock(w) /\ FoundBound(w) /\ BindsEvidence(w)
<1>1. ASSUME NEW w \in Writers, NEW a \in Artifacts, NEW target \in Targets,
             CallAppend(w, a, target)
      PROVE  IInv'
  <2> USE <1>1 DEF CallAppend, NewEvent, Goto
  <2>1. (TypeOK /\ PerWriter)'
    BY DEF TypeOK, PerWriter, Steps
  <2>2. \A x \in Writers : Writer(x)'
    BY DEF TypeOK, PerWriter, HasCall, HoldsLock, FoundBound, BindsEvidence, Kinds
  <2> QED
    BY <2>1, <2>2, RowsUnchanged
<1>2. ASSUME NEW w \in Writers, NEW i \in DOMAIN events, CallInvalidate(w, i)
      PROVE  IInv'
  <2> USE <1>2 DEF CallInvalidate, NewEvent, Goto
  <2>1. (TypeOK /\ PerWriter)'
    BY DEF TypeOK, PerWriter, Steps
  <2>2. \A x \in Writers : Writer(x)'
    BY DEF TypeOK, PerWriter, HasCall, HoldsLock, FoundBound, BindsEvidence, Kinds, RecordsBound
  <2> QED
    BY <2>1, <2>2, RowsUnchanged
<1>3. ASSUME NEW w \in Writers, BindArtifact(w)
      PROVE  IInv'
  <2> USE <1>3 DEF BindArtifact, Goto
  <2>1. (TypeOK /\ PerWriter)'
    BY DEF TypeOK, PerWriter, Steps
  <2>2. \A x \in Writers : Writer(x)'
    BY LedgerAssumption
    DEF TypeOK, PerWriter, HasCall, HoldsLock, FoundBound, BindsEvidence, BoundElsewhere
  <2> QED
    BY <2>1, <2>2, RowsUnchanged
<1>4. ASSUME NEW w \in Writers, ReadLast(w)
      PROVE  IInv'
  <2> USE <1>4 DEF ReadLast, Goto
  <2>1. (TypeOK /\ PerWriter)'
    BY DEF TypeOK, PerWriter, Steps
  <2>2. \A x \in Writers : Writer(x)'
    BY DEF TypeOK, PerWriter, HasCall, HoldsLock, FoundBound, BindsEvidence
  <2> QED
    BY <2>1, <2>2, RowsUnchanged
<1>5. ASSUME NEW w \in Writers, InsertAndCommit(w)
      PROVE  IInv'
  <2> DEFINE row == NewRow(w)
             n == Len(events)
             a == call[w].artifact
  <2>1. /\ step[w] = "insert" /\ lock \in {NoOne, w} /\ lock' = NoOne
        /\ events' = Append(events, row)
        /\ bindings' = BindingsWritten(w)
        /\ bound' = [bound EXCEPT ![w] = FALSE]
        /\ step' = [step EXCEPT ![w] = "idle"]
        /\ UNCHANGED <<call, last>>
    BY <1>5 DEF InsertAndCommit, Inserted, Goto
  <2>2. /\ row.id = n + 1 /\ row.type = call[w].type /\ row.artifact = a
        /\ row.target = call[w].target
    BY DEF NewRow
  <2>3. call[w].type \in Kinds /\ a \in Artifacts /\ call[w].target \in Targets
    BY <2>1 DEF HasCall
  <2> HIDE DEF row
  <2>4. /\ n \in Nat /\ DOMAIN events = 1..n /\ DOMAIN events' = 1..(n + 1)
        /\ Len(events') = n + 1 /\ IsLog'
        /\ \A i \in 1..n : events'[i] = events[i]
        /\ events'[n + 1] = row
    <3>1. IsLog
      OBVIOUS
    <3> QED
      BY ONLY <2>1, <3>1, AppendedLog DEF IsLog
  <2>5. \A x \in Writers : x # w => ~bound[x]
    BY <2>1, LedgerAssumption DEF HoldsLock
  <2>6. bindings'[a] = call[w].target
    BY <2>1, <2>3 DEF BindingsWritten, FoundBound, TypeOK
  <2>7. \A c \in Artifacts : bindings[c] # None => bindings'[c] = bindings[c]
    BY <2>1, <2>3 DEF BindingsWritten, HoldsLock, TypeOK
  <2>8. \A c \in Artifacts : c # a => bindings'[c] = bindings[c]
    BY <2>1, <2>3 DEF BindingsWritten, TypeOK
  <2>9. bindings' \in [Artifacts -> Targets \cup {None}]
    BY <2>1, <2>3 DEF BindingsWritten, TypeOK
  <2>10. (TypeOK /\ PerWriter)'
    <3>1. \A i \in DOMAIN events' :
             /\ events'[i].id \in Nat \ {0} /\ events'[i].type \in Kinds
             /\ events'[i].artifact \in Artifacts /\ events'[i].target \in Targets
      <4> SUFFICES ASSUME NEW i \in 1..(n + 1)
                   PROVE  /\ events'[i].id \in Nat \ {0} /\ events'[i].type \in Kinds
                          /\ events'[i].artifact \in Artifacts /\ events'[i].target \in Targets
        BY <2>4
      <4>1. CASE i \in 1..n
        BY <4>1, <2>4 DEF TypeOK
      <4>2. CASE i = n + 1
        BY <4>2, <2>2, <2>3, <2>4
      <4> QED
        BY <4>1, <4>2, <2>4
    <3> QED
      BY <3>1, <2>1, <2>4, <2>9 DEF TypeOK, PerWriter, Steps
  <2>11. \A x \in Writers : Writer(x)'
    BY <2>1, <2>5, <2>7, LedgerAssumption
    DEF TypeOK, PerWriter, HasCall, HoldsLock, FoundBound, BindsEvidence
  <2>12. RecordsBound'
    <3> SUFFICES ASSUME NEW i \in 1..(n + 1)
                 PROVE  bindings'[events'[i].artifact] = events'[i].target
      BY <2>4 DEF RecordsBound
    <3>1. CASE i \in 1..n
      BY <3>1, <2>4, <2>7, LedgerAssumption DEF RecordsBound, TypeOK
    <3>2. CASE i = n + 1
      BY <3>2, <2>2, <2>4, <2>6
    <3> QED
      BY <3>1, <3>2, <2>4
  <2>13. BindingsMatchEvents'
    <3> SUFFICES ASSUME NEW c \in Artifacts, bindings'[c] # None
                 PROVE  \E i \in DOMAIN events' : events'[i].type = "evidence"
                                                    /\ events'[i].artifact = c
      BY <2>12 DEF BindingsMatchEvents, RecordsBound
    <3>1. CASE bindings[c] # None
      <4>1. PICK i \in 1..n : events[i].type = "evidence" /\ events[i].artifact = c
        BY <3>1, <2>4 DEF BindingsMatchEvents
      <4>2. i \in DOMAIN events' /\ events'[i] = events[i]
        BY <2>4
      <4> QED
        BY <4>1, <4>2
    <3>2. CASE bindings[c] = None
      <4>1. c = a /\ bound[w] /\ n + 1 \in DOMAIN events'
        BY <3>2, <2>1, <2>3, <2>4, <2>8 DEF BindingsWritten
      <4> QED
        BY <4>1, <2>2, <2>4 DEF HoldsLock
    <3> QED
      BY <3>1, <3>2
  <2> QED
    BY <2>4, <2>10, <2>11, <2>12, <2>13
<1>6. ASSUME NEW w \in Writers, Rollback(w)
      PROVE  IInv'
  <2> USE <1>6 DEF Rollback, Goto
  <2>1. (TypeOK /\ PerWriter)'
    BY DEF TypeOK, PerWriter, Steps
  <2>2. \A x \in Writers : Writer(x)'
    BY LedgerAssumption
    DEF TypeOK, PerWriter, HasCall, HoldsLock, FoundBound, BindsEvidence
  <2> QED
    BY <2>1, <2>2, RowsUnchanged
<1>7. CASE UNCHANGED vars
  <2> USE <1>7 DEF vars
  <2>1. (TypeOK /\ PerWriter)'
    BY DEF TypeOK, PerWriter
  <2>2. \A x \in Writers : Writer(x)'
    BY DEF HasCall, HoldsLock, FoundBound, BindsEvidence
  <2> QED
    BY <2>1, <2>2, RowsUnchanged
<1> QED
  BY <1>1, <1>2, <1>3, <1>4, <1>5, <1>6, <1>7 DEF Next

\* The invariant holds of every reachable state.
LEMMA Invariance == Spec => []IInv
BY InitIInv, StepIInv, PTL DEF Spec

-----------------------------------------------------------------------------

\* Rows, bindings and the writers' positions have the types of the code.
THEOREM LedgerTyped == Spec => []TypeOK
<1>1. IInv => TypeOK
  BY DEF IInv
<1> QED
  BY <1>1, Invariance, PTL

\* Opening the ledger never finds the binding table at odds with the records.
THEOREM BindingsAgree == Spec => []BindingsMatchEvents
<1>1. IInv => BindingsMatchEvents
  BY DEF IInv
<1> QED
  BY <1>1, Invariance, PTL

\* A file is evidence of one candidate of one revision only.
THEOREM ArtifactsKeepTarget == Spec => []OneTargetPerArtifact
<1>1. IInv => OneTargetPerArtifact
  BY DEF IInv, RecordsBound, OneTargetPerArtifact
<1> QED
  BY <1>1, Invariance, PTL

\* One more record, and the others as they were.
OneAdded(w) ==
    /\ Len(events') = Len(events) + 1
    /\ DOMAIN events = 1..Len(events)
    /\ DOMAIN events' = 1..(Len(events) + 1)
    /\ \A i \in 1..Len(events) : events'[i] = events[i]
    /\ events'[Len(events) + 1] = NewRow(w)

\* Only an insert writes records, and it adds one behind the last.
LEMMA RecordsAdded ==
    IInv /\ Next /\ events' # events => \E w \in Writers : InsertAndCommit(w) /\ OneAdded(w)
<1> SUFFICES ASSUME IInv, Next, events' # events
             PROVE  \E w \in Writers : InsertAndCommit(w) /\ OneAdded(w)
  OBVIOUS
<1>1. PICK w \in Writers : InsertAndCommit(w)
  BY DEF Next, CallAppend, CallInvalidate, NewEvent, BindArtifact, ReadLast, Rollback
<1>2. events' = Append(events, NewRow(w)) /\ IsLog
  BY <1>1 DEF InsertAndCommit, Inserted, IInv
<1> QED
  BY ONLY <1>1, <1>2, AppendedLog DEF OneAdded

-----------------------------------------------------------------------------

\* There is one process that writes.
Alone == \A v, w \in Writers : v = w

\* What the one writer read is still the last record when it inserts.
ChainInv == ChainValid /\ \A w \in Writers : step[w] = "insert" => last[w] = LastHash

\* A single writer keeps the chain.
LEMMA StepChain == Alone /\ IInv /\ ChainInv /\ [Next]_vars => ChainInv'
<1> SUFFICES ASSUME Alone, IInv, ChainInv, [Next]_vars PROVE ChainInv'
  OBVIOUS
<1>1. CASE Next /\ events' # events
  <2> DEFINE n == Len(events)
  <2>1. PICK w \in Writers : InsertAndCommit(w) /\ OneAdded(w)
    BY <1>1, RecordsAdded
  <2> USE DEF OneAdded
  <2>2. \A x \in Writers : step'[x] = "idle"
    BY <2>1 DEF Alone, InsertAndCommit, Goto, IInv, TypeOK
  <2>3. /\ NewRow(w).previous = LastHash
        /\ n \in Nat /\ (events = <<>> <=> n = 0)
    BY <2>1, AppendedLog DEF NewRow, ChainInv, InsertAndCommit, IInv
  <2>4. ChainValid'
    <3> SUFFICES ASSUME NEW i \in 1..(n + 1)
                 PROVE  events'[i].previous = IF i = 1 THEN ZeroHash ELSE Hash(events'[i - 1])
      BY <2>1 DEF ChainValid, ZeroHash, Hash
    <3>1. CASE i \in 1..n
      BY <3>1, <2>1, <2>3 DEF ChainValid, ChainInv
    <3>2. CASE i = n + 1
      <4>1. i = 1 <=> events = <<>>
        BY <3>2, <2>3
      <4>2. i # 1 => events'[i - 1] = events[n]
        BY <3>2, <2>1, <2>3
      <4>3. events'[i] = NewRow(w)
        BY <3>2, <2>1
      <4> QED
        BY <2>3, <4>1, <4>2, <4>3 DEF LastHash
    <3> QED
      BY <3>1, <3>2, <2>3
  <2> QED
    BY <2>2, <2>4 DEF ChainInv
<1>2. CASE UNCHANGED events
  <2>1. ChainValid' /\ LastHash' = LastHash
    BY <1>2 DEF ChainInv, ChainValid, ZeroHash, Hash, LastHash
  <2>2. ASSUME NEW w \in Writers, step'[w] = "insert" PROVE last'[w] = LastHash
    BY <1>2, <2>2 DEF vars, Next, CallAppend, CallInvalidate, NewEvent, BindArtifact, ReadLast,
       InsertAndCommit, Rollback, Goto, ChainInv, IInv, TypeOK, PerWriter
  <2> QED
    BY <2>1, <2>2 DEF ChainInv
<1> QED
  BY <1>1, <1>2 DEF vars

\* With one writing process verify_chain() accepts the ledger at every moment;
\* two may fork the chain.
THEOREM ChainOfOneWriter == Alone => (Spec => []ChainValid)
<1> SUFFICES ASSUME Alone PROVE Spec => []ChainValid
  OBVIOUS
<1>1. Init => ChainInv
  <2> SUFFICES ASSUME Init PROVE ChainInv
    OBVIOUS
  <2>1. DOMAIN events = {}
    BY DEF Init
  <2> QED
    BY <2>1 DEF Init, ChainInv, ChainValid
<1>2. IInv /\ ChainInv /\ [Next]_vars => ChainInv'
  BY StepChain
<1>3. ChainInv => ChainValid
  BY DEF ChainInv
<1> QED
  BY <1>1, <1>2, <1>3, Invariance, PTL DEF Spec
=============================================================================
