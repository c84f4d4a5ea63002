----------------------------- MODULE CommandLog -----------------------------
(***************************************************************************)
(* What the event log promises to whoever appends to it: an abstract       *)
(* specification of EventStore without processes, transactions, locks,     *)
(* hashes or deaths.  A command is applied at once or not at all; it is    *)
(* applied with one body and once; whoever is answered is told the place   *)
(* of his own command in the log.  Service takes its appends to be steps   *)
(* like these.                                                             *)
(***************************************************************************)
EXTENDS Naturals, Sequences

CONSTANTS CommandIds, Bodies

VARIABLES
    events,   \* the commands that were applied, with their bodies
    answers   \* <<command, body, place>> of the calls that were answered

Init == events = <<>> /\ answers = {}

Places(c) == {i \in DOMAIN events : events[i].command = c}

Apply(c, b) ==
    /\ Places(c) = {}
    /\ events' = Append(events, [command |-> c, body |-> b])
    /\ answers' = answers \cup {<<c, b, Len(events) + 1>>}

\* A call that is sent again is told what became of the first.
Repeat(c, b) ==
    /\ \E i \in Places(c) : events[i].body = b /\ answers' = answers \cup {<<c, b, i>>}
    /\ UNCHANGED events

Next == \E c \in CommandIds, b \in Bodies : Apply(c, b) \/ Repeat(c, b)

Spec == Init /\ [][Next]_<<events, answers>>
=============================================================================
