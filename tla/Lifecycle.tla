----------------------------- MODULE Lifecycle -----------------------------
(***************************************************************************)
(* What a mission promises to whoever reads its saved state: an abstract   *)
(* specification of the mission JSON, without tasks, results, grants, log, *)
(* stores, calls or crashes.  A mission goes through the stages of its     *)
(* plan one at a time; in implementation it gets one candidate, which it   *)
(* keeps; it leaves implementation only with a candidate, validation only  *)
(* with an approval of that candidate, and is completed only with a        *)
(* package of it; steering starts a new revision that keeps none of this.  *)
(***************************************************************************)
EXTENDS Naturals, Sequences

CONSTANTS Goals, Candidates, None,
          PlanOf(_)    \* the sequence of stages of a goal

VARIABLE life

\* Before the first save.
Unborn == [rev |-> 0]

Fresh(rev, g) == [rev |-> rev, goal |-> g, stage |-> 1, active |-> None,
                  approved |-> FALSE, released |-> FALSE, completed |-> FALSE]

Stage(l) == PlanOf(l.goal)[l.stage]

\* What must be bound before a stage may be left.
Bound(l) == CASE Stage(l) = "implementation" -> l.active # None
              [] Stage(l) = "validation"     -> l.approved
              [] Stage(l) = "release"        -> l.released
              [] OTHER                       -> TRUE

Advanced(l) == IF l.stage = Len(PlanOf(l.goal)) THEN [l EXCEPT !.completed = TRUE]
               ELSE [l EXCEPT !.stage = @ + 1]

MayLeave(l) == ~l.completed /\ Bound(l)

Init == life = Unborn

Launch == life = Unborn /\ \E g \in Goals : life' = Fresh(1, g)

Steer == life # Unborn /\ \E g \in Goals : life' = Fresh(life.rev + 1, g)

Leave == life # Unborn /\ MayLeave(life) /\ life' = Advanced(life)

BindCandidate ==
    /\ life # Unborn
    /\ Stage(life) = "implementation" /\ life.active = None
    /\ \E c \in Candidates : life' = [life EXCEPT !.active = c]

\* Approving and packaging may take the mission out of the stage in the same
\* step, when the workers' results are already there.
Approve ==
    /\ life # Unborn
    /\ Stage(life) = "validation" /\ life.active # None
    /\ LET l == [life EXCEPT !.approved = TRUE]
       IN life' = l \/ life' = Advanced(l)

BindPackage ==
    /\ life # Unborn
    /\ Stage(life) = "release" /\ life.approved
    /\ LET l == [life EXCEPT !.released = TRUE]
       IN life' = l \/ life' = Advanced(l)

Next == Launch \/ Steer \/ Leave \/ BindCandidate \/ Approve \/ BindPackage

Spec == Init /\ [][Next]_life
=============================================================================
