------------------------------ MODULE PhaseRun ------------------------------
(***************************************************************************)
(* What the walk of one run promises: it tries its phases in their order,  *)
(* passes one that it has tried, goes back only from a phase that may send *)
(* it back, to one within its retry limit, and is done only past its last. *)
(* `StepWalk` implements it for as long as the run is not astray.          *)
(***************************************************************************)
EXTENDS Naturals

VARIABLES
  plan,      \* of each phase, its retry limit and the phase it sends the run back to, or 0
  tries,     \* the attempts at each phase
  passed,    \* the phases passed: the first so many
  outcome,   \* how it ended, or "none"
  astray     \* nothing is promised any more

Phases == DOMAIN plan

Init ==
  /\ tries = [p \in Phases |-> 0] /\ passed = 0
  /\ outcome = "none" /\ astray = FALSE

\* What the run may do at the phase it has come to.
Passes(p) ==
  /\ passed' = p
  /\ tries[p] > 0
  /\ UNCHANGED <<plan, tries, outcome>>

GoesBack(p) ==
  LET to == plan[p].back IN
  /\ to \in Phases /\ passed' = to - 1
  /\ tries[p] > 0 /\ tries[to] <= plan[to].limit
  /\ UNCHANGED <<plan, tries, outcome>>

Tries(p) ==
  /\ tries'[p] = tries[p] + 1
  /\ \A q \in Phases \ {p} : tries'[q] = tries[q]
  /\ UNCHANGED <<plan, passed, outcome>>

Ends(how) ==
  /\ outcome' = how
  /\ how = "done" => passed + 1 \notin Phases
  /\ UNCHANGED <<plan, tries, passed>>

Next ==
  \/ astray'
  \/ /\ outcome = "none"
     /\ \/ \E how \in {"done", "failed", "cancelled"} : Ends(how)
        \/ \E p \in Phases \cap {passed + 1} : Passes(p) \/ GoesBack(p) \/ Tries(p)

Spec == Init /\ [][Next]_<<outcome, passed, tries, plan, astray>>
=============================================================================
