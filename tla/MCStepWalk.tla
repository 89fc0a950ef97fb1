----------------------------- MODULE MCStepWalk -----------------------------
(* The walk on small graphs. *)
EXTENDS StepWalk

Phase(name, gate, fan, judge, limit) ==
  [name |-> name, gate |-> gate, fan |-> fan, judge |-> judge, limit |-> limit]

\* An implementation and its review: one of them, or both, ask somebody always or when they fail,
\* and the first graph's review may be attempted again by itself.
Reviewed ==
  {<<Phase("implement", "always", 1, FALSE, 1), Phase("review", "never", 1, FALSE, 1)>>,
   <<Phase("implement", "always", 1, FALSE, 1), Phase("review", "on_failure", 1, FALSE, 0)>>,
   <<Phase("implement", "on_failure", 1, FALSE, 1), Phase("review", "on_failure", 1, FALSE, 0)>>}

\* The two with nobody asked about them.
Retried ==
  {<<Phase("implement", "never", 1, FALSE, 1), Phase("review", "never", 1, FALSE, 1)>>}

\* A phase between the two, about which nobody is asked.
Between ==
  {<<Phase("implement", "on_failure", 1, FALSE, 1), Phase("other", "never", 1, FALSE, 0),
     Phase("review", "on_failure", 1, FALSE, 0)>>}

\* A group a person chooses from and a phase that reads its winner; a judged group.
FannedOut ==
  {<<Phase("implement", "always", 2, FALSE, 0), Phase("other", "on_failure", 1, FALSE, 0)>>,
   <<Phase("implement", "on_failure", 2, TRUE, 1)>>}

Small == Reviewed \cup Between \cup FannedOut
=============================================================================
