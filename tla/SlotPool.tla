------------------------------ MODULE SlotPool ------------------------------
(***************************************************************************)
(* What the command queue promises for one (box, class): jobs join, each   *)
(* takes a slot at most once and only while fewer than its limit hold one, *)
(* and each leaves for good.  `CommandQueue` implements it.                *)
(***************************************************************************)
EXTENDS Naturals, FiniteSets

CONSTANTS
  Jobs,
  Allowed(_)    \* how many slots a job finds when it asks

VARIABLES waiting, holding, over

Pool == <<waiting, holding, over>>

Init == waiting = {} /\ holding = {} /\ over = {}

Joins(j) ==
  /\ j \in Jobs \ (waiting \cup holding \cup over)
  /\ waiting' = waiting \cup {j}
  /\ UNCHANGED <<holding, over>>

Leave(gone) ==
  /\ gone \subseteq waiting \cup holding
  /\ over' = over \cup gone

Leaves(gone) ==
  /\ Leave(gone)
  /\ waiting' = waiting \ gone
  /\ holding' = holding \ gone

\* A job takes a slot, in the step that drops the jobs found dead.
Takes(j, gone) ==
  /\ Leave(gone)
  /\ j \in waiting \ gone
  /\ Cardinality(holding \ gone) < Allowed(j)
  /\ waiting' = waiting \ (gone \cup {j})
  /\ holding' = (holding \ gone) \cup {j}

Next ==
  \/ \E j \in Jobs : Joins(j)
  \/ \E gone \in SUBSET Jobs : Leaves(gone) \/ \E j \in Jobs : Takes(j, gone)

Spec == Init /\ [][Next]_Pool
=============================================================================
