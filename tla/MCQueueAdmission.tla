-------------------------- MODULE MCQueueAdmission --------------------------
(***************************************************************************)
(* Instances of QueueAdmission for TLC: one repository, worked in isolated *)
(* trees, and items that declare a path in it.                             *)
(***************************************************************************)
EXTENDS QueueAdmission, TLC

CONSTANTS repo, i1, i2, b1, p1, p2, u1

Touching(paths) == repo :> [isolated |-> TRUE, local |-> FALSE, prefixes |-> paths]
\* Two runs that may be live together.
MCScopes == {Touching({<<1>>}), Touching({<<2>>})}
\* Runs that declare nothing: every two overlap.
OneScope == {ScopeOf(<<>>, {repo})}
Alike == Permutations(Items) \cup Permutations(Batches)
=============================================================================
