------------------------------ MODULE RunScope ------------------------------
(***************************************************************************)
(* What a run may touch, and when two runs may not be live on a box        *)
(* together (crates/htui-core/src/model/overlap.rs).  Pure definitions.    *)
(*                                                                         *)
(* A scope is a function from the repositories of the run to how it        *)
(* touches each: whether every phase works in a tree of its own            *)
(* (`isolated`), whether any works in the user's (`local`), and the path   *)
(* prefixes it declared, sequences of characters, none meaning all.        *)
(***************************************************************************)
EXTENDS Sequences, SequencesExt

\* RunScope::conservative: the default of every field is the one that overlaps the most.
Conservative(repos) ==
  [repo \in repos |-> [isolated |-> FALSE, local |-> FALSE, prefixes |-> {}]]

\* scope_of: a decoded scope gains a conservative entry for each repository it lacks.
ScopeOf(decoded, repos) ==
  [repo \in DOMAIN decoded \cup repos |->
     IF repo \in DOMAIN decoded THEN decoded[repo] ELSE Conservative(repos)[repo]]

Intersect(xs, ys) ==
  xs = {} \/ ys = {} \/ \E x \in xs, y \in ys : IsPrefix(x, y) \/ IsPrefix(y, x)

\* Rules L, I and P for one shared repository.
Collide(x, y) ==
  x.local \/ y.local \/ ~(x.isolated /\ y.isolated) \/ Intersect(x.prefixes, y.prefixes)

Overlaps(a, b) == \E repo \in DOMAIN a \cap DOMAIN b : Collide(a[repo], b[repo])
=============================================================================
