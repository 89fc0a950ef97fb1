------------------------------ MODULE LeaseLock ------------------------------
(***************************************************************************)
(* What the store promises of a run's lease, whatever its clients do: a    *)
(* lock with an expiry.  A live lease passes to another process only       *)
(* through its owner's release; a lapsed one is anyone's.  The promise is  *)
(* that of the WriteStore trait's lease functions                          *)
(* (crates/htui-core/src/store/traits.rs); RunLease implements it.         *)
(***************************************************************************)
EXTENDS Naturals

CONSTANTS Procs, Runs, Nobody, TTL

VARIABLES owner, lease

Init ==
  /\ owner = [r \in Runs |-> Nobody]
  /\ lease = [r \in Runs |-> 0]

Free(p, r) == owner[r] \in {p, Nobody} \/ lease[r] = 0

\* A process takes or renews the leases of some runs at once, each free to it.
Acquire(p, taken) ==
  /\ \A r \in taken : Free(p, r)
  /\ owner' = [r \in Runs |-> IF r \in taken THEN p ELSE owner[r]]
  /\ lease' = [r \in Runs |-> IF r \in taken THEN TTL ELSE lease[r]]

\* Its owner gives a lease back.
GiveUp(p, r) ==
  /\ owner[r] = p
  /\ owner' = [owner EXCEPT ![r] = Nobody]
  /\ lease' = [lease EXCEPT ![r] = 0]

\* Lapsed leases are cleared, with the runs a workspace stop settles.
Clear(settled) ==
  /\ \A r \in settled : lease[r] = 0
  /\ owner' = [r \in Runs |-> IF r \in settled THEN Nobody ELSE owner[r]]
  /\ UNCHANGED lease

Age ==
  /\ lease' = [r \in Runs |-> IF lease[r] = 0 THEN 0 ELSE lease[r] - 1]
  /\ UNCHANGED owner

Next ==
  \/ Age
  \/ \E rs \in SUBSET Runs : Clear(rs) \/ \E p \in Procs : Acquire(p, rs)
  \/ \E p \in Procs : \E r \in Runs : GiveUp(p, r)

Spec == Init /\ [][Next]_<<owner, lease>>
=============================================================================
