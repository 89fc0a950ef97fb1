----------------------------- MODULE MCRunLease -----------------------------
(* Instances of RunLease for TLC: two processes of one box. *)
EXTENDS RunLease
=============================================================================
