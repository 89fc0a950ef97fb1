----------------------------- MODULE MCRunRelay -----------------------------
(* The relay on small instances, all of whose constants the cfgs give. *)
EXTENDS RunRelay
=============================================================================
