----------------------------- MODULE MCCallSite -----------------------------
(* Finite instances of CallSite. *)
EXTENDS CallSite
=============================================================================
