----------------------------- MODULE MCSoftpurge ----------------------------
(* Finite instances of Softpurge. *)
EXTENDS Softpurge
=============================================================================
