---------------------------- MODULE MCSaintmode -----------------------------
(* Finite instances of Saintmode: two objects, s1 and s2, with a backend each. *)
EXTENDS Saintmode, TLC

CONSTANTS s1, s2, b1, b2

OwnBackends == [s \in Sm |-> IF s = s1 THEN b1 ELSE b2]

Thresholds == [s \in Sm |-> IF s = s1 THEN 2 ELSE 1]

\* vcl_init creates the objects in the order in which it is written.
MCNext == Next /\ sm_list' \in {<<>>, <<s1>>, <<s1, s2>>}

MCSpec == Init /\ [][MCNext]_vars

Interchangeable == Permutations(Digest) \cup Permutations(Task)
=============================================================================
