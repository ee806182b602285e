------------------------------- MODULE MCXkey -------------------------------
(* Finite instances of Xkey. *)
EXTENDS Xkey, TLC

CONSTANTS d1, d2, o1

\* Headers that name both keys, and one key twice.
MCHeaders == {(d1 :> 1) @@ (d2 :> 1), (d1 :> 2) @@ (d2 :> 0)}

\* Arguments that name both keys, and one key twice.
MCKeys == {<<d1, d2>>, <<d2, d2>>}

\* Only o1 is in use.
Alone == \A o \in ObjCore \ {o1} : obj[o] = Unused

\* Time passes, and purges follow each other, with one object only: how it is
\* indexed and purged among others is not a matter of time.
MCNext == Next /\ (Alone' \/ (clock' = 0 /\ npurge' <= 1))

MCSpec == Init /\ [][MCNext]_vars /\ Fairness
=============================================================================
