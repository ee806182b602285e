------------------------------- MODULE Places -------------------------------
(***************************************************************************)
(* What goes through a list from its first element to its last, as loops   *)
(* with VTAILQ_FOREACH do.  Written as recursive functions of the place,   *)
(* unlike SelectSeq and the folds, so that proofs can follow the loop.     *)
(***************************************************************************)
EXTENDS Integers, Sequences

\* The elements of s at the places of I, in their order.
Select(s, I) ==
  LET sel[k \in 0..Len(s)] ==
        IF k = 0 THEN <<>>
        ELSE IF k \in I THEN Append(sel[k - 1], s[k]) ELSE sel[k - 1]
  IN sel[Len(s)]

\* The sum of a sequence of numbers.
Total(s) ==
  LET sum[k \in 0..Len(s)] == IF k = 0 THEN 0 ELSE sum[k - 1] + s[k]
  IN sum[Len(s)]
=============================================================================
