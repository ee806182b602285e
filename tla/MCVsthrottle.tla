---------------------------- MODULE MCVsthrottle ----------------------------
(* Finite instances of Vsthrottle: two keys, k1 and k2, in one partition. *)
EXTENDS Vsthrottle, TLC

CONSTANTS k1, k2, part

\* Refills of 2/3 and 3/4 of a token per tick, so that truncation matters.
MCLimit == (k1 :> 2) @@ (k2 :> 3)
MCPeriod == (k1 :> 3) @@ (k2 :> 4)
MCPartOf == [k \in Key |-> part]

\* The block of k1 outlives its bucket, if k1 does not ask; that of k2 does not.
MCBlock == (k1 :> 5) @@ (k2 :> 2)

\* The first key is metered, for the second one everything is called.
MCCalls == (k1 :> {"is_denied", "blocked"}) @@ (k2 :> {"is_denied", "remaining", "blocked"})
=============================================================================
