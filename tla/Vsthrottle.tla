----------------------------- MODULE Vsthrottle -----------------------------
(***************************************************************************)
(* vmod_vsthrottle.c: one token bucket per key, created when the key is    *)
(* first seen and dropped by a garbage collector that runs inside every    *)
(* GC_INTVL-th is_denied of a partition.                                   *)
(*                                                                         *)
(* A key of the model is the 4-tuple (key, limit, period, block) that      *)
(* do_digest hashes.  Each function of the module runs under the mutex of  *)
(* the key's partition and reads the clock after taking it, so each is one *)
(* step.  Time is in whole ticks: the refill, which the code computes in   *)
(* floating point and truncates, is an exact integer division.             *)
(***************************************************************************)
EXTENDS Integers

CONSTANTS
  Key, Limit, Period, Block,  \* the keys and the rest of their 4-tuples
  Partition, PartOf,          \* the partitions and where each key falls
  GC_INTVL,
  Calls,                      \* the functions that the VCLs in use call for each key
  MaxTime, MaxVcls            \* bounds of a finite instance

ASSUME ThrottleAssumption ==
  /\ Limit \in [Key -> Nat \ {0}] /\ Period \in [Key -> Nat \ {0}]
  /\ Block \in [Key -> Nat]
  /\ PartOf \in [Key -> Partition]
  /\ GC_INTVL \in Nat \ {0}
  /\ Calls \in [Key -> SUBSET {"is_denied", "remaining", "blocked"}]
  /\ MaxTime \in Nat /\ MaxVcls \in Nat

VARIABLES
  clock,
  n_init,    \* VCLs that use the module
  has,       \* the keys that have a bucket
  bucket,    \* the buckets: last_used, tokens, block
  gc_count,  \* calls of is_denied since the last collection, per partition
  credit,    \* ghost: an ideal bucket, in units of 1/period tokens
  promised,  \* ghost: when the block ends that was announced to the key
  asked      \* ghost: when is_denied was last called

ghosts == <<credit, promised, asked>>
vars == <<clock, n_init, has, bucket, gc_count, ghosts>>

-----------------------------------------------------------------------------
tb_alloc(k) == [last_used |-> clock, tokens |-> Limit[k], block |-> 0]

get_bucket(k) == IF k \in has THEN bucket[k] ELSE tb_alloc(k)

\* What has trickled in since the bucket was last used.
Refill(k, b) == ((clock - b.last_used) * Limit[k]) \div Period[k]

\* Mutant: the bucket overflows.
calc_tokens_uncapped(k, b) == [b EXCEPT !.tokens = @ + Refill(k, b)]

calc_tokens(k, b) ==
  [b EXCEPT !.tokens = IF @ + Refill(k, b) > Limit[k] THEN Limit[k]
                                                       ELSE @ + Refill(k, b)]

\* The bucket that is_denied decides on.
Current(k) == calc_tokens(k, get_bucket(k))

\* Mutant: a block that does not end.
BlockedForGood(k) == Block[k] > 0 /\ Current(k).block > 0

Blocked(k) == Block[k] > 0 /\ clock < Current(k).block

Grants(k) == Current(k).tokens > 0 /\ ~Blocked(k)

\* Out of tokens, and so to be blocked from now on.
Exhausts(k) == Current(k).tokens = 0 /\ Block[k] > 0 /\ ~Blocked(k)

\* The bucket that is_denied leaves behind.
Charged(k) ==
  LET b == Current(k) IN
  [last_used |-> IF b.tokens > 0 \/ Blocked(k) THEN clock ELSE b.last_used,
   tokens    |-> IF b.tokens > 0 THEN b.tokens - 1 ELSE b.tokens,
   block     |-> IF Exhausts(k) THEN clock + Block[k]
                 ELSE IF Grants(k) /\ Block[k] > 0 THEN 0 ELSE b.block]

\* Mutant: collects what is not in use at the moment.
ExpiredAtOnce(p, bs) == {k \in Key : PartOf[k] = p /\ clock > bs[k].last_used}

\* run_gc: the keys of partition p whose bucket, out of bs, goes.
Expired(p, bs) ==
  {k \in Key : PartOf[k] = p /\ clock - bs[k].last_used > Period[k]}

-----------------------------------------------------------------------------
FullCredit == [k \in Key |-> Limit[k] * Period[k]]

NoBuckets == [k \in Key |-> [last_used |-> 0, tokens |-> 0, block |-> 0]]

Init ==
  /\ clock = 0 /\ n_init = 0
  /\ has = {} /\ bucket = NoBuckets
  /\ gc_count = [p \in Partition |-> 0]
  /\ credit = FullCredit
  /\ promised = [k \in Key |-> 0] /\ asked = [k \in Key |-> 0]

is_denied(k) ==
  /\ n_init > 0 /\ "is_denied" \in Calls[k]
  /\ bucket' = [bucket EXCEPT ![k] = Charged(k)]
  /\ LET p == PartOf[k] IN
     \/ /\ gc_count[p] + 1 = GC_INTVL
        /\ has' = (has \cup {k}) \ Expired(p, bucket')
        /\ gc_count' = [gc_count EXCEPT ![p] = 0]
     \/ /\ gc_count[p] + 1 # GC_INTVL
        /\ has' = has \cup {k}
        /\ gc_count' = [gc_count EXCEPT ![p] = @ + 1]
  /\ credit' = IF Grants(k) THEN [credit EXCEPT ![k] = @ - Period[k]] ELSE credit
  /\ promised' = [promised EXCEPT ![k] = IF Exhausts(k) THEN clock + Block[k]
                                         ELSE IF Grants(k) THEN 0 ELSE @]
  /\ asked' = [asked EXCEPT ![k] = clock]
  /\ UNCHANGED <<clock, n_init>>

\* calc_tokens is stored, last_used is not.
remaining(k) ==
  /\ n_init > 0 /\ "remaining" \in Calls[k]
  /\ bucket' = [bucket EXCEPT ![k] = Current(k)]
  /\ has' = has \cup {k}
  /\ UNCHANGED <<clock, n_init, gc_count, ghosts>>

blocked(k) ==
  /\ n_init > 0 /\ "blocked" \in Calls[k]
  /\ bucket' = [bucket EXCEPT ![k] = get_bucket(k)]
  /\ has' = has \cup {k}
  /\ UNCHANGED <<clock, n_init, gc_count, ghosts>>

\* event_function, VCL_EVENT_LOAD: the first VCL initialises the trees.
Load ==
  /\ n_init < MaxVcls
  /\ n_init' = n_init + 1
  /\ has' = IF n_init = 0 THEN {} ELSE has
  /\ UNCHANGED <<clock, bucket, gc_count, ghosts>>

\* The last VCL frees the buckets, and with them all memory of the past.
fini ==
  /\ n_init > 0
  /\ n_init' = n_init - 1
  /\ \/ /\ n_init = 1
        /\ has' = {} /\ credit' = FullCredit
        /\ promised' = [k \in Key |-> 0] /\ asked' = [k \in Key |-> 0]
     \/ /\ n_init > 1
        /\ UNCHANGED <<has, ghosts>>
  /\ UNCHANGED <<clock, bucket, gc_count>>

\* The ideal bucket fills continuously, without rounding.
Tick ==
  /\ clock < MaxTime /\ clock' = clock + 1
  /\ credit' = [k \in Key |-> IF credit[k] + Limit[k] > FullCredit[k]
                              THEN FullCredit[k] ELSE credit[k] + Limit[k]]
  /\ UNCHANGED <<n_init, has, bucket, gc_count, promised, asked>>

Next ==
  \/ \E k \in Key : is_denied(k) \/ remaining(k) \/ blocked(k)
  \/ Load \/ fini \/ Tick

Spec == Init /\ [][Next]_vars

-----------------------------------------------------------------------------
\* Every variable has its type, of the buckets and counters of
\* vmod_vsthrottle.c: no bucket holds more tokens than its capacity or was
\* last used in the future (the assertion of calc_tokens).
TypeOK ==
  /\ clock \in Nat /\ n_init \in Nat
  /\ has \subseteq Key
  /\ bucket \in [Key -> [last_used : Nat, tokens : Nat, block : Nat]]
  /\ \A k \in Key : bucket[k].last_used <= clock /\ bucket[k].tokens <= Limit[k]
  /\ gc_count \in [Partition -> 0..GC_INTVL - 1]
  /\ credit \in [Key -> Int]
  /\ promised \in [Key -> Nat] /\ asked \in [Key -> Nat]

\* The keys that remaining is not called for.
Metered == {k \in Key : "remaining" \notin Calls[k]}

(***************************************************************************)
(* is_denied lets no more requests through than an ideal token bucket of   *)
(* the same limit and period would, one that never rounds and is never     *)
(* collected: forgetting a bucket, truncating the refill and creating it   *)
(* anew never add a token.  Of a key that remaining is called for, see     *)
(* ConformsAlways.                                                         *)
(***************************************************************************)
Conforms == \A k \in Metered : credit[k] >= 0

(***************************************************************************)
(* What the manual says of all keys: at most limit requests per period.    *)
(* remaining credits the bucket with time that is credited again later.    *)
(***************************************************************************)
ConformsAlways == \A k \in Key : credit[k] >= 0

(***************************************************************************)
(* What the manual says of a key that ran out of tokens: it is always      *)
(* denied for the length of the block.  run_gc drops a bucket that has not *)
(* been used for a period whether or not its block is over, and with the   *)
(* bucket it forgets the block.                                            *)
(***************************************************************************)
BlockHonoured == \A k \in Key : clock < promised[k] => ~Grants(k)

(***************************************************************************)
(* How long a block holds in spite of the collector: while it lasts, the   *)
(* key is turned away if the last is_denied is no more than the part       *)
(* 1 - 1/limit of a period ago.  So a key that keeps asking stays blocked  *)
(* to the end, whatever the length of the block, whatever the other keys   *)
(* of the partition do and whenever the collector runs.                    *)
(***************************************************************************)
BlockKept ==
  \A k \in Key :
    /\ clock < promised[k]
    /\ (clock - asked[k]) * Limit[k] <= (Limit[k] - 1) * Period[k]
    => ~Grants(k)

(***************************************************************************)
(* is_denied does not turn away a key that has not asked for a whole       *)
(* period, unless the key is blocked.                                      *)
(***************************************************************************)
IdleNotDenied ==
  [][\A k \in Key : is_denied(k) /\ ~Grants(k) =>
       clock < promised[k] \/ clock - asked[k] < Period[k]]_vars
=============================================================================
