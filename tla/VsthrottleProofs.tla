-------------------------- MODULE VsthrottleProofs --------------------------
(***************************************************************************)
(* Proofs about Vsthrottle for any keys, limits, periods, partitions and   *)
(* collection interval, and without the bound on time.                     *)
(***************************************************************************)
EXTENDS Vsthrottle, TLAPS

BucketType == [last_used : Nat, tokens : Nat, block : Nat]

-----------------------------------------------------------------------------
\* The arithmetic of calc_tokens for a bucket of limit L and period P that has
\* t tokens and was last used d ticks ago.
LEMMA RefillBounds ==
  ASSUME NEW L \in Nat \ {0}, NEW P \in Nat \ {0}, NEW t \in Nat, t <= L,
         NEW d \in Nat, NEW n,
         n = IF t + ((d * L) \div P) > L THEN L ELSE t + ((d * L) \div P)
  PROVE  /\ n \in Nat /\ n <= L /\ t <= n
         /\ n * P <= L * P
         /\ n * P <= t * P + L * d
         /\ n = 0 => t = 0 /\ L * d < P
<1> DEFINE r == (d * L) \div P
<1>1. d * L \in Nat
  OBVIOUS
<1>2. r \in Nat /\ r * P <= d * L /\ d * L < (r + 1) * P
  <2> DEFINE x == d * L
  <2>1. x \in Nat
    OBVIOUS
  <2> HIDE DEF x
  <2>2. x \div P \in Nat /\ (x \div P) * P <= x /\ x < ((x \div P) + 1) * P
    BY <2>1
  <2> QED
    BY <2>2 DEF x
<1> HIDE DEF r
<1>3. n = IF t + r > L THEN L ELSE t + r
  BY DEF r
<1>4. n \in Nat /\ n <= L /\ t <= n /\ n <= t + r
  BY <1>2, <1>3
<1>5. n * P <= L * P
  BY <1>4
<1>6. n * P <= t * P + L * d
  <2>1. n * P <= (t + r) * P
    BY <1>2, <1>4
  <2>2. (t + r) * P = t * P + r * P /\ d * L = L * d
    BY <1>2
  <2>3. t * P \in Nat /\ r * P \in Nat /\ L * d \in Nat /\ n * P \in Nat
    BY <1>2, <1>4
  <2> QED
    BY <1>2, <2>1, <2>2, <2>3
<1>7. n = 0 => t = 0 /\ L * d < P
  <2> SUFFICES ASSUME n = 0 PROVE t = 0 /\ L * d < P
    OBVIOUS
  <2>1. t = 0 /\ r = 0
    BY <1>2, <1>3
  <2> QED
    BY <1>2, <2>1
<1> QED
  BY <1>4, <1>5, <1>6, <1>7

\* What is_denied knows of the bucket that get_bucket and calc_tokens give it.
LEMMA CurrentFacts ==
  ASSUME TypeOK, NEW k \in Key
  PROVE  LET g == get_bucket(k)
             c == Current(k)
         IN /\ g \in BucketType /\ g.last_used <= clock /\ g.tokens <= Limit[k]
            /\ c \in BucketType /\ c.tokens <= Limit[k] /\ g.tokens <= c.tokens
            /\ c.last_used = g.last_used /\ c.block = g.block
            /\ c.tokens * Period[k] <= Limit[k] * Period[k]
            /\ c.tokens * Period[k] <=
                 g.tokens * Period[k] + Limit[k] * (clock - g.last_used)
            /\ c.tokens = 0 =>
                 g.tokens = 0 /\ Limit[k] * (clock - g.last_used) < Period[k]
            /\ k \notin has => c.tokens > 0 /\ c.last_used = clock
<1> DEFINE g == get_bucket(k)
           n == IF g.tokens + Refill(k, g) > Limit[k] THEN Limit[k]
                                                       ELSE g.tokens + Refill(k, g)
<1>1. Limit[k] \in Nat \ {0} /\ Period[k] \in Nat \ {0} /\ clock \in Nat
  BY ThrottleAssumption DEF TypeOK
<1>2. /\ g \in BucketType /\ g.last_used <= clock /\ g.tokens <= Limit[k]
      /\ k \notin has => g.tokens = Limit[k] /\ g.last_used = clock
  BY <1>1 DEF TypeOK, get_bucket, tb_alloc, BucketType
<1>3. Current(k) = [g EXCEPT !.tokens = n]
  BY DEF Current, calc_tokens
<1>4. clock - g.last_used \in Nat /\ g.tokens \in Nat
  BY <1>1, <1>2 DEF BucketType
<1>5. n = IF g.tokens + (((clock - g.last_used) * Limit[k]) \div Period[k]) > Limit[k]
          THEN Limit[k]
          ELSE g.tokens + (((clock - g.last_used) * Limit[k]) \div Period[k])
  BY DEF Refill
<1> HIDE DEF g, n
<1>6. /\ n \in Nat /\ n <= Limit[k] /\ g.tokens <= n
      /\ n * Period[k] <= Limit[k] * Period[k]
      /\ n * Period[k] <= g.tokens * Period[k] + Limit[k] * (clock - g.last_used)
      /\ n = 0 => g.tokens = 0 /\ Limit[k] * (clock - g.last_used) < Period[k]
  <2> DEFINE L == Limit[k]
             P == Period[k]
             t == g.tokens
             d == clock - g.last_used
  <2>1. /\ L \in Nat \ {0} /\ P \in Nat \ {0} /\ t \in Nat /\ t <= L /\ d \in Nat
        /\ n = IF t + ((d * L) \div P) > L THEN L ELSE t + ((d * L) \div P)
    BY <1>1, <1>2, <1>4, <1>5
  <2> HIDE DEF L, P, t, d
  <2>2. /\ n \in Nat /\ n <= L /\ t <= n /\ n * P <= L * P /\ n * P <= t * P + L * d
        /\ n = 0 => t = 0 /\ L * d < P
    BY <2>1, RefillBounds
  <2> QED
    BY <2>2 DEF L, P, t, d
<1>7. /\ Current(k) \in BucketType /\ Current(k).tokens = n
      /\ Current(k).last_used = g.last_used /\ Current(k).block = g.block
  BY <1>2, <1>3, <1>6 DEF BucketType
<1>8. k \notin has => n > 0 /\ g.last_used = clock
  BY <1>1, <1>2, <1>6
<1> QED
  BY <1>2, <1>6, <1>7, <1>8 DEF g

\* The bucket that is_denied leaves behind.
LEMMA ChargedFacts ==
  ASSUME TypeOK, NEW k \in Key
  PROVE  LET b == Charged(k)
             c == Current(k)
         IN /\ b \in BucketType /\ b.tokens <= Limit[k] /\ b.last_used <= clock
            /\ c.tokens > 0 => b.tokens = c.tokens - 1 /\ b.last_used = clock
            /\ c.tokens = 0 => b.tokens = 0
            /\ Blocked(k) => b.last_used = clock /\ b.block = c.block
            /\ c.tokens = 0 /\ ~Blocked(k) => b.last_used = c.last_used
            /\ Exhausts(k) => b.block = clock + Block[k]
            /\ ~Exhausts(k) => b.block = 0 \/ b.block = c.block
            /\ Grants(k) /\ Block[k] > 0 => b.block = 0
<1> DEFINE c == Current(k)
<1>1. /\ c \in BucketType /\ c.tokens <= Limit[k] /\ c.last_used <= clock
      /\ clock \in Nat /\ Limit[k] \in Nat /\ Block[k] \in Nat
  BY CurrentFacts, ThrottleAssumption DEF TypeOK
<1>2. c.tokens \in Nat /\ c.last_used \in Nat /\ c.block \in Nat
  BY <1>1 DEF BucketType
<1>3. Charged(k) =
        [last_used |-> IF c.tokens > 0 \/ Blocked(k) THEN clock ELSE c.last_used,
         tokens    |-> IF c.tokens > 0 THEN c.tokens - 1 ELSE c.tokens,
         block     |-> IF Exhausts(k) THEN clock + Block[k]
                       ELSE IF Grants(k) /\ Block[k] > 0 THEN 0 ELSE c.block]
  BY DEF Charged
<1>4. /\ Exhausts(k) => c.tokens = 0 /\ ~Blocked(k)
      /\ Grants(k) => ~Blocked(k) /\ c.tokens > 0
  BY DEF Exhausts, Grants
<1> HIDE DEF c
<1>5. /\ Charged(k) \in BucketType /\ Charged(k).tokens <= Limit[k]
      /\ Charged(k).last_used <= clock
  BY <1>1, <1>2, <1>3 DEF BucketType
<1>6. /\ c.tokens > 0 => Charged(k).tokens = c.tokens - 1 /\ Charged(k).last_used = clock
      /\ c.tokens = 0 => Charged(k).tokens = 0
      /\ Blocked(k) => Charged(k).last_used = clock /\ Charged(k).block = c.block
      /\ c.tokens = 0 /\ ~Blocked(k) => Charged(k).last_used = c.last_used
      /\ Exhausts(k) => Charged(k).block = clock + Block[k]
      /\ ~Exhausts(k) => Charged(k).block = 0 \/ Charged(k).block = c.block
      /\ Grants(k) /\ Block[k] > 0 => Charged(k).block = 0
  BY <1>2, <1>3, <1>4
<1> QED
  BY <1>5, <1>6 DEF c

-----------------------------------------------------------------------------
\* Initially there is no bucket.
LEMMA InitType == Init => TypeOK
  BY ThrottleAssumption DEF Init, TypeOK, NoBuckets, FullCredit

\* Every step keeps the types.
LEMMA NextType == TypeOK /\ [Next]_vars => TypeOK'
<1> SUFFICES ASSUME TypeOK, [Next]_vars PROVE TypeOK'
  OBVIOUS
<1>1. ASSUME NEW k \in Key, is_denied(k) PROVE TypeOK'
  <2>1. /\ bucket' = [bucket EXCEPT ![k] = Charged(k)] /\ UNCHANGED <<clock, n_init>>
        /\ asked' = [asked EXCEPT ![k] = clock]
        /\ has' \subseteq has \cup {k}
        /\ \/ credit' = [credit EXCEPT ![k] = @ - Period[k]]
           \/ credit' = credit
        /\ \E x \in {clock + Block[k], 0, promised[k]} :
             promised' = [promised EXCEPT ![k] = x]
    BY <1>1 DEF is_denied
  <2>2. gc_count' \in [Partition -> 0..GC_INTVL - 1]
    <3>1. \/ gc_count' = [gc_count EXCEPT ![PartOf[k]] = 0]
          \/ /\ gc_count[PartOf[k]] + 1 # GC_INTVL
             /\ gc_count' = [gc_count EXCEPT ![PartOf[k]] = @ + 1]
      BY <1>1 DEF is_denied
    <3>2. /\ gc_count \in [Partition -> 0..GC_INTVL - 1]
          /\ PartOf[k] \in Partition /\ GC_INTVL \in Nat \ {0}
      BY ThrottleAssumption DEF TypeOK
    <3> QED
      BY <3>1, <3>2
  <2>3. /\ Charged(k) \in BucketType /\ Charged(k).tokens <= Limit[k]
        /\ Charged(k).last_used <= clock
    BY ChargedFacts
  <2>4. /\ bucket' \in [Key -> BucketType]
        /\ \A j \in Key : bucket'[j].last_used <= clock /\ bucket'[j].tokens <= Limit[j]
    BY <2>1, <2>3 DEF TypeOK, BucketType
  <2>5. credit' \in [Key -> Int] /\ promised' \in [Key -> Nat] /\ asked' \in [Key -> Nat]
    <3>1. Period[k] \in Nat /\ Block[k] \in Nat /\ clock + Block[k] \in Nat
      BY ThrottleAssumption DEF TypeOK
    <3>2. credit' \in [Key -> Int]
      BY <2>1, <3>1 DEF TypeOK
    <3>3. promised' \in [Key -> Nat]
      <4>1. PICK x \in {clock + Block[k], 0, promised[k]} : promised' = [promised EXCEPT ![k] = x]
        BY <2>1
      <4>2. promised \in [Key -> Nat] /\ x \in Nat
        BY <3>1 DEF TypeOK
      <4> QED
        BY <4>1, <4>2
    <3>4. asked' \in [Key -> Nat]
      BY <2>1 DEF TypeOK
    <3> QED
      BY <3>2, <3>3, <3>4
  <2> QED
    BY <2>1, <2>2, <2>4, <2>5 DEF TypeOK, BucketType
<1>2. ASSUME NEW k \in Key, remaining(k) \/ blocked(k) PROVE TypeOK'
  <2>1. /\ \/ bucket' = [bucket EXCEPT ![k] = Current(k)]
           \/ bucket' = [bucket EXCEPT ![k] = get_bucket(k)]
        /\ has' = has \cup {k}
        /\ UNCHANGED <<clock, n_init, gc_count, credit, promised, asked>>
    BY <1>2 DEF remaining, blocked, ghosts
  <2>2. /\ Current(k) \in BucketType /\ get_bucket(k) \in BucketType
        /\ Current(k).tokens <= Limit[k] /\ get_bucket(k).tokens <= Limit[k]
        /\ Current(k).last_used <= clock /\ get_bucket(k).last_used <= clock
    BY CurrentFacts
  <2>3. /\ bucket' \in [Key -> BucketType]
        /\ \A j \in Key : bucket'[j].last_used <= clock /\ bucket'[j].tokens <= Limit[j]
    BY <2>1, <2>2 DEF TypeOK, BucketType
  <2> QED
    BY <2>1, <2>3 DEF TypeOK, BucketType
<1>3. CASE Load
  BY <1>3 DEF Load, TypeOK, ghosts
<1>4. CASE fini
  <2>1. FullCredit \in [Key -> Int]
    BY ThrottleAssumption DEF FullCredit
  <2> QED
    BY <1>4, <2>1 DEF fini, TypeOK, ghosts
<1>5. CASE Tick
  <2>1. /\ clock' = clock + 1
        /\ credit' = [k \in Key |-> IF credit[k] + Limit[k] > FullCredit[k]
                                    THEN FullCredit[k] ELSE credit[k] + Limit[k]]
        /\ UNCHANGED <<n_init, has, bucket, gc_count, promised, asked>>
    BY <1>5 DEF Tick
  <2>2. credit' \in [Key -> Int]
    BY <2>1, ThrottleAssumption DEF FullCredit, TypeOK
  <2>3. \A k \in Key : bucket[k].last_used <= clock'
    BY <2>1 DEF TypeOK
  <2> QED
    BY <2>1, <2>2, <2>3 DEF TypeOK
<1>6. CASE UNCHANGED vars
  BY <1>6 DEF vars, ghosts, TypeOK
<1> QED
  BY <1>1, <1>2, <1>3, <1>4, <1>5, <1>6 DEF Next

\* No bucket of vmod_vsthrottle.c overflows or was used in the future.
THEOREM ThrottleType == Spec => []TypeOK
  BY InitType, NextType, PTL DEF Spec

-----------------------------------------------------------------------------
(***************************************************************************)
(* The rate.  Unless the ideal bucket is full, what the bucket holds and   *)
(* what it will be credited with on the next call is covered by the ideal  *)
(* one; a key without a bucket, which would get a full one, has its ideal  *)
(* bucket full.  This is said of the metered keys only: remaining breaks   *)
(* it for its key.                                                         *)
(***************************************************************************)
Worth(k) == bucket[k].tokens * Period[k] + Limit[k] * (clock - bucket[k].last_used)

Covered(k) ==
  /\ credit[k] <= Limit[k] * Period[k]
  /\ credit[k] = Limit[k] * Period[k] \/ (k \in has /\ Worth(k) <= credit[k])

RateInv ==
  /\ n_init = 0 => has = {}
  /\ \A k \in Metered : Covered(k)

\* What the collector drops has refilled: x ticks of idleness beyond a period
\* are worth a full bucket.
LEMMA IdleIsFull ==
  ASSUME NEW L \in Nat \ {0}, NEW P \in Nat \ {0}, NEW x \in Nat, x > P, NEW t \in Nat
  PROVE  t * P + L * x > L * P
<1>1. L * x > L * P
  OBVIOUS
<1>2. t * P \in Nat /\ L * x \in Nat /\ L * P \in Nat
  OBVIOUS
<1> QED
  BY <1>1, <1>2

\* A key that is covered when is_denied has charged its bucket stays so when
\* the collector has run.
LEMMA CollectCovered ==
  ASSUME TypeOK', NEW j \in Key, clock' = clock,
         credit'[j] <= Limit[j] * Period[j],
         credit'[j] = Limit[j] * Period[j] \/ Worth(j)' <= credit'[j],
         \/ credit'[j] = Limit[j] * Period[j]
         \/ j \in has'
         \/ clock - bucket'[j].last_used > Period[j]
  PROVE  Covered(j)'
<1>1. Limit[j] \in Nat \ {0} /\ Period[j] \in Nat \ {0}
  BY ThrottleAssumption
<1>2. /\ bucket'[j].tokens \in Nat /\ clock' - bucket'[j].last_used \in Nat
      /\ credit'[j] \in Int
  BY DEF TypeOK
<1>3. CASE credit'[j] = Limit[j] * Period[j] \/ j \in has'
  BY <1>3 DEF Covered
<1>4. CASE clock - bucket'[j].last_used > Period[j]
  <2>1. bucket'[j].tokens * Period[j] + Limit[j] * (clock' - bucket'[j].last_used)
          > Limit[j] * Period[j]
    BY <1>1, <1>2, <1>4, IdleIsFull
  <2>2. Worth(j)' \in Int /\ Limit[j] * Period[j] \in Int /\ Worth(j)' > Limit[j] * Period[j]
    BY <1>1, <1>2, <2>1 DEF Worth
  <2>3. credit'[j] = Limit[j] * Period[j]
    BY <1>2, <2>2
  <2> QED
    BY <2>3 DEF Covered
<1> QED
  BY <1>3, <1>4

\* is_denied charges the ideal bucket only for what the real one had.
LEMMA DeniedRate ==
  ASSUME TypeOK, TypeOK', RateInv, NEW k \in Key, is_denied(k)
  PROVE  RateInv'
<1>1. /\ bucket' = [bucket EXCEPT ![k] = Charged(k)]
      /\ clock' = clock /\ n_init' = n_init /\ n_init > 0
      /\ credit' = IF Grants(k) THEN [credit EXCEPT ![k] = @ - Period[k]] ELSE credit
  BY DEF is_denied
<1>2. \A j \in has \cup {k} : j \in has' \/ clock - bucket'[j].last_used > Period[j]
  BY DEF is_denied, Expired, TypeOK
<1>3. \A j \in Metered : /\ j \in Key
                         /\ Limit[j] \in Nat \ {0} /\ Period[j] \in Nat \ {0}
                         /\ credit[j] \in Int /\ credit[j] <= Limit[j] * Period[j]
                         /\ Limit[j] * Period[j] \in Nat
  BY ThrottleAssumption DEF TypeOK, RateInv, Covered, Metered
<1>4. ASSUME NEW j \in Metered, j # k PROVE Covered(j)'
  <2>1. bucket'[j] = bucket[j] /\ credit'[j] = credit[j]
    BY <1>1, <1>3, <1>4 DEF TypeOK
  <2>2. Worth(j)' = Worth(j)
    BY <1>1, <2>1 DEF Worth
  <2>3. \/ credit'[j] = Limit[j] * Period[j]
        \/ Worth(j)' <= credit'[j] /\ j \in has
    BY <2>1, <2>2 DEF RateInv, Covered
  <2> QED
    BY <1>1, <1>2, <1>3, <2>1, <2>3, CollectCovered
<1>5. ASSUME k \in Metered PROVE Covered(k)'
  <2> DEFINE c == Current(k)
             b == Charged(k)
             P == Period[k]
             L == Limit[k]
  <2>1. /\ c \in BucketType /\ c.tokens <= L /\ c.last_used <= clock
        /\ c.tokens * P <= L * P
        /\ k \in has => c.tokens * P <= Worth(k)
        /\ k \in has /\ c.tokens = 0 => bucket[k].tokens = 0 /\ bucket[k].last_used = c.last_used
        /\ k \notin has => c.tokens > 0
    BY CurrentFacts DEF Worth, get_bucket
  <2>2. /\ b \in BucketType
        /\ c.tokens > 0 => b.tokens = c.tokens - 1 /\ b.last_used = clock
        /\ c.tokens = 0 => b.tokens = 0
        /\ Blocked(k) => b.last_used = clock
        /\ c.tokens = 0 /\ ~Blocked(k) => b.last_used = c.last_used
    BY ChargedFacts
  <2>3. c.tokens \in Nat /\ b.tokens \in Nat /\ b.last_used \in Nat /\ clock \in Nat
        /\ c.last_used \in Nat
    BY <2>1, <2>2 DEF BucketType, TypeOK
  <2>4. bucket'[k] = b /\ credit'[k] = IF Grants(k) THEN credit[k] - P ELSE credit[k]
    BY <1>1 DEF TypeOK
  <2>5. Worth(k)' = b.tokens * P + L * (clock - b.last_used)
    BY <1>1, <2>4 DEF Worth
  <2>6. /\ P \in Nat \ {0} /\ L \in Nat \ {0} /\ credit[k] \in Int /\ credit[k] <= L * P
        /\ L * P \in Nat
    BY <1>3, <1>5
  <2>7. c.tokens * P <= credit[k]
    <3>1. credit[k] = L * P \/ (k \in has /\ Worth(k) <= credit[k])
      BY <1>5 DEF RateInv, Covered
    <3>2. Worth(k) \in Int
      BY <2>6 DEF TypeOK, Worth
    <3>3. c.tokens * P \in Int
      BY <2>3, <2>6
    <3> HIDE DEF c, L, P
    <3> QED
      BY <2>1, <2>6, <3>1, <3>2, <3>3
  <2>8. Grants(k) => c.tokens > 0
    BY DEF Grants
  <2>9. /\ credit'[k] <= L * P
        /\ credit'[k] = L * P \/ Worth(k)' <= credit'[k]
    <3> HIDE DEF c, b, L, P
    <3>1. CASE c.tokens > 0
      <4>1. b.tokens = c.tokens - 1 /\ b.last_used = clock
        BY <2>2, <3>1
      <4>2. L * (clock - b.last_used) = 0
        BY <2>3, <2>6, <4>1
      <4>3. b.tokens * P = c.tokens * P - P /\ c.tokens * P \in Int
        BY <2>3, <2>6, <4>1
      <4>4. Worth(k)' = c.tokens * P - P
        BY <2>5, <2>6, <4>2, <4>3
      <4> QED
        BY <2>4, <2>6, <2>7, <4>3, <4>4
    <3>2. CASE c.tokens = 0 /\ Blocked(k)
      <4>1. b.tokens = 0 /\ b.last_used = clock /\ ~Grants(k)
        BY <2>2, <2>8, <3>2
      <4>2. Worth(k)' = 0
        BY <2>3, <2>5, <2>6, <4>1
      <4>3. c.tokens * P = 0
        BY <2>6, <3>2
      <4> QED
        BY <2>4, <2>6, <2>7, <4>1, <4>2, <4>3
    <3>3. CASE c.tokens = 0 /\ ~Blocked(k)
      <4>1. /\ b.tokens = 0 /\ b.last_used = c.last_used /\ ~Grants(k) /\ k \in has
            /\ bucket[k].tokens = 0 /\ bucket[k].last_used = c.last_used
        BY <2>1, <2>2, <2>8, <3>3
      <4>2. Worth(k)' = Worth(k)
        BY <2>5, <4>1 DEF Worth, P, L
      <4>3. credit'[k] = credit[k]
        BY <2>4, <4>1
      <4> QED
        BY <1>5, <2>6, <4>2, <4>3 DEF RateInv, Covered, L, P
    <3> QED
      BY <2>3, <3>1, <3>2, <3>3
  <2> QED
    BY <1>1, <1>2, <2>9, CollectCovered
<1>6. n_init' # 0
  BY <1>1 DEF TypeOK
<1> QED
  BY <1>4, <1>5, <1>6 DEF RateInv

\* Every step keeps the rate; remaining is not called for metered keys.
LEMMA NextRate == TypeOK /\ TypeOK' /\ RateInv /\ [Next]_vars => RateInv'
<1> SUFFICES ASSUME TypeOK, TypeOK', RateInv, [Next]_vars
             PROVE  RateInv'
  OBVIOUS
<1>0. \A k \in Key : /\ Limit[k] \in Nat \ {0} /\ Period[k] \in Nat \ {0}
                     /\ Limit[k] * Period[k] \in Nat /\ credit[k] \in Int
  BY ThrottleAssumption DEF TypeOK
<1>m. Metered \subseteq Key
  BY DEF Metered
<1>1. ASSUME NEW k \in Key, is_denied(k) PROVE RateInv'
  BY <1>1, DeniedRate
<1>2. ASSUME NEW k \in Key, blocked(k) PROVE RateInv'
  <2>1. /\ bucket' = [bucket EXCEPT ![k] = get_bucket(k)] /\ has' = has \cup {k}
        /\ UNCHANGED <<clock, n_init, credit>> /\ n_init > 0
    BY <1>2 DEF blocked, ghosts
  <2>2. ASSUME NEW j \in Metered PROVE Covered(j)'
    <3>1. CASE j \in has
      <4>1. bucket'[j] = bucket[j]
        BY <1>m, <2>1, <3>1 DEF get_bucket, TypeOK
      <4> QED
        BY <2>1, <4>1 DEF RateInv, Covered, Worth
    <3>2. CASE j \notin has
      BY <2>1, <3>2 DEF RateInv, Covered
    <3> QED
      BY <3>1, <3>2
  <2> QED
    BY <2>1, <2>2 DEF RateInv, TypeOK
<1>3. ASSUME NEW k \in Key, remaining(k) PROVE RateInv'
  <2>1. /\ bucket' = [bucket EXCEPT ![k] = Current(k)] /\ has' = has \cup {k}
        /\ UNCHANGED <<clock, n_init, credit>> /\ n_init > 0 /\ k \notin Metered
    BY <1>3 DEF remaining, ghosts, Metered
  <2>2. ASSUME NEW j \in Metered PROVE Covered(j)'
    <3>1. bucket'[j] = bucket[j]
      BY <1>m, <2>1 DEF TypeOK
    <3> QED
      BY <2>1, <3>1 DEF RateInv, Covered, Worth
  <2> QED
    BY <2>1, <2>2 DEF RateInv, TypeOK
<1>4. CASE Load
  <2>1. has' = has /\ n_init' # 0 /\ UNCHANGED <<clock, bucket, credit>>
    BY <1>4 DEF Load, ghosts, RateInv, TypeOK
  <2> QED
    BY <2>1 DEF RateInv, Covered, Worth
<1>5. CASE fini
  <2>1. CASE n_init = 1
    <3>1. has' = {} /\ credit' = FullCredit
      BY <1>5, <2>1 DEF fini
    <3>2. \A k \in Key : credit'[k] = Limit[k] * Period[k]
      BY <3>1 DEF FullCredit
    <3> QED
      BY <1>0, <1>m, <3>1, <3>2 DEF RateInv, Covered
  <2>2. CASE n_init > 1
    BY <1>5, <2>2 DEF fini, ghosts, RateInv, Covered, Worth, TypeOK
  <2> QED
    BY <1>5, <2>1, <2>2 DEF fini, TypeOK
<1>6. CASE Tick
  <2>1. /\ clock' = clock + 1
        /\ credit' = [k \in Key |-> IF credit[k] + Limit[k] > FullCredit[k]
                                    THEN FullCredit[k] ELSE credit[k] + Limit[k]]
        /\ UNCHANGED <<n_init, has, bucket>>
    BY <1>6 DEF Tick
  <2>2. ASSUME NEW k \in Metered PROVE Covered(k)'
    <3>0. k \in Key
      BY <1>m
    <3>1. credit'[k] = IF credit[k] + Limit[k] > Limit[k] * Period[k]
                       THEN Limit[k] * Period[k] ELSE credit[k] + Limit[k]
      BY <2>1, <3>0 DEF FullCredit
    <3>2. Worth(k)' = Worth(k) + Limit[k] /\ Worth(k) \in Int
      <4> DEFINE L == Limit[k]
                 x == bucket[k].tokens * Period[k]
                 y == clock - bucket[k].last_used
      <4>1. x \in Int /\ y \in Int /\ L \in Int
        BY <1>0, <3>0 DEF TypeOK
      <4>2. Worth(k) = x + L * y /\ Worth(k)' = x + L * (y + 1)
        <5>1. clock' - bucket[k].last_used = y + 1
          BY <2>1, <3>0 DEF TypeOK
        <5> QED
          BY <2>1, <5>1 DEF Worth
      <4> HIDE DEF L, x, y
      <4>3. L * (y + 1) = L * y + L /\ L * y \in Int
        BY <4>1
      <4> QED
        BY <4>1, <4>2, <4>3 DEF L
    <3>3. /\ credit[k] <= Limit[k] * Period[k]
          /\ credit[k] = Limit[k] * Period[k] \/ (k \in has /\ Worth(k) <= credit[k])
      BY DEF RateInv, Covered
    <3>4. /\ credit'[k] <= Limit[k] * Period[k]
          /\ credit'[k] = Limit[k] * Period[k] \/ (k \in has /\ Worth(k)' <= credit'[k])
      <4> DEFINE LP == Limit[k] * Period[k]
      <4>1. LP \in Nat /\ Limit[k] \in Nat \ {0} /\ credit[k] \in Int
        BY <1>0, <3>0
      <4> HIDE DEF LP
      <4>2. credit[k] <= LP /\ (credit[k] = LP \/ (k \in has /\ Worth(k) <= credit[k]))
        BY <3>3 DEF LP
      <4>3. credit'[k] = IF credit[k] + Limit[k] > LP THEN LP ELSE credit[k] + Limit[k]
        BY <3>1 DEF LP
      <4>4. credit'[k] <= LP /\ (credit'[k] = LP \/ (k \in has /\ Worth(k)' <= credit'[k]))
        BY <3>2, <4>1, <4>2, <4>3
      <4> QED
        BY <4>4 DEF LP
    <3> QED
      BY <2>1, <3>4 DEF Covered
  <2> QED
    BY <2>1, <2>2 DEF RateInv
<1>7. CASE UNCHANGED vars
  BY <1>7 DEF vars, ghosts, RateInv, Covered, Worth
<1> QED
  BY <1>1, <1>2, <1>3, <1>4, <1>5, <1>6, <1>7 DEF Next

\* Of a key for which only is_denied and blocked are called, vmod_vsthrottle.c
\* never lets more requests through than the ideal token bucket, whatever it
\* rounds and forgets and whatever is called for other keys.
THEOREM ThrottleConforms == Spec => []Conforms
<1>1. Init => RateInv
  BY ThrottleAssumption DEF Init, RateInv, Covered, FullCredit, Metered
<1>2. TypeOK /\ TypeOK' /\ RateInv /\ [Next]_vars => RateInv'
  BY NextRate
<1>3. TypeOK /\ RateInv => Conforms
  <2> SUFFICES ASSUME TypeOK, RateInv, NEW k \in Metered PROVE credit[k] >= 0
    BY DEF Conforms
  <2>0. k \in Key
    BY DEF Metered
  <2>1. /\ Limit[k] * Period[k] \in Nat /\ Limit[k] \in Nat /\ Period[k] \in Nat
        /\ credit[k] \in Int
    BY <2>0, ThrottleAssumption DEF TypeOK
  <2>2. Worth(k) \in Nat
    <3>1. bucket[k].tokens \in Nat /\ clock - bucket[k].last_used \in Nat
      BY <2>0 DEF TypeOK
    <3>2. /\ bucket[k].tokens * Period[k] \in Nat
          /\ Limit[k] * (clock - bucket[k].last_used) \in Nat
      BY <2>1, <3>1
    <3> QED
      BY <3>2 DEF Worth
  <2> QED
    BY <2>1, <2>2 DEF RateInv, Covered
<1> QED
  BY <1>1, <1>2, <1>3, InitType, NextType, PTL DEF Spec

-----------------------------------------------------------------------------
(***************************************************************************)
(* Denials.  A bucket has no block that was not announced, none at all if  *)
(* its key has no block time, and was not used after is_denied last asked, *)
(* or else is as good as new.                                              *)
(***************************************************************************)
Announced(k) ==
  /\ bucket[k].block <= promised[k]
  /\ Block[k] = 0 => bucket[k].block = 0
  /\ bucket[k].last_used <= asked[k] \/ bucket[k].tokens = Limit[k]

IdleInv == \A k \in has : Announced(k)

\* Even a bucket that get_bucket has just made has no block but an announced one.
LEMMA BlockAnnounced ==
  ASSUME TypeOK, IdleInv, NEW k \in Key
  PROVE  Current(k).block <= promised[k] /\ (Block[k] = 0 => Current(k).block = 0)
<1>1. Current(k).block = get_bucket(k).block
  BY CurrentFacts
<1>2. CASE k \in has
  BY <1>1, <1>2 DEF get_bucket, IdleInv, Announced
<1>3. CASE k \notin has
  <2>1. Current(k).block = 0
    BY <1>1, <1>3 DEF get_bucket, tb_alloc
  <2> QED
    BY <2>1 DEF TypeOK
<1> QED
  BY <1>2, <1>3

\* Every step keeps it.
LEMMA NextIdle == TypeOK /\ TypeOK' /\ IdleInv /\ [Next]_vars => IdleInv'
<1> SUFFICES ASSUME TypeOK, TypeOK', IdleInv, [Next]_vars, NEW j \in has' PROVE Announced(j)'
  BY DEF IdleInv
<1>0. j \in Key /\ Limit[j] \in Nat \ {0} /\ Block[j] \in Nat
  BY ThrottleAssumption DEF TypeOK
<1>1. ASSUME NEW k \in Key, is_denied(k) PROVE Announced(j)'
  <2>1. /\ bucket' = [bucket EXCEPT ![k] = Charged(k)] /\ has' \subseteq has \cup {k}
        /\ promised' = [promised EXCEPT ![k] = IF Exhausts(k) THEN clock + Block[k]
                                               ELSE IF Grants(k) THEN 0 ELSE @]
        /\ asked' = [asked EXCEPT ![k] = clock]
    BY <1>1 DEF is_denied
  <2>2. CASE j # k
    <3>1. j \in has /\ bucket'[j] = bucket[j] /\ asked'[j] = asked[j] /\ promised'[j] = promised[j]
      BY <1>0, <2>1, <2>2 DEF TypeOK
    <3> QED
      BY <3>1 DEF IdleInv, Announced
  <2>3. CASE j = k
    <3>1. /\ bucket'[k] = Charged(k) /\ asked'[k] = clock
          /\ promised'[k] = IF Exhausts(k) THEN clock + Block[k]
                             ELSE IF Grants(k) THEN 0 ELSE promised[k]
      BY <2>1 DEF TypeOK
    <3>2. /\ Charged(k).last_used <= clock
          /\ Exhausts(k) => Charged(k).block = clock + Block[k]
          /\ ~Exhausts(k) => Charged(k).block = 0 \/ Charged(k).block = Current(k).block
          /\ Grants(k) /\ Block[k] > 0 => Charged(k).block = 0
      BY ChargedFacts
    <3>3. /\ Current(k).block <= promised[k] /\ clock + Block[k] \in Nat /\ promised[k] \in Nat
          /\ Block[k] = 0 => Current(k).block = 0
      BY <1>0, <2>3, BlockAnnounced DEF TypeOK
    <3>4. Block[k] = 0 => ~Exhausts(k)
      BY DEF Exhausts
    <3>5. /\ Charged(k).block <= promised'[k]
          /\ Block[k] = 0 => Charged(k).block = 0
      BY <1>0, <2>3, <3>1, <3>2, <3>3, <3>4
    <3> QED
      BY <2>3, <3>1, <3>2, <3>5 DEF Announced
  <2> QED
    BY <2>2, <2>3
<1>2. ASSUME NEW k \in Key, remaining(k) \/ blocked(k) PROVE Announced(j)'
  <2>1. /\ \/ bucket' = [bucket EXCEPT ![k] = Current(k)]
           \/ bucket' = [bucket EXCEPT ![k] = get_bucket(k)]
        /\ has' = has \cup {k}
        /\ UNCHANGED <<promised, asked>>
    BY <1>2 DEF remaining, blocked, ghosts
  <2>2. CASE j # k
    <3>1. j \in has /\ bucket'[j] = bucket[j]
      BY <1>0, <2>1, <2>2 DEF TypeOK
    <3> QED
      BY <2>1, <3>1 DEF IdleInv, Announced
  <2>3. CASE j = k
    <3> DEFINE g == get_bucket(k)
               c == Current(k)
    <3>1. /\ g.block <= promised[k] /\ (Block[k] = 0 => g.block = 0)
          /\ g.last_used <= asked[k] \/ g.tokens = Limit[k]
      BY <1>0, <2>3 DEF get_bucket, tb_alloc, IdleInv, Announced, TypeOK
    <3>2. c.block = g.block /\ c.last_used = g.last_used /\ g.tokens <= c.tokens
          /\ c.tokens <= Limit[k] /\ c.tokens \in Nat
      BY CurrentFacts DEF BucketType
    <3>3. bucket'[k] \in {c, g}
      BY <2>1 DEF TypeOK
    <3> HIDE DEF g, c
    <3> QED
      BY <1>0, <2>1, <2>3, <3>1, <3>2, <3>3 DEF Announced
  <2> QED
    BY <2>2, <2>3
<1>3. CASE Load
  BY <1>3 DEF Load, ghosts, IdleInv, Announced
<1>4. CASE fini
  BY <1>4 DEF fini, ghosts, IdleInv, Announced
<1>5. CASE Tick
  BY <1>5 DEF Tick, IdleInv, Announced
<1>6. CASE UNCHANGED vars
  BY <1>6 DEF vars, ghosts, IdleInv, Announced
<1> QED
  BY <1>1, <1>2, <1>3, <1>4, <1>5, <1>6 DEF Next

\* is_denied of vmod_vsthrottle.c turns away no key that has been quiet for a
\* period and is not blocked, whichever functions are called meanwhile.
THEOREM ThrottleIdleNotDenied == Spec => IdleNotDenied
<1>1. Init => IdleInv
  BY DEF Init, IdleInv
<1>2. TypeOK /\ IdleInv =>
        \A k \in Key : is_denied(k) /\ ~Grants(k) =>
          clock < promised[k] \/ clock - asked[k] < Period[k]
  <2> SUFFICES ASSUME TypeOK, IdleInv, NEW k \in Key, ~Grants(k), clock >= promised[k]
               PROVE  clock - asked[k] < Period[k]
    BY DEF TypeOK
  <2>1. /\ Limit[k] \in Nat \ {0} /\ Period[k] \in Nat \ {0}
        /\ clock \in Nat /\ promised[k] \in Nat /\ asked[k] \in Nat
    BY ThrottleAssumption DEF TypeOK
  <2>2. Current(k).block <= promised[k] /\ Current(k).block \in Nat
    BY BlockAnnounced, CurrentFacts DEF BucketType
  <2>3. ~Blocked(k) /\ Current(k).tokens = 0
    BY <2>1, <2>2, CurrentFacts DEF Grants, Blocked, BucketType
  <2>4. k \in has
    BY <2>3, CurrentFacts
  <2>5. /\ bucket[k].tokens = 0 /\ Limit[k] * (clock - bucket[k].last_used) < Period[k]
        /\ clock - bucket[k].last_used \in Nat /\ bucket[k].last_used \in Nat
    BY <2>1, <2>3, <2>4, CurrentFacts DEF get_bucket, TypeOK
  <2>6. bucket[k].last_used <= asked[k]
    BY <2>1, <2>4, <2>5 DEF IdleInv, Announced
  <2>7. clock - bucket[k].last_used < Period[k]
    <3> DEFINE L == Limit[k]
               d == clock - bucket[k].last_used
    <3>1. L \in Nat \ {0} /\ d \in Nat /\ L * d < Period[k]
      BY <2>1, <2>5
    <3> HIDE DEF L, d
    <3>2. d <= L * d /\ L * d \in Nat
      BY <3>1
    <3> QED
      BY <2>1, <3>1, <3>2 DEF d
  <2> QED
    BY <2>1, <2>5, <2>6, <2>7
<1> QED
  BY <1>1, <1>2, InitType, NextType, NextIdle, PTL DEF Spec, IdleNotDenied

-----------------------------------------------------------------------------
(***************************************************************************)
(* Blocks.  A block that lasts is in the bucket of its key, last used less *)
(* than 1/limit of a period before is_denied was last called; or else the  *)
(* bucket may have been collected, and then the key has not asked for so   *)
(* long that nothing is said of it, and a bucket that remaining or blocked *)
(* made for it since is full and has no block.                             *)
(***************************************************************************)
Neglected(k) == (clock - asked[k]) * Limit[k] > (Limit[k] - 1) * Period[k]

Kept(k) ==
  /\ k \in has /\ Block[k] > 0
  /\ bucket[k].block = promised[k]
  /\ bucket[k].last_used <= asked[k]
  /\ Limit[k] * (asked[k] - bucket[k].last_used) < Period[k]

Forgotten(k) ==
  /\ Neglected(k)
  /\ k \in has => bucket[k].tokens = Limit[k] /\ bucket[k].block = 0

BlockInv ==
  /\ n_init = 0 => has = {}
  /\ \A k \in Key : clock < promised[k] => Kept(k) \/ Forgotten(k)

\* A bucket of limit L and period P that the collector takes x ticks after the
\* last call, which came y ticks after its last use, was neglected.
LEMMA CollectedLate ==
  ASSUME NEW L \in Nat \ {0}, NEW P \in Nat \ {0}, NEW x \in Int, NEW y \in Nat,
         x + y > P, L * y < P
  PROVE  x * L > (L - 1) * P
<1>1. (L - 1) * P = L * P - P /\ L * P \in Nat
  OBVIOUS
<1>2. L * (x + y) = x * L + L * y /\ x * L \in Int /\ L * y \in Nat
  OBVIOUS
<1>3. L * (x + y) >= L * P
  <2> DEFINE z == x + y
  <2>1. z \in Int /\ z > P
    OBVIOUS
  <2> HIDE DEF z
  <2>2. L * z >= L * P
    BY <2>1
  <2> QED
    BY <2>2 DEF z
<1> QED
  BY <1>1, <1>2, <1>3

\* A key whose bucket is forgotten gets through.
LEMMA ForgottenGrants ==
  ASSUME TypeOK, NEW k \in Key, Forgotten(k)
  PROVE  Grants(k)
<1>1. Limit[k] \in Nat \ {0} /\ clock \in Nat
  BY ThrottleAssumption DEF TypeOK
<1>2. get_bucket(k).tokens = Limit[k] /\ get_bucket(k).block = 0
  BY DEF Forgotten, get_bucket, tb_alloc
<1>3. Current(k).tokens > 0 /\ Current(k).block = 0
  BY <1>1, <1>2, CurrentFacts DEF BucketType
<1> QED
  BY <1>1, <1>3 DEF Grants, Blocked

\* A key whose block is kept does not.
LEMMA KeptBlocks ==
  ASSUME TypeOK, NEW k \in Key, clock < promised[k], Kept(k)
  PROVE  Blocked(k) /\ Current(k).block = promised[k]
<1>1. Current(k).block = promised[k]
  BY CurrentFacts DEF Kept, get_bucket
<1> QED
  BY <1>1 DEF Blocked, Kept

\* is_denied keeps the blocks of the keys that keep asking, its collector included.
LEMMA DeniedBlock ==
  ASSUME TypeOK, TypeOK', BlockInv, NEW k \in Key, is_denied(k)
  PROVE  BlockInv'
<1>1. /\ bucket' = [bucket EXCEPT ![k] = Charged(k)]
      /\ clock' = clock /\ n_init' = n_init /\ n_init > 0
      /\ promised' = [promised EXCEPT ![k] = IF Exhausts(k) THEN clock + Block[k]
                                             ELSE IF Grants(k) THEN 0 ELSE @]
      /\ asked' = [asked EXCEPT ![k] = clock]
  BY DEF is_denied
<1>2. \A j \in has \cup {k} : j \in has' \/ clock - bucket'[j].last_used > Period[j]
  BY DEF is_denied, Expired, TypeOK
<1>3. has' \subseteq has \cup {k}
  BY DEF is_denied
<1>4. \A j \in Key : /\ Limit[j] \in Nat \ {0} /\ Period[j] \in Nat \ {0} /\ Block[j] \in Nat
                     /\ promised[j] \in Nat /\ promised'[j] \in Nat
                     /\ asked[j] \in Nat /\ asked'[j] \in Nat
                     /\ bucket[j].last_used \in Nat
                     /\ bucket'[j].last_used \in Nat /\ clock \in Nat
  BY ThrottleAssumption DEF TypeOK
<1>5. ASSUME NEW j \in Key, j # k, clock < promised'[j]
      PROVE  Kept(j)' \/ Forgotten(j)'
  <2>1. bucket'[j] = bucket[j] /\ promised'[j] = promised[j] /\ asked'[j] = asked[j]
    BY <1>1, <1>5 DEF TypeOK
  <2>2. Kept(j) \/ Forgotten(j)
    BY <1>5, <2>1 DEF BlockInv
  <2>3. CASE Forgotten(j)
    BY <1>1, <1>3, <1>5, <2>1, <2>3 DEF Forgotten, Neglected
  <2>4. CASE Kept(j) /\ j \in has'
    BY <2>1, <2>4 DEF Kept
  <2>5. CASE Kept(j) /\ j \notin has'
    <3>1. /\ clock - bucket[j].last_used > Period[j]
          /\ bucket[j].last_used <= asked[j]
          /\ Limit[j] * (asked[j] - bucket[j].last_used) < Period[j]
      BY <1>2, <2>1, <2>5 DEF Kept
    <3>2. (clock - asked[j]) * Limit[j] > (Limit[j] - 1) * Period[j]
      <4> DEFINE L == Limit[j]
                 P == Period[j]
                 x == clock - asked[j]
                 y == asked[j] - bucket[j].last_used
      <4>1. L \in Nat \ {0} /\ P \in Nat \ {0} /\ x \in Int /\ y \in Nat /\ x + y > P /\ L * y < P
        BY <1>4, <3>1
      <4> HIDE DEF L, P, x, y
      <4>2. x * L > (L - 1) * P
        BY <4>1, CollectedLate
      <4> QED
        BY <4>2 DEF L, P, x
    <3> QED
      BY <1>1, <2>1, <2>5, <3>2 DEF Forgotten, Neglected
  <2> QED
    BY <2>2, <2>3, <2>4, <2>5
<1>6. ASSUME clock < promised'[k] PROVE Kept(k)'
  <2>1. /\ bucket'[k] = Charged(k) /\ asked'[k] = clock
        /\ promised'[k] = IF Exhausts(k) THEN clock + Block[k]
                          ELSE IF Grants(k) THEN 0 ELSE promised[k]
    BY <1>1 DEF TypeOK
  <2>2. CASE Exhausts(k)
    <3>1. Current(k).tokens = 0 /\ Block[k] > 0 /\ ~Blocked(k)
      BY <2>2 DEF Exhausts
    <3>2. k \in has
      BY <3>1, CurrentFacts
    <3>3. /\ Charged(k).block = clock + Block[k]
          /\ Charged(k).last_used = bucket[k].last_used
      BY <2>2, <3>1, <3>2, ChargedFacts, CurrentFacts DEF get_bucket
    <3>4. /\ Limit[k] * (clock - bucket[k].last_used) < Period[k]
          /\ clock - bucket[k].last_used \in Nat
      BY <3>1, <3>2, CurrentFacts DEF get_bucket, TypeOK
    <3>5. clock - bucket[k].last_used <= Period[k]
      <4> DEFINE L == Limit[k]
                 d == clock - bucket[k].last_used
      <4>1. L \in Nat \ {0} /\ d \in Nat /\ L * d < Period[k] /\ Period[k] \in Nat
        BY <1>4, <3>4
      <4> HIDE DEF L, d
      <4>2. d <= L * d /\ L * d \in Nat
        BY <4>1
      <4>3. d <= Period[k]
        BY <4>1, <4>2
      <4> QED
        BY <4>3 DEF d
    <3>6. k \in has'
      BY <1>2, <1>4, <2>1, <3>3, <3>5
    <3>7. /\ bucket'[k].block = promised'[k]
          /\ bucket'[k].last_used <= asked'[k]
          /\ asked'[k] - bucket'[k].last_used = clock - bucket[k].last_used
      BY <1>4, <2>1, <2>2, <3>3, <3>4
    <3> QED
      BY <3>1, <3>4, <3>6, <3>7 DEF Kept
  <2>3. CASE ~Exhausts(k)
    <3>1. ~Grants(k) /\ promised'[k] = promised[k] /\ clock < promised[k]
      BY <1>4, <1>6, <2>1, <2>3
    <3>2. Kept(k)
      BY <3>1, ForgottenGrants DEF BlockInv
    <3>3. Blocked(k) /\ Current(k).block = promised[k]
      BY <3>1, <3>2, KeptBlocks
    <3>4. Charged(k).last_used = clock /\ Charged(k).block = promised[k]
      BY <3>3, ChargedFacts
    <3>5. k \in has'
      <4>1. clock - bucket'[k].last_used = 0
        BY <1>4, <2>1, <3>4
      <4> QED
        BY <1>2, <1>4, <4>1
    <3>6. asked'[k] - bucket'[k].last_used = 0 /\ bucket'[k].last_used <= asked'[k]
      BY <1>4, <2>1, <3>4
    <3>7. Limit[k] * (asked'[k] - bucket'[k].last_used) < Period[k]
      BY <1>4, <3>6
    <3> QED
      BY <2>1, <3>1, <3>2, <3>4, <3>5, <3>6, <3>7 DEF Kept
  <2> QED
    BY <2>2, <2>3
<1> QED
  BY <1>1, <1>5, <1>6 DEF BlockInv, TypeOK

\* Every step keeps the blocks.
LEMMA NextBlock == TypeOK /\ TypeOK' /\ BlockInv /\ [Next]_vars => BlockInv'
<1> SUFFICES ASSUME TypeOK, TypeOK', BlockInv, [Next]_vars PROVE BlockInv'
  OBVIOUS
<1>1. ASSUME NEW k \in Key, is_denied(k) PROVE BlockInv'
  BY <1>1, DeniedBlock
<1>2. ASSUME NEW k \in Key, remaining(k) \/ blocked(k) PROVE BlockInv'
  <2>1. /\ \/ bucket' = [bucket EXCEPT ![k] = Current(k)]
           \/ bucket' = [bucket EXCEPT ![k] = get_bucket(k)]
        /\ has' = has \cup {k} /\ n_init > 0
        /\ UNCHANGED <<clock, n_init, promised, asked>>
    BY <1>2 DEF remaining, blocked, ghosts
  <2>2. ASSUME NEW j \in Key, clock < promised[j] PROVE Kept(j)' \/ Forgotten(j)'
    <3>1. Kept(j) \/ Forgotten(j)
      BY <2>2 DEF BlockInv
    <3>2. CASE j # k
      <4>1. bucket'[j] = bucket[j] /\ (j \in has' <=> j \in has)
        BY <2>1, <3>2 DEF TypeOK
      <4> QED
        BY <2>1, <3>1, <4>1 DEF Kept, Forgotten, Neglected
    <3>3. CASE j = k /\ Kept(k)
      <4>1. bucket'[k].block = bucket[k].block /\ bucket'[k].last_used = bucket[k].last_used
        BY <2>1, <3>3, CurrentFacts DEF Kept, get_bucket, TypeOK
      <4> QED
        BY <2>1, <3>3, <4>1 DEF Kept
    <3>4. CASE j = k /\ Forgotten(k)
      <4>1. get_bucket(k).tokens = Limit[k] /\ get_bucket(k).block = 0
        BY <3>4 DEF Forgotten, get_bucket, tb_alloc
      <4>2. Current(k).tokens = Limit[k] /\ Current(k).block = 0
        <5>1. /\ Current(k).tokens <= Limit[k] /\ get_bucket(k).tokens <= Current(k).tokens
              /\ Current(k).tokens \in Nat /\ Limit[k] \in Nat
          BY CurrentFacts, ThrottleAssumption DEF BucketType
        <5> QED
          BY <4>1, <5>1, CurrentFacts
      <4>3. bucket'[k].tokens = Limit[k] /\ bucket'[k].block = 0
        BY <2>1, <4>1, <4>2 DEF TypeOK
      <4> QED
        BY <2>1, <3>4, <4>3 DEF Forgotten, Neglected
    <3> QED
      BY <3>1, <3>2, <3>3, <3>4
  <2> QED
    BY <2>1, <2>2 DEF BlockInv, TypeOK
<1>3. CASE Load
  <2>1. has' = has /\ n_init' # 0 /\ UNCHANGED <<clock, bucket, promised, asked>>
    BY <1>3 DEF Load, ghosts, BlockInv, TypeOK
  <2> QED
    BY <2>1 DEF BlockInv, Kept, Forgotten, Neglected
<1>4. CASE fini
  <2>1. CASE n_init = 1
    BY <1>4, <2>1 DEF fini, BlockInv, TypeOK
  <2>2. CASE n_init > 1
    BY <1>4, <2>2 DEF fini, ghosts, BlockInv, Kept, Forgotten, Neglected, TypeOK
  <2> QED
    BY <1>4, <2>1, <2>2 DEF fini
<1>5. CASE Tick
  <2>1. clock' = clock + 1 /\ UNCHANGED <<n_init, has, bucket, promised, asked>>
    BY <1>5 DEF Tick
  <2>2. ASSUME NEW k \in Key, clock' < promised[k] PROVE Kept(k)' \/ Forgotten(k)'
    <3>1. /\ clock \in Nat /\ promised[k] \in Nat /\ asked[k] \in Nat
          /\ Limit[k] \in Nat \ {0} /\ Period[k] \in Nat \ {0}
      BY ThrottleAssumption DEF TypeOK
    <3>2. Kept(k) \/ Forgotten(k)
      BY <2>1, <2>2, <3>1 DEF BlockInv
    <3>3. Neglected(k) => Neglected(k)'
      <4> DEFINE L == Limit[k]
                 x == clock - asked[k]
                 z == (Limit[k] - 1) * Period[k]
      <4>1. L \in Nat \ {0} /\ x \in Int /\ z \in Int
        BY <3>1
      <4>2. clock' - asked'[k] = x + 1
        BY <2>1, <3>1
      <4> HIDE DEF L, x, z
      <4>3. (x + 1) * L = x * L + L /\ x * L \in Int
        BY <4>1
      <4>4. x * L > z => (x + 1) * L > z
        BY <4>1, <4>3
      <4> QED
        BY <4>2, <4>4 DEF Neglected, L, x, z
    <3> QED
      BY <2>1, <3>2, <3>3 DEF Kept, Forgotten
  <2> QED
    BY <2>1, <2>2 DEF BlockInv
<1>6. CASE UNCHANGED vars
  BY <1>6 DEF vars, ghosts, BlockInv, Kept, Forgotten, Neglected
<1> QED
  BY <1>1, <1>2, <1>3, <1>4, <1>5, <1>6 DEF Next

\* vmod_vsthrottle.c keeps a block of any length to its end for a key that
\* keeps asking, whenever run_gc comes by.
THEOREM ThrottleBlockKept == Spec => []BlockKept
<1>1. Init => BlockInv
  BY DEF Init, BlockInv
<1>2. TypeOK /\ TypeOK' /\ BlockInv /\ [Next]_vars => BlockInv'
  BY NextBlock
<1>3. TypeOK /\ BlockInv => BlockKept
  <2> SUFFICES ASSUME TypeOK, BlockInv, NEW k \in Key, clock < promised[k],
                      (clock - asked[k]) * Limit[k] <= (Limit[k] - 1) * Period[k]
               PROVE  ~Grants(k)
    BY DEF BlockKept
  <2>1. ~Neglected(k)
    <3> DEFINE x == (clock - asked[k]) * Limit[k]
               z == (Limit[k] - 1) * Period[k]
    <3>1. x \in Int /\ z \in Int /\ x <= z
      BY ThrottleAssumption DEF TypeOK
    <3> HIDE DEF x, z
    <3>2. ~(x > z)
      BY <3>1
    <3> QED
      BY <3>2 DEF Neglected, x, z
  <2>2. Kept(k)
    BY <2>1 DEF BlockInv, Forgotten
  <2> QED
    BY <2>2, KeptBlocks DEF Grants
<1> QED
  BY <1>1, <1>2, <1>3, InitType, NextType, PTL DEF Spec
=============================================================================
