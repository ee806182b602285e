----------------------------- MODULE TaskProofs -----------------------------
(***************************************************************************)
(* Proofs about Task, and with it about Cookie, Var and Header, for every  *)
(* number of names, values and headers and every size of the workspace, of *)
(* the table of headers and of an int.                                     *)
(***************************************************************************)
EXTENDS Task, Places, SequenceTheorems, FiniteSetTheorems, WellFoundedInduction, TLAPS

-----------------------------------------------------------------------------
(***************************************************************************)
(* Induction over numbers, for a set rather than a formula, and what       *)
(* recursive functions of numbers are.                                     *)
(***************************************************************************)
LEMMA LeastNat ==
  ASSUME NEW T \in SUBSET Nat, T # {}
  PROVE  \E x \in T : \A y \in T : x <= y
<1> DEFINE R == OpToRel(<, Nat)
<1>1. IsWellFoundedOn(R, Nat)
  BY NatLessThanWellFounded
<1>2. PICK x \in T : \A y \in T : <<y, x>> \notin R
  BY <1>1, WFMin
<1>3. x \in Nat /\ \A y \in T : y \in Nat /\ ~(y < x)
  BY <1>2 DEF OpToRel
<1> QED
  BY <1>3

LEMMA SetInduction ==
  ASSUME NEW T \in SUBSET Nat, 0 \in T, \A k \in T : k + 1 \in T
  PROVE  T = Nat
<1>1. ASSUME Nat \ T # {} PROVE FALSE
  <2>1. PICK x \in Nat \ T : \A y \in Nat \ T : x <= y
    BY <1>1, LeastNat
  <2>2. x # 0 /\ x - 1 \in Nat /\ x - 1 \in T
    BY <2>1
  <2>3. (x - 1) + 1 = x
    BY <2>1
  <2> QED
    BY <2>1, <2>2, <2>3
<1> QED
  BY <1>1

\* Up to a number n only.
LEMMA UpTo ==
  ASSUME NEW n \in Nat, NEW T \in SUBSET (0..n), 0 \in T,
         \A k \in T : k < n => k + 1 \in T
  PROVE  T = 0..n
<1> DEFINE U == {k \in Nat : k <= n => k \in T}
<1>1. 0 \in U
  OBVIOUS
<1>2. ASSUME NEW k \in U PROVE k + 1 \in U
  BY <1>2
<1>3. U \in SUBSET Nat
  OBVIOUS
<1> HIDE DEF U
<1>4. U = Nat
  BY <1>1, <1>2, <1>3, SetInduction
<1>5. ASSUME NEW k \in 0..n PROVE k \in T
  <2>1. k \in Nat /\ k <= n
    OBVIOUS
  <2>2. k \in U
    BY <1>4, <2>1
  <2> QED
    BY <2>1, <2>2 DEF U
<1> QED
  BY <1>5

\* There is a function that starts with a and goes on with g.
Recursive(f, n, D, a, g) ==
  f \in [0..n -> D] /\ f[0] = a /\ \A i \in 1..n : f[i] = g[<<f[i - 1], i>>]

LEMMA Recursion ==
  ASSUME NEW n \in Nat, NEW D, NEW a \in D, NEW g \in [D \X (1..n) -> D]
  PROVE  \E f : Recursive(f, n, D, a, g)
<1> DEFINE Ok(f, k) == f[0] = a /\ \A i \in 1..k : f[i] = g[<<f[i - 1], i>>]
           T == {k \in 0..n : \E f \in [0..k -> D] : Ok(f, k)}
<1>1. 0 \in T
  <2> DEFINE h == [i \in 0..0 |-> a]
  <2>1. h \in [0..0 -> D] /\ Ok(h, 0) /\ 0 \in 0..n
    OBVIOUS
  <2> HIDE DEF h
  <2> QED
    BY <2>1
<1>2. ASSUME NEW k \in T, k < n PROVE k + 1 \in T
  <2>1. PICK f \in [0..k -> D] : Ok(f, k)
    BY <1>2
  <2> DEFINE h == [i \in 0..(k + 1) |-> IF i <= k THEN f[i] ELSE g[<<f[k], k + 1>>]]
  <2>2. f[k] \in D /\ k + 1 \in 1..n /\ g[<<f[k], k + 1>>] \in D
    <3>1. k \in 0..k /\ k + 1 \in 1..n
      BY <1>2
    <3>2. <<f[k], k + 1>> \in D \X (1..n)
      BY <3>1
    <3> QED
      BY <3>1, <3>2
  <2>3. h \in [0..(k + 1) -> D]
    BY <2>2
  <2>4. /\ \A i \in 0..k : h[i] = f[i]
        /\ h[k + 1] = g[<<f[k], k + 1>>]
    BY <1>2
  <2> HIDE DEF h
  <2>5. h[0] = a
    BY <1>2, <2>1, <2>4
  <2>6. ASSUME NEW i \in 1..(k + 1) PROVE h[i] = g[<<h[i - 1], i>>]
    <3>1. CASE i = k + 1
      <4>1. i - 1 = k /\ k \in 0..k
        BY <1>2, <3>1
      <4> QED
        BY <2>4, <3>1, <4>1
    <3>2. CASE i \in 1..k
      <4>1. i \in 0..k /\ i - 1 \in 0..k
        BY <1>2, <3>2
      <4> QED
        BY <2>1, <2>4, <3>2, <4>1
    <3> QED
      BY <1>2, <3>1, <3>2
  <2> QED
    BY <1>2, <2>3, <2>5, <2>6
<1>3. T \in SUBSET (0..n)
  OBVIOUS
<1> HIDE DEF T
<1>4. T = 0..n
  BY <1>1, <1>2, <1>3, UpTo
<1> USE DEF T
<1>5. n \in T
  BY <1>4
<1> QED
  BY <1>5 DEF Recursive

-----------------------------------------------------------------------------
(***************************************************************************)
(* Module Places.                                                          *)
(***************************************************************************)

\* Select, place by place.
Selects(sel, S, s, I) ==
  /\ sel \in [0..Len(s) -> Seq(S)]
  /\ sel[0] = <<>>
  /\ \A k \in 1..Len(s) :
       sel[k] = IF k \in I THEN Append(sel[k - 1], s[k]) ELSE sel[k - 1]
  /\ Select(s, I) = sel[Len(s)]

LEMMA SelectSteps ==
  ASSUME NEW S, NEW s \in Seq(S), NEW I
  PROVE  \E sel : Selects(sel, S, s, I)
<1> DEFINE n == Len(s)
           Step(f, k) == IF k = 0 THEN <<>>
                         ELSE IF k \in I THEN Append(f[k - 1], s[k]) ELSE f[k - 1]
           IsSel(f) == f = [k \in 0..n |-> Step(f, k)]
           g == [x \in Seq(S) \X (1..n) |->
                  IF x[2] \in I THEN Append(x[1], s[x[2]]) ELSE x[1]]
<1>0. n \in Nat /\ <<>> \in Seq(S) /\ \A k \in 1..n : s[k] \in S
  OBVIOUS
<1>1. g \in [Seq(S) \X (1..n) -> Seq(S)]
  <2>1. ASSUME NEW x \in Seq(S) \X (1..n) PROVE g[x] \in Seq(S)
    <3>1. x[1] \in Seq(S) /\ s[x[2]] \in S
      BY <1>0
    <3>2. Append(x[1], s[x[2]]) \in Seq(S)
      BY <3>1, AppendProperties
    <3> QED
      BY <3>1, <3>2
  <2> QED
    BY <2>1
<1>2. \A y \in Seq(S), k \in 1..n :
        g[<<y, k>>] = IF k \in I THEN Append(y, s[k]) ELSE y
  OBVIOUS
<1> HIDE DEF n, g
<1>3. PICK f \in [0..n -> Seq(S)] : f[0] = <<>> /\ \A i \in 1..n : f[i] = g[<<f[i - 1], i>>]
  <2>1. \E f : Recursive(f, n, Seq(S), <<>>, g)
    BY <1>0, <1>1, Recursion
  <2> QED
    BY <2>1 DEF Recursive
<1>4. ASSUME NEW k \in 0..n PROVE f[k] = Step(f, k)
  <2>1. CASE k = 0
    BY <1>3, <2>1
  <2>2. CASE k # 0
    <3>1. k \in 1..n /\ k - 1 \in 0..n
      BY <1>0, <2>2
    <3> QED
      BY <1>2, <1>3, <2>2, <3>1
  <2> QED
    BY <2>1, <2>2
<1>5. IsSel(f)
  <2> HIDE DEF Step
  <2> QED
    BY <1>4
<1> DEFINE e == CHOOSE x : IsSel(x)
<1>6. IsSel(e)
  <2> HIDE DEF IsSel
  <2> QED
    BY <1>5
<1>7. Select(s, I) = e[n]
  BY DEF Select, n
<1> HIDE DEF e
<1>8. \A k \in 0..n : e[k] = Step(e, k)
  <2> HIDE DEF Step
  <2> QED
    BY <1>6
<1> DEFINE T == {k \in 0..n : e[k] = f[k]}
<1>9. 0 \in T
  BY <1>0, <1>3, <1>8
<1>10. ASSUME NEW k \in T, k < n PROVE k + 1 \in T
  <2>1. k + 1 \in 0..n /\ (k + 1) - 1 = k /\ k + 1 # 0
    BY <1>0, <1>10
  <2>2. e[k] = f[k]
    BY <1>10
  <2> QED
    BY <1>4, <1>8, <2>1, <2>2
<1>11. T = 0..n
  <2>1. T \in SUBSET (0..n)
    OBVIOUS
  <2> HIDE DEF T
  <2> QED
    BY <1>0, <1>9, <1>10, <2>1, UpTo
<1>12. n \in 0..n /\ e[n] = f[n]
  <2>1. n \in 0..n
    BY <1>0
  <2>2. n \in T
    BY <1>11, <2>1
  <2> QED
    BY <2>1, <2>2
<1>13. Select(s, I) = f[n]
  BY <1>7, <1>12
<1>14. \A k \in 1..n : f[k] = IF k \in I THEN Append(f[k - 1], s[k]) ELSE f[k - 1]
  <2>1. \A k \in 1..n : k \in 0..n /\ k # 0
    BY <1>0
  <2> QED
    BY <1>4, <2>1
<1> QED
  BY <1>3, <1>13, <1>14 DEF n, Selects

\* Select takes the places of I that s has, in order.
Picks(r, s, I, m, p) ==
  /\ p \in [1..Len(r) -> I \cap 1..m]
  /\ \A k \in 1..Len(r) : r[k] = s[p[k]]
  /\ \A j, k \in 1..Len(r) : j < k => p[j] < p[k]
  /\ \A i \in I \cap 1..m : \E k \in 1..Len(r) : p[k] = i

LEMMA PickNext ==
  ASSUME NEW S, NEW r \in Seq(S), NEW s \in Seq(S), NEW I, NEW m \in 0..(Len(s) - 1), NEW p,
         Picks(r, s, I, m, p)
  PROVE  \E q : Picks(IF m + 1 \in I THEN Append(r, s[m + 1]) ELSE r, s, I, m + 1, q)
<1>0. m \in Nat /\ m + 1 \in 1..Len(s) /\ Len(r) \in Nat /\ s[m + 1] \in S
  OBVIOUS
<1>1. CASE m + 1 \notin I
  <2>1. I \cap 1..(m + 1) = I \cap 1..m
    BY <1>0, <1>1
  <2>2. Picks(r, s, I, m + 1, p)
    BY <2>1 DEF Picks
  <2> QED
    BY <1>1, <2>2
<1>2. CASE m + 1 \in I
  <2> DEFINE t == Append(r, s[m + 1])
             n == Len(r)
             q == [k \in 1..(n + 1) |-> IF k <= n THEN p[k] ELSE m + 1]
  <2>1. Len(t) = n + 1 /\ t[n + 1] = s[m + 1] /\ \A k \in 1..n : t[k] = r[k]
    BY <1>0, AppendProperties
  <2>2. /\ \A k \in 1..n : p[k] \in I /\ p[k] \in 1..m /\ r[k] = s[p[k]]
        /\ \A j, k \in 1..n : j < k => p[j] < p[k]
        /\ \A i \in I \cap 1..m : \E k \in 1..n : p[k] = i
    BY DEF Picks
  <2> HIDE DEF t, n
  <2>n. n \in Nat
    BY <1>0 DEF n
  <2>3. q[n + 1] = m + 1 /\ \A k \in 1..n : q[k] = p[k]
    BY <2>n
  <2>4. q \in [1..(n + 1) -> I \cap 1..(m + 1)]
    BY <1>0, <1>2, <2>2, <2>n
  <2>d. \A k \in 1..(n + 1) : k \in 1..n \/ k = n + 1
    BY <2>n
  <2> HIDE DEF q
  <2>5. \A k \in 1..(n + 1) : t[k] = s[q[k]]
    BY <2>1, <2>2, <2>3, <2>d
  <2>6. \A j, k \in 1..(n + 1) : j < k => q[j] < q[k]
    <3> SUFFICES ASSUME NEW j \in 1..(n + 1), NEW k \in 1..(n + 1), j < k PROVE q[j] < q[k]
      OBVIOUS
    <3>1. j \in 1..n
      BY <2>n
    <3>2. CASE k = n + 1
      BY <1>0, <2>2, <2>3, <3>1, <3>2
    <3>3. CASE k \in 1..n
      BY <2>2, <2>3, <3>1, <3>3
    <3> QED
      BY <2>d, <3>2, <3>3
  <2>7. ASSUME NEW i \in I \cap 1..(m + 1) PROVE \E k \in 1..(n + 1) : q[k] = i
    <3>1. CASE i = m + 1
      <4>1. n + 1 \in 1..(n + 1)
        BY <2>n
      <4> QED
        BY <2>3, <3>1, <4>1
    <3>2. CASE i # m + 1
      <4>1. i \in I \cap 1..m
        BY <1>0, <3>2
      <4>2. PICK k \in 1..n : p[k] = i
        BY <2>2, <4>1
      <4>3. k \in 1..(n + 1)
        BY <2>n
      <4> QED
        BY <2>3, <4>2, <4>3
    <3> QED
      BY <3>1, <3>2
  <2>8. Picks(t, s, I, m + 1, q)
    BY <2>1, <2>4, <2>5, <2>6, <2>7 DEF Picks
  <2> QED
    BY <1>2, <2>8 DEF t
<1> QED
  BY <1>1, <1>2

LEMMA SelectPicks ==
  ASSUME NEW S, NEW s \in Seq(S), NEW I
  PROVE  /\ Select(s, I) \in Seq(S)
         /\ \E p : Picks(Select(s, I), s, I, Len(s), p)
<1>s. PICK sel : Selects(sel, S, s, I)
  BY SelectSteps
<1>1. /\ sel \in [0..Len(s) -> Seq(S)]
      /\ sel[0] = <<>>
      /\ \A k \in 1..Len(s) :
           sel[k] = IF k \in I THEN Append(sel[k - 1], s[k]) ELSE sel[k - 1]
      /\ Select(s, I) = sel[Len(s)]
  BY <1>s DEF Selects
<1>0. Len(s) \in Nat
  OBVIOUS
<1> DEFINE T == {m \in 0..Len(s) : \E p : Picks(sel[m], s, I, m, p)}
<1>2. 0 \in T
  <2> DEFINE p == [k \in 1..0 |-> 0]
  <2>1. Picks(sel[0], s, I, 0, p)
    BY <1>1 DEF Picks
  <2> HIDE DEF p
  <2> QED
    BY <1>0, <2>1
<1>3. ASSUME NEW m \in T, m < Len(s) PROVE m + 1 \in T
  <2>1. m \in 0..(Len(s) - 1) /\ m + 1 \in 1..Len(s) /\ (m + 1) - 1 = m /\ m + 1 \in 0..Len(s)
    BY <1>0, <1>3
  <2>2. PICK p : Picks(sel[m], s, I, m, p)
    BY <1>3
  <2>3. sel[m] \in Seq(S) /\ sel[m + 1] = IF m + 1 \in I THEN Append(sel[m], s[m + 1]) ELSE sel[m]
    BY <1>1, <2>1
  <2>4. \E q : Picks(sel[m + 1], s, I, m + 1, q)
    BY <2>1, <2>2, <2>3, PickNext
  <2> QED
    BY <2>1, <2>4
<1>4. T \in SUBSET (0..Len(s))
  OBVIOUS
<1> HIDE DEF T
<1>5. T = 0..Len(s)
  BY <1>0, <1>2, <1>3, <1>4, UpTo
<1>6. Len(s) \in T /\ Len(s) \in 0..Len(s)
  BY <1>0, <1>5
<1> QED
  BY <1>1, <1>6 DEF T

\* Total, place by place.
Sums(sum, s) ==
  /\ sum \in [0..Len(s) -> Nat]
  /\ sum[0] = 0
  /\ \A k \in 1..Len(s) : sum[k] = sum[k - 1] + s[k]
  /\ Total(s) = sum[Len(s)]

LEMMA TotalSteps ==
  ASSUME NEW s \in Seq(Nat)
  PROVE  \E sum : Sums(sum, s)
<1> DEFINE n == Len(s)
           Step(f, k) == IF k = 0 THEN 0 ELSE f[k - 1] + s[k]
           IsSum(f) == f = [k \in 0..n |-> Step(f, k)]
           g == [x \in Nat \X (1..n) |-> x[1] + s[x[2]]]
           e == CHOOSE f : IsSum(f)
<1>0. n \in Nat /\ \A k \in 1..n : s[k] \in Nat
  OBVIOUS
<1>1. Total(s) = e[n]
  BY DEF Total
<1> HIDE DEF n
<1>2. g \in [Nat \X (1..n) -> Nat]
  BY <1>0
<1>3. \A y \in Nat, k \in 1..n : g[<<y, k>>] = y + s[k]
  OBVIOUS
<1> HIDE DEF g
<1>4. PICK f : Recursive(f, n, Nat, 0, g)
  BY <1>0, <1>2, Recursion
<1>5. f \in [0..n -> Nat] /\ f[0] = 0 /\ \A k \in 1..n : f[k] = g[<<f[k - 1], k>>]
  BY <1>4 DEF Recursive
<1>6. ASSUME NEW k \in 1..n PROVE f[k] = f[k - 1] + s[k]
  <2>1. k - 1 \in 0..n
    BY <1>0
  <2> QED
    BY <1>3, <1>5, <2>1
<1>7. IsSum(f)
  <2>1. ASSUME NEW k \in 0..n PROVE f[k] = Step(f, k)
    <3>1. k = 0 \/ k \in 1..n
      BY <1>0
    <3> QED
      BY <1>5, <1>6, <3>1
  <2> HIDE DEF Step
  <2> QED
    BY <1>5, <2>1
<1>8. IsSum(e)
  <2> HIDE DEF IsSum
  <2> QED
    BY <1>7
<1> HIDE DEF e
<1>9. \A k \in 0..n : e[k] = Step(e, k)
  <2> HIDE DEF Step
  <2> QED
    BY <1>8
<1> DEFINE T == {k \in 0..n : e[k] = f[k]}
<1>10. 0 \in T
  BY <1>0, <1>5, <1>9
<1>11. ASSUME NEW k \in T, k < n PROVE k + 1 \in T
  <2>1. k + 1 \in 0..n /\ k + 1 \in 1..n /\ (k + 1) - 1 = k /\ k + 1 # 0
    BY <1>0, <1>11
  <2>2. e[k + 1] = e[k] + s[k + 1]
    BY <1>9, <2>1
  <2>3. f[k + 1] = f[k] + s[k + 1]
    BY <1>6, <2>1
  <2> QED
    BY <1>11, <2>1, <2>2, <2>3
<1>12. T \in SUBSET (0..n)
  OBVIOUS
<1>13. e[n] = f[n]
  <2> HIDE DEF T
  <2>1. T = 0..n
    BY <1>0, <1>10, <1>11, <1>12, UpTo
  <2>2. n \in T
    BY <1>0, <2>1
  <2> QED
    BY <2>2 DEF T
<1>14. Sums(f, s)
  BY <1>1, <1>5, <1>6, <1>13 DEF Sums, n
<1> QED
  BY <1>14

LEMMA TotalType ==
  ASSUME NEW s \in Seq(Nat)
  PROVE  Total(s) \in Nat /\ (s = <<>> => Total(s) = 0)
<1>1. PICK f : Sums(f, s)
  BY TotalSteps
<1>2. Len(s) \in 0..Len(s) /\ (s = <<>> => Len(s) = 0)
  OBVIOUS
<1> QED
  BY <1>1, <1>2 DEF Sums

\* One more at the end, one more at the beginning, and another one in a place.
LEMMA TotalAppend ==
  ASSUME NEW s \in Seq(Nat), NEW x \in Nat
  PROVE  Total(Append(s, x)) = Total(s) + x
<1> DEFINE t == Append(s, x)
           n == Len(s)
<1>0. t \in Seq(Nat) /\ n \in Nat /\ Len(t) = n + 1 /\ t[n + 1] = x /\ \A k \in 1..n : t[k] = s[k]
  BY AppendProperties
<1> HIDE DEF t
<1>1. PICK f : Sums(f, s)
  BY TotalSteps
<1>2. PICK g : Sums(g, t)
  BY <1>0, TotalSteps
<1>3. f[0] = 0 /\ (\A k \in 1..n : f[k] = f[k - 1] + s[k]) /\ Total(s) = f[n]
  BY <1>1 DEF Sums
<1>4. g[0] = 0 /\ (\A k \in 1..(n + 1) : g[k] = g[k - 1] + t[k]) /\ Total(t) = g[n + 1]
  BY <1>0, <1>2 DEF Sums
<1> HIDE DEF n
<1> DEFINE T == {k \in 0..n : f[k] = g[k]}
<1>5. 0 \in T
  BY <1>0, <1>3, <1>4
<1>6. ASSUME NEW k \in T, k < n PROVE k + 1 \in T
  <2>1. k + 1 \in 0..n /\ k + 1 \in 1..n /\ k + 1 \in 1..(n + 1) /\ (k + 1) - 1 = k
    BY <1>0, <1>6
  <2> QED
    BY <1>0, <1>3, <1>4, <1>6, <2>1
<1>7. T \in SUBSET (0..n)
  OBVIOUS
<1>8. f[n] = g[n]
  <2> HIDE DEF T
  <2>1. T = 0..n
    BY <1>0, <1>5, <1>6, <1>7, UpTo
  <2>2. n \in T
    BY <1>0, <2>1
  <2> QED
    BY <2>2 DEF T
<1>9. n + 1 \in 1..(n + 1) /\ (n + 1) - 1 = n
  BY <1>0
<1>10. Total(t) = g[n] + x
  BY <1>0, <1>4, <1>9
<1> QED
  BY <1>3, <1>8, <1>10 DEF t

LEMMA TotalCons ==
  ASSUME NEW s \in Seq(Nat), NEW t \in Seq(Nat), Len(t) = Len(s) + 1,
         \A k \in 1..Len(s) : t[k + 1] = s[k]
  PROVE  Total(t) = Total(s) + t[1]
<1> DEFINE n == Len(s)
<1>0. n \in Nat /\ Len(t) = n + 1 /\ t[1] \in Nat
  OBVIOUS
<1>1. PICK f : Sums(f, s)
  BY TotalSteps
<1>2. PICK g : Sums(g, t)
  BY TotalSteps
<1>3. /\ f[0] = 0 /\ (\A k \in 1..n : f[k] = f[k - 1] + s[k]) /\ Total(s) = f[n]
      /\ \A k \in 0..n : f[k] \in Nat
  BY <1>1 DEF Sums
<1>4. g[0] = 0 /\ (\A k \in 1..(n + 1) : g[k] = g[k - 1] + t[k]) /\ Total(t) = g[n + 1]
  BY <1>0, <1>2 DEF Sums
<1>5. \A k \in 1..n : t[k + 1] = s[k] /\ s[k] \in Nat
  BY SMTT(30)
<1> HIDE DEF n
<1> DEFINE T == {k \in 0..n : g[k + 1] = f[k] + t[1]}
<1>6. 0 \in T
  <2>1. 1 \in 1..(n + 1) /\ 1 - 1 = 0 /\ 0 + 1 = 1
    BY <1>0
  <2>2. g[1] = g[0] + t[1]
    BY <1>4, <2>1
  <2> QED
    BY <1>0, <1>3, <1>4, <2>1, <2>2
<1>7. ASSUME NEW k \in T, k < n PROVE k + 1 \in T
  <2>1. /\ k + 1 \in 0..n /\ k + 1 \in 1..n /\ (k + 1) - 1 = k /\ k \in 0..n
        /\ (k + 1) + 1 \in 1..(n + 1) /\ ((k + 1) + 1) - 1 = k + 1
    BY <1>0, <1>7
  <2>2. g[(k + 1) + 1] = g[k + 1] + s[k + 1]
    BY <1>4, <1>5, <2>1
  <2>3. f[k + 1] = f[k] + s[k + 1]
    BY <1>3, <2>1
  <2>4. g[k + 1] = f[k] + t[1]
    BY <1>7
  <2>5. f[k] \in Nat /\ s[k + 1] \in Nat
    BY <1>3, <1>5, <2>1
  <2>6. (f[k] + t[1]) + s[k + 1] = (f[k] + s[k + 1]) + t[1]
    BY <1>0, <2>5, SMTT(30)
  <2> QED
    BY <2>1, <2>2, <2>3, <2>4, <2>6
<1>8. T \in SUBSET (0..n)
  OBVIOUS
<1>9. g[n + 1] = f[n] + t[1]
  <2> HIDE DEF T
  <2>1. T = 0..n
    BY <1>0, <1>6, <1>7, <1>8, UpTo
  <2>2. n \in T
    BY <1>0, <2>1
  <2> QED
    BY <2>2 DEF T
<1> QED
  BY <1>3, <1>4, <1>9

LEMMA TotalReplace ==
  ASSUME NEW s \in Seq(Nat), NEW t \in Seq(Nat), Len(t) = Len(s), NEW i \in 1..Len(s),
         \A k \in 1..Len(s) : k # i => t[k] = s[k]
  PROVE  Total(t) + s[i] = Total(s) + t[i]
<1> DEFINE n == Len(s)
<1>0. n \in Nat /\ s[i] \in Nat /\ t[i] \in Nat /\ i \in 1..n
  OBVIOUS
<1>1. PICK f : Sums(f, s)
  BY TotalSteps
<1>2. PICK g : Sums(g, t)
  BY TotalSteps
<1>3. /\ f[0] = 0 /\ (\A k \in 1..n : f[k] = f[k - 1] + s[k]) /\ Total(s) = f[n]
      /\ \A k \in 0..n : f[k] \in Nat
  BY <1>1 DEF Sums
<1>4. /\ g[0] = 0 /\ (\A k \in 1..n : g[k] = g[k - 1] + t[k]) /\ Total(t) = g[n]
      /\ \A k \in 0..n : g[k] \in Nat
  BY <1>2 DEF Sums
<1>5. \A k \in 1..n : s[k] \in Nat /\ t[k] \in Nat /\ (k # i => t[k] = s[k])
  OBVIOUS
<1> HIDE DEF n
<1> DEFINE T == {k \in 0..n : IF k < i THEN g[k] = f[k] ELSE g[k] + s[i] = f[k] + t[i]}
<1>6. 0 \in T
  BY <1>0, <1>3, <1>4
<1>7. ASSUME NEW k \in T, k < n PROVE k + 1 \in T
  <2>1. k + 1 \in 0..n /\ k + 1 \in 1..n /\ (k + 1) - 1 = k /\ k \in 0..n
    BY <1>0, <1>7
  <2>2. g[k + 1] = g[k] + t[k + 1] /\ f[k + 1] = f[k] + s[k + 1]
    BY <1>3, <1>4, <2>1
  <2>3. f[k] \in Nat /\ g[k] \in Nat /\ s[k + 1] \in Nat /\ t[k + 1] \in Nat
    BY <1>3, <1>4, <1>5, <2>1
  <2>4. CASE k + 1 < i
    <3>1. g[k] = f[k] /\ t[k + 1] = s[k + 1]
      BY <1>0, <1>5, <1>7, <2>1, <2>4
    <3> QED
      BY <2>1, <2>2, <2>4, <3>1
  <2>5. CASE k + 1 = i
    <3>1. g[k] = f[k]
      BY <1>0, <1>7, <2>1, <2>5
    <3>2. (f[k] + t[i]) + s[i] = (f[k] + s[i]) + t[i]
      BY <1>0, <2>3, SMTT(30)
    <3>3. ~(k + 1 < i)
      BY <1>0, <2>5
    <3> QED
      BY <2>1, <2>2, <2>5, <3>1, <3>2, <3>3
  <2>6. CASE k + 1 > i
    <3>1. ~(k < i) /\ ~(k + 1 < i) /\ k + 1 # i
      BY <1>0, <2>1, <2>6
    <3>2. g[k] + s[i] = f[k] + t[i] /\ t[k + 1] = s[k + 1]
      BY <1>5, <1>7, <2>1, <3>1
    <3>3. (g[k] + t[k + 1]) + s[i] = (f[k] + s[k + 1]) + t[i]
      <4> DEFINE a == g[k]
                 b == s[i]
                 c == f[k]
                 d == t[i]
                 x == s[k + 1]
      <4>1. a \in Nat /\ b \in Nat /\ c \in Nat /\ d \in Nat /\ x \in Nat /\ a + b = c + d
        BY <1>0, <2>3, <3>2
      <4>2. t[k + 1] = x
        BY <3>2
      <4> HIDE DEF a, b, c, d, x
      <4>3. (a + x) + b = (c + x) + d
        BY <4>1
      <4> QED
        BY <4>2, <4>3 DEF a, b, c, d, x
    <3> QED
      BY <2>1, <2>2, <3>1, <3>3
  <2> QED
    BY <1>0, <2>1, <2>4, <2>5, <2>6
<1>8. T \in SUBSET (0..n)
  OBVIOUS
<1>9. g[n] + s[i] = f[n] + t[i]
  <2> HIDE DEF T
  <2>1. T = 0..n
    BY <1>0, <1>6, <1>7, <1>8, UpTo
  <2>2. n \in T /\ ~(n < i)
    BY <1>0, <2>1
  <2> QED
    BY <2>2 DEF T
<1> QED
  BY <1>3, <1>4, <1>9

\* The three modules mean the same by Select, Total and Min.
LEMMA SameSelect ==
  ASSUME NEW s, NEW I
  PROVE  C!Select(s, I) = Select(s, I) /\ V!Select(s, I) = Select(s, I)
         /\ H!Select(s, I) = Select(s, I)
  BY DEF Select, C!Select, V!Select, H!Select

LEMMA SameTotal ==
  ASSUME NEW s
  PROVE  C!Total(s) = Total(s) /\ V!Total(s) = Total(s)
  BY DEF Total, C!Total, V!Total

LEMMA MinLeast ==
  ASSUME NEW T \in SUBSET Nat, T # {}
  PROVE  /\ C!Min(T) = V!Min(T) /\ H!Min(T) = V!Min(T)
         /\ V!Min(T) \in T /\ \A y \in T : V!Min(T) <= y
<1>1. \E x \in T : \A y \in T : x <= y
  BY LeastNat
<1>2. V!Min(T) \in T /\ \A y \in T : V!Min(T) <= y
  BY <1>1 DEF V!Min
<1>3. C!Min(T) = V!Min(T) /\ H!Min(T) = V!Min(T)
  BY DEF C!Min, H!Min, V!Min
<1> QED
  BY <1>2, <1>3

-----------------------------------------------------------------------------
(***************************************************************************)
(* Var.                                                                    *)
(***************************************************************************)

\* vh_get_var finds the first variable of that name, if there is one.
LEMMA GetVar ==
  ASSUME NEW S, NEW l \in Seq(S), NEW name, NEW i, i = V!vh_get_var(l, name)
  PROVE  \/ i = 0 /\ \A k \in 1..Len(l) : l[k].name # name
         \/ i \in 1..Len(l) /\ l[i].name = name
<1> DEFINE I == {k \in 1..Len(l) : l[k].name = name}
<1>1. V!vh_get_var(l, name) = IF I # {} THEN V!Min(I) ELSE 0
  BY DEF V!vh_get_var, V!SelectInSeq
<1>2. I \in SUBSET Nat
  OBVIOUS
<1>3. I # {} => V!Min(I) \in I
  BY <1>2, MinLeast
<1> QED
  BY <1>1, <1>3

\* Each name is on the list once.
Once(l) == \A i, j \in 1..Len(l) : l[i].name = l[j].name => i = j

LEMMA SelectOnce ==
  ASSUME NEW S, NEW l \in Seq(S), NEW I, Once(l)
  PROVE  Once(Select(l, I))
<1> DEFINE r == Select(l, I)
<1>1. PICK p : Picks(r, l, I, Len(l), p)
  BY SelectPicks
<1>0. r \in Seq(S)
  BY SelectPicks
<1> HIDE DEF r
<1>2. /\ \A k \in 1..Len(r) : p[k] \in 1..Len(l) /\ r[k] = l[p[k]]
      /\ \A j, k \in 1..Len(r) : j < k => p[j] < p[k]
  BY <1>1 DEF Picks
<1>3. ASSUME NEW i \in 1..Len(r), NEW j \in 1..Len(r), r[i].name = r[j].name
      PROVE  i = j
  <2>1. p[i] = p[j]
    BY <1>2, <1>3 DEF Once
  <2>2. p[i] \in Nat /\ p[j] \in Nat /\ i \in Nat /\ j \in Nat
    BY <1>2
  <2>3. ~(i < j) /\ ~(j < i)
    BY <1>2, <2>1, <2>2
  <2> QED
    BY <2>2, <2>3
<1> QED
  BY <1>3 DEF Once, r

-----------------------------------------------------------------------------
Anything == Text \cup Int \cup Backend \cup {NULL}

Variable == [name : VarName, type : V!Type, value : Anything]

Setting == [type : V!Type, value : Text \cup IntValue \cup Backend]

\* A VCL_INT that an int can hold is stored as it is.
LEMMA ToIntKeeps ==
  ASSUME NEW n \in Int
  PROVE  V!ToInt(n) \in Int /\ (V!InRange(n) => V!ToInt(n) = n)
<1> DEFINE h == INT_MAX + 1
           m == 2 * h
<1>1. h \in Nat /\ h > 0
  BY TaskAssumption
<1>2. V!ToInt(n) = IF n % m >= m \div 2 THEN (n % m) - m ELSE n % m
  BY DEF V!ToInt
<1>3. V!InRange(n) => -h <= n /\ n < h
  BY TaskAssumption DEF V!InRange
<1> HIDE DEF h
<1>4. m \in Nat /\ m > 0 /\ m \div 2 = h /\ n % m \in Int
  BY <1>1
<1>5. 0 <= n /\ n < h => n % m = n
  BY <1>1
<1>6. n < 0 /\ -h <= n => n % m = n + m
  BY <1>1
<1> HIDE DEF m
<1>7. (n % m) - m \in Int
  BY <1>4
<1>8. ASSUME V!InRange(n) PROVE V!ToInt(n) = n
  <2>1. CASE 0 <= n
    BY <1>1, <1>2, <1>3, <1>4, <1>5, <1>8, <2>1
  <2>2. CASE n < 0
    <3>1. n % m = n + m /\ m = 2 * h
      BY <1>3, <1>6, <1>8, <2>2 DEF m
    <3>2. n + m >= h
      BY <1>1, <1>3, <1>8, <3>1
    <3>3. (n + m) - m = n
      BY <1>4, SMTT(30)
    <3> QED
      BY <1>2, <1>4, <3>1, <3>2, <3>3
  <2> QED
    BY <2>1, <2>2
<1> QED
  BY <1>2, <1>4, <1>7, <1>8

\* The list after vmod_set: the variable has its place, at the head if it is
\* new.
LEMMA SetWrites ==
  ASSUME vh \in Seq(Variable), Once(vh),
         NEW name \in VarName, NEW type \in V!Type, NEW value \in V!ValueOf(type), NEW w
  PROVE  LET l == V!vh_get_var_alloc(name)
             i == V!vh_get_var(l, name)
             x == [l EXCEPT ![i] = [name |-> name, type |-> type,
                                    value |-> V!Stored(type, value, w)]]
         IN /\ l \in Seq(Variable) /\ Once(l)
            /\ i \in 1..Len(l) /\ l[i].name = name
            /\ x \in Seq(Variable) /\ Len(x) = Len(l)
            /\ \A k \in 1..Len(l) :
                 x[k] = IF k = i THEN [name |-> name, type |-> type,
                                       value |-> V!Stored(type, value, w)]
                                 ELSE l[k]
            /\ IF V!vh_get_var(vh, name) # 0 THEN l = vh
               ELSE /\ \A k \in 1..Len(vh) : vh[k].name # name
                    /\ Len(l) = Len(vh) + 1 /\ i = 1
                    /\ \A k \in 1..Len(vh) : l[k + 1] = vh[k]
<1> DEFINE l == V!vh_get_var_alloc(name)
           i == V!vh_get_var(l, name)
           v == V!Stored(type, value, w)
           y == [name |-> name, type |-> type, value |-> v]
           x == [l EXCEPT ![i] = y]
           new == [name |-> name, type |-> "STRING", value |-> NULL]
<1>1. l = IF V!vh_get_var(vh, name) # 0 THEN vh ELSE <<new>> \o vh
  BY DEF V!vh_get_var_alloc
<1>2. new \in Variable /\ new.name = name
  BY DEF Variable, V!Type, Anything
<1> HIDE DEF new
<1>3. v \in Anything
  <2>1. CASE type = "STRING"
    BY <2>1 DEF V!Stored, V!ValueOf, Anything
  <2>2. CASE type = "INT"
    <3>1. value \in Int
      BY <2>2, TaskAssumption DEF V!ValueOf
    <3>2. v = V!ToInt(value)
      BY <2>2 DEF V!Stored
    <3> QED
      BY <3>1, <3>2, ToIntKeeps DEF Anything
  <2>3. CASE type = "BACKEND"
    BY <2>3 DEF V!Stored, V!ValueOf, Anything
  <2> QED
    BY <2>1, <2>2, <2>3 DEF V!Type
<1>4. /\ l \in Seq(Variable) /\ Once(l) /\ \E k \in 1..Len(l) : l[k].name = name
      /\ IF V!vh_get_var(vh, name) # 0 THEN l = vh
         ELSE /\ \A k \in 1..Len(vh) : vh[k].name # name
              /\ Len(l) = Len(vh) + 1 /\ l[1].name = name
              /\ \A k \in 1..Len(vh) : l[k + 1] = vh[k]
  <2>1. CASE V!vh_get_var(vh, name) # 0
    BY <1>1, <2>1, GetVar
  <2>2. CASE V!vh_get_var(vh, name) = 0
    <3>1. \A k \in 1..Len(vh) : vh[k].name # name
      BY <2>2, GetVar
    <3>2. l = <<new>> \o vh
      BY <1>1, <2>2
    <3>3. /\ l \in Seq(Variable) /\ Len(l) = Len(vh) + 1 /\ l[1] = new
          /\ \A k \in 1..Len(vh) : l[k + 1] = vh[k]
      BY <1>2, <3>2
    <3> HIDE DEF l
    <3>4. \A k \in 1..Len(l) : k = 1 \/ (k - 1 \in 1..Len(vh) /\ l[k] = vh[k - 1])
      BY <3>3
    <3>5. ASSUME NEW j \in 1..Len(l), NEW k \in 1..Len(l), l[j].name = l[k].name
          PROVE  j = k
      <4>1. CASE j = 1 \/ k = 1
        BY <1>2, <3>1, <3>3, <3>4, <3>5, <4>1
      <4>2. CASE j # 1 /\ k # 1
        <5>1. j - 1 = k - 1
          BY <3>4, <3>5, <4>2, SMTT(30) DEF Once
        <5> QED
          BY <3>3, <5>1
      <4> QED
        BY <4>1, <4>2
    <3>6. 1 \in 1..Len(l)
      BY <3>3
    <3>7. Once(l)
      BY <3>5 DEF Once
    <3> QED
      BY <1>2, <2>2, <3>1, <3>3, <3>6, <3>7
  <2> QED
    BY <2>1, <2>2
<1> HIDE DEF l
<1>5. i \in 1..Len(l) /\ l[i].name = name
  BY <1>4, GetVar
<1> HIDE DEF i
<1>6. V!vh_get_var(vh, name) = 0 => i = 1
  BY <1>4, <1>5 DEF Once
<1> HIDE DEF v
<1>8. y \in Variable
  BY <1>3 DEF Variable
<1> HIDE DEF y
<1>10. /\ x \in Seq(Variable) /\ Len(x) = Len(l)
       /\ \A k \in 1..Len(l) : x[k] = IF k = i THEN y ELSE l[k]
  BY <1>4, <1>5, <1>8
<1> QED
  BY <1>4, <1>5, <1>6, <1>10, ZenonT(60) DEF l, i, v, y

\* What a variable is after it was set to s.
Holds(v, s) ==
  /\ s # NULL /\ v.type = s.type
  /\ \/ v.value = s.value
     \/ v.type = "STRING" /\ v.value = NULL
     \/ v.type = "INT" /\ ~V!InRange(s.value)

VarsInv ==
  /\ vh \in Seq(Variable) /\ Once(vh)
  /\ last \in [VarName -> Setting \cup {NULL}]
  /\ \A n \in VarName : last[n] # NULL => \E k \in 1..Len(vh) : vh[k].name = n
  /\ \A k \in 1..Len(vh) : Holds(vh[k], last[vh[k].name])

LEMMA NoSetting == NULL \notin Setting
  BY TaskAssumption DEF Setting

LEMMA VarsGet == VarsInv => GetsLast
<1> SUFFICES ASSUME VarsInv, NEW n \in VarName, NEW type \in V!Type
             PROVE  IF last[n] = NULL \/ last[n].type # type THEN V!vmod_get(n, type) = NULL
                    ELSE \/ V!vmod_get(n, type) = last[n].value
                         \/ type = "STRING" /\ V!vmod_get(n, type) = NULL
                         \/ type = "INT" /\ ~V!InRange(last[n].value)
  BY DEF GetsLast, V!GetsLast
<1> DEFINE i == V!vh_get_var(vh, n)
<1>1. \/ i = 0 /\ \A k \in 1..Len(vh) : vh[k].name # n
      \/ i \in 1..Len(vh) /\ vh[i].name = n
  BY GetVar DEF VarsInv
<1>2. V!vmod_get(n, type) = IF i = 0 \/ vh[i].type # type THEN NULL ELSE vh[i].value
  BY DEF V!vmod_get
<1> HIDE DEF i
<1>3. CASE i = 0 /\ \A k \in 1..Len(vh) : vh[k].name # n
  BY <1>2, <1>3 DEF VarsInv
<1>4. CASE i \in 1..Len(vh) /\ vh[i].name = n
  <2>1. Holds(vh[i], last[n])
    BY <1>4 DEF VarsInv
  <2>2. i # 0
    BY <1>4
  <2> QED
    BY <1>2, <2>1, <2>2 DEF Holds
<1> QED
  BY <1>1, <1>3, <1>4

LEMMA StoredHolds ==
  ASSUME NEW name, NEW type \in V!Type, NEW value \in V!ValueOf(type), NEW w
  PROVE  /\ [type |-> type, value |-> value] \in Setting
         /\ Holds([name |-> name, type |-> type, value |-> V!Stored(type, value, w)],
                  [type |-> type, value |-> value])
<1>1. [type |-> type, value |-> value] \in Setting
  BY DEF Setting, V!ValueOf, V!Type
<1>2. [type |-> type, value |-> value] # NULL
  BY <1>1, NoSetting
<1>3. CASE type = "STRING"
  BY <1>1, <1>2, <1>3 DEF Holds, V!Stored
<1>4. CASE type = "INT"
  <2>1. value \in Int
    BY <1>4, TaskAssumption DEF V!ValueOf
  <2> QED
    BY <1>1, <1>2, <1>4, <2>1, ToIntKeeps DEF Holds, V!Stored
<1>5. CASE type = "BACKEND"
  BY <1>1, <1>2, <1>5 DEF Holds, V!Stored
<1> QED
  BY <1>3, <1>4, <1>5 DEF V!Type

LEMMA VarSetInv ==
  ASSUME VarsInv, NEW name \in VarName, NEW type \in V!Type, NEW value \in V!ValueOf(type),
         V!vmod_set(name, type, value)
  PROVE  VarsInv'
<1> DEFINE w == ws - V!VarCost(name)
           l == V!vh_get_var_alloc(name)
           i == V!vh_get_var(l, name)
           y == [name |-> name, type |-> type, value |-> V!Stored(type, value, w)]
           x == [l EXCEPT ![i] = y]
           s == [type |-> type, value |-> value]
<1>1. CASE UNCHANGED <<vh, last>>
  BY <1>1 DEF VarsInv
<1>2. CASE vh' = x /\ last' = [last EXCEPT ![name] = s]
  <2>1. /\ l \in Seq(Variable) /\ i \in 1..Len(l) /\ l[i].name = name /\ Once(l)
        /\ x \in Seq(Variable) /\ Len(x) = Len(l)
        /\ \A k \in 1..Len(l) : x[k] = IF k = i THEN y ELSE l[k]
        /\ IF V!vh_get_var(vh, name) # 0 THEN l = vh
           ELSE /\ \A k \in 1..Len(vh) : vh[k].name # name
                /\ Len(l) = Len(vh) + 1 /\ i = 1
                /\ \A k \in 1..Len(vh) : l[k + 1] = vh[k]
    BY SetWrites DEF VarsInv
  <2>2. s \in Setting /\ Holds(y, s) /\ y.name = name
    BY StoredHolds
  <2> HIDE DEF y, x, l, i, s
  <2>3. last' \in [VarName -> Setting \cup {NULL}] /\ last'[name] = s
        /\ \A n \in VarName : n # name => last'[n] = last[n]
    BY <1>2, <2>2 DEF VarsInv
  <2>4. \A k \in 1..Len(l) : k = i \/ \E j \in 1..Len(vh) : l[k] = vh[j]
    <3>1. CASE l = vh
      BY <3>1
    <3>2. CASE /\ Len(l) = Len(vh) + 1 /\ i = 1
               /\ \A k \in 1..Len(vh) : l[k + 1] = vh[k]
      <4> SUFFICES ASSUME NEW k \in 1..Len(l), k # i PROVE \E j \in 1..Len(vh) : l[k] = vh[j]
        OBVIOUS
      <4>1. Len(vh) \in Nat
        BY DEF VarsInv
      <4>2. k - 1 \in 1..Len(vh) /\ (k - 1) + 1 = k
        BY <3>2, <4>1
      <4> QED
        BY <3>2, <4>2
    <3> QED
      BY <2>1, <3>1, <3>2
  <2>5. \A j \in 1..Len(vh) : \E k \in 1..Len(l) : l[k] = vh[j]
    <3>1. CASE l = vh
      BY <3>1
    <3>2. CASE Len(l) = Len(vh) + 1 /\ \A k \in 1..Len(vh) : l[k + 1] = vh[k]
      <4> SUFFICES ASSUME NEW j \in 1..Len(vh) PROVE \E k \in 1..Len(l) : l[k] = vh[j]
        OBVIOUS
      <4>1. Len(vh) \in Nat
        BY DEF VarsInv
      <4>2. j + 1 \in 1..Len(l)
        BY <3>2, <4>1
      <4> QED
        BY <3>2, <4>2
    <3> QED
      BY <2>1, <3>1, <3>2
  <2>6. \A k \in 1..Len(l) : x[k].name = l[k].name
    BY <2>1, <2>2
  <2>7. Once(x)
    BY <2>1, <2>6 DEF Once
  <2>8. ASSUME NEW n \in VarName, last'[n] # NULL PROVE \E k \in 1..Len(x) : x[k].name = n
    <3>1. CASE n = name
      BY <2>1, <2>6, <3>1
    <3>2. CASE n # name
      <4>1. PICK j \in 1..Len(vh) : vh[j].name = n
        BY <2>3, <2>8, <3>2 DEF VarsInv
      <4>2. PICK k \in 1..Len(l) : l[k] = vh[j]
        BY <2>5
      <4> QED
        BY <2>1, <2>6, <4>1, <4>2
    <3> QED
      BY <3>1, <3>2
  <2>9. ASSUME NEW k \in 1..Len(x) PROVE Holds(x[k], last'[x[k].name])
    <3>1. CASE k = i
      BY <2>1, <2>2, <2>3, <3>1
    <3>2. CASE k # i
      <4>1. x[k] = l[k] /\ l[k].name # name
        BY <2>1, <3>2 DEF Once
      <4>2. PICK j \in 1..Len(vh) : l[k] = vh[j]
        BY <2>1, <2>4, <3>2
      <4>3. Holds(vh[j], last[vh[j].name]) /\ vh[j].name \in VarName
        <5>1. vh[j] \in Variable
          BY DEF VarsInv
        <5> QED
          BY <5>1 DEF VarsInv, Variable
      <4> QED
        BY <2>3, <4>1, <4>2, <4>3
    <3> QED
      BY <3>1, <3>2
  <2> QED
    BY <1>2, <2>1, <2>3, <2>7, <2>8, <2>9 DEF VarsInv
<1> QED
  BY <1>1, <1>2 DEF V!vmod_set

\* No variable is set.
LEMMA VarsNone ==
  vh = <<>> /\ last = [n \in VarName |-> NULL] => VarsInv
  BY DEF VarsInv, Once

LEMMA VarsNoneNext ==
  vh' = <<>> /\ last' = [n \in VarName |-> NULL] => VarsInv'
  BY DEF VarsInv, Once

-----------------------------------------------------------------------------
\* What the calls of vmod_var.c do to the variables.
LEMMA VarStep ==
  ASSUME VarsInv, V!Next
  PROVE  VarsInv'
<1>1. ASSUME NEW name \in VarName, NEW type \in V!Type, NEW value \in V!ValueOf(type),
             V!vmod_set(name, type, value)
      PROVE  VarsInv'
  BY <1>1, VarSetInv
<1>2. ASSUME V!vmod_clear PROVE VarsInv'
  BY <1>2, VarsNoneNext DEF V!vmod_clear
<1> QED
  BY <1>1, <1>2 DEF V!Next

LEMMA VarsInvNext == VarsInv /\ [Next]_vars => VarsInv'
<1> SUFFICES ASSUME VarsInv, [Next]_vars PROVE VarsInv'
  OBVIOUS
<1>1. CASE CookieCall \/ HeaderCall \/ CopyStep \/ UNCHANGED vars
  <2>1. UNCHANGED <<vh, last>>
    BY <1>1 DEF CookieCall, HeaderCall, CopyStep, vars
  <2> QED
    BY <2>1 DEF VarsInv
<1>2. CASE VarCall
  BY <1>2, VarStep DEF VarCall
<1>3. CASE EndTask
  BY <1>3, VarsNoneNext DEF EndTask
<1> QED
  BY <1>1, <1>2, <1>3 DEF Next

LEMMA VarsInvInit == Init => VarsInv
  BY VarsNone DEF Init, V!Init

\* What the getters of vmod_var.c return is what was last set under that name
\* and with that type since the task began or clear was called, for any number
\* of variables, whether or not the workspace ever runs out.
THEOREM TaskGetsLast == Spec => []GetsLast
<1>1. VarsInv => GetsLast
  BY VarsGet
<1> QED
  BY <1>1, VarsInvInit, VarsInvNext, PTL DEF Spec

-----------------------------------------------------------------------------
(***************************************************************************)
(* Header.                                                                 *)
(***************************************************************************)

\* The whole list, if no place is left out, and less of it otherwise.
LEMMA SelectAll ==
  ASSUME NEW S, NEW s \in Seq(S), NEW I
  PROVE  /\ (1..Len(s) \subseteq I) => Select(s, I) = s
         /\ \A i \in (1..Len(s)) \ I : Len(Select(s, I)) < Len(s)
<1>s. PICK sel : Selects(sel, S, s, I)
  BY SelectSteps
<1> DEFINE n == Len(s)
<1>0. n \in Nat
  OBVIOUS
<1>1. /\ \A k \in 0..n : sel[k] \in Seq(S)
      /\ sel[0] = <<>>
      /\ \A k \in 1..n : sel[k] = IF k \in I THEN Append(sel[k - 1], s[k]) ELSE sel[k - 1]
      /\ Select(s, I) = sel[n]
  BY <1>s DEF Selects
<1> HIDE DEF n
<1>2. ASSUME 1..n \subseteq I PROVE Select(s, I) = s
  <2> DEFINE T == {k \in 0..n : Len(sel[k]) = k /\ \A j \in 1..k : sel[k][j] = s[j]}
  <2>1. 0 \in T
    BY <1>0, <1>1
  <2>2. ASSUME NEW k \in T, k < n PROVE k + 1 \in T
    <3>1. k + 1 \in 1..n /\ k \in 0..n /\ (k + 1) - 1 = k /\ k + 1 \in 0..n
      BY <1>0, <2>2
    <3>2. sel[k] \in Seq(S) /\ Len(sel[k]) = k /\ \A j \in 1..k : sel[k][j] = s[j]
      BY <1>1, <2>2
    <3>3. sel[k + 1] = Append(sel[k], s[k + 1]) /\ s[k + 1] \in S
      <4>1. k + 1 \in I
        BY <1>2, <3>1
      <4>2. sel[k + 1] = Append(sel[k], s[k + 1])
        BY <1>1, <3>1, <4>1
      <4>3. s[k + 1] \in S
        BY <3>1 DEF n
      <4> QED
        BY <4>2, <4>3
    <3>4. /\ Len(sel[k + 1]) = k + 1 /\ sel[k + 1][k + 1] = s[k + 1]
          /\ \A j \in 1..k : sel[k + 1][j] = s[j]
      BY <3>2, <3>3, AppendProperties
    <3>5. \A j \in 1..(k + 1) : j = k + 1 \/ j \in 1..k
      BY <3>1
    <3> QED
      BY <3>1, <3>4, <3>5
  <2>3. T \in SUBSET (0..n)
    OBVIOUS
  <2> HIDE DEF T
  <2>4. T = 0..n
    BY <1>0, <2>1, <2>2, <2>3, UpTo
  <2>5. n \in T
    BY <1>0, <2>4
  <2>6. Len(sel[n]) = n /\ \A j \in 1..n : sel[n][j] = s[j]
    BY <2>5 DEF T
  <2>7. n \in 0..n
    BY <1>0
  <2>8. sel[n] = s
    BY <1>1, <2>6, <2>7, SeqEqual DEF n
  <2> QED
    BY <1>1, <2>8
<1>3. ASSUME NEW i \in (1..n) \ I PROVE Len(Select(s, I)) < n
  <2> DEFINE T == {k \in 0..n : Len(sel[k]) <= k /\ (i <= k => Len(sel[k]) < k)}
  <2>1. 0 \in T
    BY <1>0, <1>1
  <2>2. ASSUME NEW k \in T, k < n PROVE k + 1 \in T
    <3>1. k + 1 \in 1..n /\ k \in 0..n /\ (k + 1) - 1 = k /\ k + 1 \in 0..n
      BY <1>0, <2>2
    <3>2. sel[k] \in Seq(S) /\ Len(sel[k]) <= k /\ (i <= k => Len(sel[k]) < k)
      BY <1>1, <2>2
    <3>3. sel[k + 1] = IF k + 1 \in I THEN Append(sel[k], s[k + 1]) ELSE sel[k]
      BY <1>1, <3>1
    <3>4. Len(sel[k]) \in Nat /\ s[k + 1] \in S
      BY <3>1, <3>2 DEF n
    <3>5. CASE k + 1 \in I
      <4>1. Len(sel[k + 1]) = Len(sel[k]) + 1
        BY <3>2, <3>3, <3>4, <3>5, AppendProperties
      <4>2. i # k + 1
        BY <1>3, <3>5
      <4> QED
        BY <3>1, <3>2, <3>4, <4>1, <4>2
    <3>6. CASE k + 1 \notin I
      BY <3>1, <3>2, <3>3, <3>4, <3>6
    <3> QED
      BY <3>5, <3>6
  <2>3. T \in SUBSET (0..n)
    OBVIOUS
  <2> HIDE DEF T
  <2>4. T = 0..n
    BY <1>0, <2>1, <2>2, <2>3, UpTo
  <2>5. n \in T
    BY <1>0, <2>4
  <2> QED
    BY <1>1, <1>3, <2>5 DEF T
<1> QED
  BY <1>2, <1>3 DEF n

HeaderRecord == [name : HeaderName, value : Content]

LEMMA ExceptType ==
  ASSUME NEW A, NEW B, NEW f \in [A -> B], NEW k, NEW b \in B
  PROVE  [f EXCEPT ![k] = b] \in [A -> B]
  OBVIOUS

\* header_http_Unset, turn by turn.
Unsets(turn, name, re) ==
  /\ turn \in [0..Len(hd) -> [hd : [1..Len(hd) -> HeaderRecord], v : Nat]]
  /\ turn[0] = [hd |-> hd, v |-> 1]
  /\ \A u \in 1..Len(hd) : turn[u] = H!UnsetSlot(turn[u - 1], u, name, re)
  /\ H!header_http_Unset(name, re) = SubSeq(turn[Len(hd)].hd, 1, turn[Len(hd)].v - 1)

LEMMA UnsetTurns ==
  ASSUME hd \in Seq(HeaderRecord), NEW name, NEW re
  PROVE  \E turn : Unsets(turn, name, re)
<1> DEFINE n == Len(hd)
           D == [hd : [1..n -> HeaderRecord], v : Nat]
           a == [hd |-> hd, v |-> 1]
           Step(f, u) == IF u = 0 THEN a ELSE H!UnsetSlot(f[u - 1], u, name, re)
           IsTurn(f) == f = [u \in 0..n |-> Step(f, u)]
           g == [x \in D \X (1..n) |-> H!UnsetSlot(x[1], x[2], name, re)]
           e == CHOOSE f : IsTurn(f)
<1>0. n \in Nat /\ a \in D
  OBVIOUS
<1>1. ASSUME NEW s \in D, NEW u \in 1..n PROVE H!UnsetSlot(s, u, name, re) \in D
  <2> DEFINE t == [hd |-> [s.hd EXCEPT ![s.v] = s.hd[u]], v |-> s.v + 1]
  <2>1. H!UnsetSlot(s, u, name, re) = s \/ H!UnsetSlot(s, u, name, re) = t
    BY DEF H!UnsetSlot
  <2>2. s.hd \in [1..n -> HeaderRecord] /\ s.v \in Nat /\ s.hd[u] \in HeaderRecord
    BY <1>1
  <2>3. [s.hd EXCEPT ![s.v] = s.hd[u]] \in [1..n -> HeaderRecord]
    <3> HIDE DEF n
    <3> QED
      BY <2>2, ExceptType, Zenon
  <2>4. t \in D
    BY <2>2, <2>3
  <2> QED
    BY <1>1, <2>1, <2>4
<1>2. H!header_http_Unset(name, re) = SubSeq(e[n].hd, 1, e[n].v - 1)
  BY DEF H!header_http_Unset
<1> HIDE DEF n, D, a
<1>3. g \in [D \X (1..n) -> D]
  BY <1>1
<1>4. \A s \in D, u \in 1..n : g[<<s, u>>] = H!UnsetSlot(s, u, name, re)
  OBVIOUS
<1> HIDE DEF g
<1>5. PICK f : Recursive(f, n, D, a, g)
  BY <1>0, <1>3, Recursion
<1>6. f \in [0..n -> D] /\ f[0] = a /\ \A u \in 1..n : f[u] = g[<<f[u - 1], u>>]
  BY <1>5 DEF Recursive
<1>7. ASSUME NEW u \in 1..n PROVE f[u] = H!UnsetSlot(f[u - 1], u, name, re)
  <2>1. u - 1 \in 0..n
    BY <1>0
  <2>2. f[u - 1] \in D
    BY <1>6, <2>1
  <2> QED
    BY <1>4, <1>6, <2>2
<1>8. IsTurn(f)
  <2>1. ASSUME NEW u \in 0..n PROVE f[u] = Step(f, u)
    <3>1. CASE u = 0
      BY <1>6, <3>1
    <3>2. CASE u # 0
      <4>1. u \in 1..n
        BY <1>0, <3>2
      <4> QED
        BY <1>7, <3>2, <4>1
    <3> QED
      BY <3>1, <3>2
  <2> HIDE DEF Step
  <2> QED
    BY <1>6, <2>1
<1>9. IsTurn(e)
  <2> HIDE DEF IsTurn
  <2> QED
    BY <1>8
<1> HIDE DEF e
<1>10. \A u \in 0..n : e[u] = Step(e, u)
  <2> HIDE DEF Step
  <2> QED
    BY <1>9
<1> DEFINE T == {u \in 0..n : e[u] = f[u]}
<1>11. 0 \in T
  BY <1>0, <1>6, <1>10
<1>12. ASSUME NEW u \in T, u < n PROVE u + 1 \in T
  <2>1. u + 1 \in 0..n /\ u + 1 \in 1..n /\ (u + 1) - 1 = u /\ u + 1 # 0
    BY <1>0, <1>12
  <2>2. e[u + 1] = H!UnsetSlot(e[u], u + 1, name, re)
    BY <1>10, <2>1
  <2>3. f[u + 1] = H!UnsetSlot(f[u], u + 1, name, re)
    BY <1>7, <2>1
  <2> QED
    BY <1>12, <2>1, <2>2, <2>3
<1>13. T \in SUBSET (0..n)
  OBVIOUS
<1>14. T = 0..n
  <2> HIDE DEF T
  <2> QED
    BY <1>0, <1>11, <1>12, <1>13, UpTo
<1>15. e[n] = f[n]
  <2>1. n \in T
    BY <1>0, <1>14
  <2> QED
    BY <2>1
<1>16. Unsets(f, name, re)
  BY <1>2, <1>6, <1>7, <1>15 DEF Unsets, n, D, a
<1> QED
  BY <1>16

\* The headers that stay have moved up, and those to come are where they were.
Moved(s, r, u) ==
  /\ s.v = Len(r) + 1 /\ Len(r) <= u
  /\ \A k \in 1..Len(r) : s.hd[k] = r[k]
  /\ \A k \in (u + 1)..Len(hd) : s.hd[k] = hd[k]

LEMMA UnsetMoves ==
  ASSUME hd \in Seq(HeaderRecord), NEW name, NEW re,
         NEW s \in [hd : [1..Len(hd) -> HeaderRecord], v : Nat], NEW r \in Seq(HeaderRecord),
         NEW u \in 0..(Len(hd) - 1), Moved(s, r, u)
  PROVE  Moved(H!UnsetSlot(s, u + 1, name, re),
               IF H!header_http_match(hd[u + 1], name, re) THEN r ELSE Append(r, hd[u + 1]),
               u + 1)
<1> DEFINE n == Len(hd)
<1>0. n \in Nat /\ u + 1 \in 1..n /\ u \in Nat /\ Len(r) \in Nat /\ Len(r) <= u
      /\ hd[u + 1] \in HeaderRecord
  BY DEF Moved
<1>1. s.hd[u + 1] = hd[u + 1]
  BY <1>0 DEF Moved
<1>2. CASE H!header_http_match(hd[u + 1], name, re)
  <2>1. H!UnsetSlot(s, u + 1, name, re) = s
    BY <1>1, <1>2 DEF H!UnsetSlot
  <2>2. Moved(s, r, u + 1)
    BY <1>0 DEF Moved
  <2> QED
    BY <1>2, <2>1, <2>2
<1>3. CASE ~H!header_http_match(hd[u + 1], name, re)
  <2> DEFINE h == hd[u + 1]
             a == Append(r, h)
             f == [s.hd EXCEPT ![s.v] = h]
             t == [hd |-> f, v |-> s.v + 1]
  <2>1. H!UnsetSlot(s, u + 1, name, re) = t
    BY <1>1, <1>3 DEF H!UnsetSlot
  <2>2. a \in Seq(HeaderRecord) /\ Len(a) = Len(r) + 1 /\ a[Len(r) + 1] = h
        /\ \A k \in 1..Len(r) : a[k] = r[k]
    BY <1>0, AppendProperties
  <2> HIDE DEF h, a
  <2>3. s.v = Len(r) + 1 /\ s.v \in 1..n /\ s.hd \in [1..n -> HeaderRecord]
    BY <1>0 DEF Moved
  <2>4. \A k \in 1..n : f[k] = IF k = s.v THEN h ELSE s.hd[k]
    BY <2>3
  <2>5. t.hd = f /\ t.v = s.v + 1
    OBVIOUS
  <2> HIDE DEF f, t, n
  <2>6. t.v = Len(a) + 1 /\ Len(a) <= u + 1
    BY <1>0, <2>2, <2>3, <2>5
  <2>7. ASSUME NEW k \in 1..Len(a) PROVE t.hd[k] = a[k]
    <3>1. k \in 1..n
      BY <1>0, <2>2
    <3>2. CASE k = Len(r) + 1
      BY <2>2, <2>3, <2>4, <2>5, <3>1, <3>2
    <3>3. CASE k \in 1..Len(r)
      <4>1. k # s.v
        BY <1>0, <2>3, <3>3
      <4>2. s.hd[k] = r[k]
        BY <3>3 DEF Moved
      <4> QED
        BY <2>2, <2>4, <2>5, <3>1, <3>3, <4>1, <4>2
    <3> QED
      BY <1>0, <2>2, <3>2, <3>3
  <2>8. ASSUME NEW k \in (u + 2)..n PROVE t.hd[k] = hd[k]
    <3>1. k \in 1..n /\ k # s.v /\ k \in (u + 1)..n
      BY <1>0, <2>3
    <3>2. s.hd[k] = hd[k]
      BY <3>1 DEF Moved, n
    <3> QED
      BY <2>4, <2>5, <3>1, <3>2
  <2>9. (u + 1) + 1 = u + 2
    BY <1>0
  <2>10. Moved(t, a, u + 1)
    BY <2>6, <2>7, <2>8, <2>9 DEF Moved, n
  <2> QED
    BY <1>3, <2>1, <2>10 DEF a, h
<1> QED
  BY <1>2, <1>3

LEMMA UnsetSelects ==
  ASSUME hd \in Seq(HeaderRecord), NEW name, NEW re
  PROVE  H!header_http_Unset(name, re) = Select(hd, (DOMAIN hd) \ H!Matching(hd, name, re))
<1> DEFINE n == Len(hd)
           I == (DOMAIN hd) \ H!Matching(hd, name, re)
           D == [hd : [1..n -> HeaderRecord], v : Nat]
<1>0. n \in Nat
  OBVIOUS
<1>1. \A k \in 1..n : k \in I <=> ~H!header_http_match(hd[k], name, re)
  BY DEF H!Matching
<1> HIDE DEF I
<1>2. PICK turn : Unsets(turn, name, re)
  BY UnsetTurns
<1>3. PICK sel : Selects(sel, HeaderRecord, hd, I)
  BY SelectSteps
<1>4. /\ \A u \in 0..n : turn[u] \in D
      /\ turn[0] = [hd |-> hd, v |-> 1]
      /\ \A u \in 1..n : turn[u] = H!UnsetSlot(turn[u - 1], u, name, re)
      /\ H!header_http_Unset(name, re) = SubSeq(turn[n].hd, 1, turn[n].v - 1)
  BY <1>2 DEF Unsets
<1>5. /\ \A k \in 0..n : sel[k] \in Seq(HeaderRecord)
      /\ sel[0] = <<>>
      /\ \A k \in 1..n : sel[k] = IF k \in I THEN Append(sel[k - 1], hd[k]) ELSE sel[k - 1]
      /\ Select(hd, I) = sel[n]
  BY <1>3 DEF Selects
<1> DEFINE T == {u \in 0..n : Moved(turn[u], sel[u], u)}
<1>6. 0 \in T
  <2>1. turn[0].v = 1 /\ turn[0].hd = hd /\ Len(sel[0]) = 0
    BY <1>4, <1>5
  <2>2. Moved(turn[0], sel[0], 0)
    BY <2>1 DEF Moved
  <2> QED
    BY <1>0, <2>2
<1>7. ASSUME NEW u \in T, u < n PROVE u + 1 \in T
  <2>1. u \in 0..(n - 1) /\ u \in 0..n /\ u + 1 \in 1..n /\ (u + 1) - 1 = u /\ u + 1 \in 0..n
    BY <1>0, <1>7
  <2>2. Moved(turn[u], sel[u], u)
    BY <1>7
  <2>3. turn[u] \in D /\ sel[u] \in Seq(HeaderRecord)
    BY <1>4, <1>5, <2>1
  <2>4. turn[u + 1] = H!UnsetSlot(turn[u], u + 1, name, re)
    BY <1>4, <2>1
  <2>5. sel[u + 1] = IF H!header_http_match(hd[u + 1], name, re) THEN sel[u]
                     ELSE Append(sel[u], hd[u + 1])
    BY <1>1, <1>5, <2>1
  <2>6. Moved(turn[u + 1], sel[u + 1], u + 1)
    BY <2>1, <2>2, <2>3, <2>4, <2>5, UnsetMoves
  <2> QED
    BY <2>1, <2>6
<1>8. T \in SUBSET (0..n)
  OBVIOUS
<1>9. Moved(turn[n], sel[n], n) /\ n \in 0..n
  <2> HIDE DEF T, n
  <2>1. T = 0..n
    BY <1>0, <1>6, <1>7, <1>8, UpTo
  <2>2. n \in T /\ n \in 0..n
    BY <1>0, <2>1
  <2> QED
    BY <2>2 DEF T
<1> DEFINE x == turn[n]
           r == sel[n]
<1>10. r \in Seq(HeaderRecord) /\ x.v = Len(r) + 1 /\ \A k \in 1..Len(r) : x.hd[k] = r[k]
  BY <1>5, <1>9 DEF Moved
<1> HIDE DEF x, r
<1>11. Len(r) \in Nat /\ x.v - 1 = Len(r) /\ \A k \in 1..Len(r) : r[k] \in HeaderRecord
  BY <1>10
<1> DEFINE y == SubSeq(x.hd, 1, Len(r))
<1>12. y \in Seq(HeaderRecord) /\ Len(y) = Len(r)
       /\ \A k \in 1..Len(r) : y[k] = x.hd[k]
  <2>1. /\ y \in Seq(HeaderRecord)
        /\ Len(y) = IF 1 <= Len(r) THEN Len(r) - 1 + 1 ELSE 0
        /\ \A k \in 1..(Len(r) - 1 + 1) : y[k] = x.hd[1 + k - 1]
    BY <1>10, <1>11, SubSeqProperties
  <2> QED
    BY <1>11, <2>1
<1>13. y = r
  BY <1>10, <1>12, SeqEqual
<1> QED
  BY <1>4, <1>5, <1>11, <1>13 DEF x, r, I

\* get finds a header if there is one to remove.
LEMMA HeaderGet ==
  ASSUME hd \in Seq(HeaderRecord), NEW name, NEW re
  PROVE  H!vmod_get(name, re) = NULL <=> H!Matching(hd, name, re) = {}
<1> DEFINE I == H!Matching(hd, name, re)
           J == {i \in 1..Len(hd) : H!header_http_match(hd[i], name, re)}
           u == H!SelectInSeq(hd, LAMBDA h : H!header_http_match(h, name, re))
<1>1. I = J
  BY DEF H!Matching
<1>2. u = IF J # {} THEN H!Min(J) ELSE 0
  BY DEF H!SelectInSeq
<1>3. H!vmod_get(name, re) = IF u = 0 THEN NULL ELSE hd[u].value
  BY DEF H!vmod_get
<1> HIDE DEF u
<1>4. J \in SUBSET Nat /\ J \in SUBSET (1..Len(hd))
  OBVIOUS
<1>5. J # {} => H!Min(J) \in J
  <2> HIDE DEF J
  <2> QED
    BY <1>4, MinLeast
<1>6. ASSUME J # {} PROVE H!vmod_get(name, re) # NULL
  <2>1. u \in 1..Len(hd) /\ u # 0
    BY <1>2, <1>5, <1>6
  <2>2. hd[u] \in HeaderRecord
    BY <2>1
  <2> QED
    BY <1>3, <2>1, <2>2, TaskAssumption DEF HeaderRecord
<1> QED
  BY <1>1, <1>2, <1>3, <1>6

LEMMA RemovesThem ==
  ASSUME hd \in Seq(HeaderRecord), NEW name, NEW re
  PROVE  /\ H!header_http_Unset(name, re)
              = H!Select(hd, (DOMAIN hd) \ H!Matching(hd, name, re))
         /\ H!vmod_get(name, re) = NULL <=> H!header_http_Unset(name, re) = hd
<1> DEFINE M == H!Matching(hd, name, re)
           I == (DOMAIN hd) \ M
<1>1. H!header_http_Unset(name, re) = Select(hd, I)
  BY UnsetSelects
<1>2. H!Select(hd, I) = Select(hd, I)
  BY SameSelect
<1>3. M \subseteq 1..Len(hd) /\ DOMAIN hd = 1..Len(hd)
  <2>1. DOMAIN hd = 1..Len(hd)
    OBVIOUS
  <2>2. M \subseteq DOMAIN hd
    BY DEF H!Matching
  <2> QED
    BY <2>1, <2>2
<1>4. H!vmod_get(name, re) = NULL <=> M = {}
  BY HeaderGet
<1> HIDE DEF M
<1>5. ASSUME M = {} PROVE Select(hd, I) = hd
  BY <1>3, <1>5, SelectAll
<1>6. ASSUME M # {} PROVE Select(hd, I) # hd
  <2>1. PICK i \in M : i \in (1..Len(hd)) \ I
    BY <1>3, <1>6
  <2>2. Len(Select(hd, I)) < Len(hd)
    BY <2>1, SelectAll
  <2>3. Len(hd) \in Nat
    OBVIOUS
  <2>4. ~(Len(hd) < Len(hd))
    BY <2>3
  <2> HIDE DEF I
  <2> QED
    BY <2>2, <2>4
<1> QED
  BY <1>1, <1>2, <1>4, <1>5, <1>6 DEF M

LEMMA RemovesExactly == hd \in Seq(HeaderRecord) => RemoveExact
  BY RemovesThem DEF RemoveExact, H!RemoveExact
-----------------------------------------------------------------------------
(***************************************************************************)
(* Cookie: the memory that the cookies take up.                            *)
(***************************************************************************)
AtomOrEmpty == Atom \cup {""}

CookieName == Seq(AtomOrEmpty) \ {<<>>}

CookieRecord == [name : CookieName \ {<<"">>}, value : Value \ {""}]

LEMMA CookieNameLen ==
  ASSUME NEW name \in CookieName
  PROVE  Len(name) \in Nat \ {0} /\ name \in Seq(AtomOrEmpty)
  BY DEF CookieName

\* The lengths that TextLen adds up.
Lens(l) == [i \in 1..Len(l) |-> Len(l[i].name) + 1]

LEMMA LensType ==
  ASSUME NEW l \in Seq(CookieRecord)
  PROVE  /\ Lens(l) \in Seq(Nat) /\ Len(Lens(l)) = Len(l)
         /\ \A k \in 1..Len(l) : Lens(l)[k] = Len(l[k].name) + 1
         /\ C!Size(l) = Total(Lens(l)) + Len(l)
<1>1. ASSUME NEW k \in 1..Len(l) PROVE Len(l[k].name) + 1 \in Nat
  <2>1. l[k] \in CookieRecord
    OBVIOUS
  <2>2. l[k].name \in CookieName
    BY <2>1 DEF CookieRecord
  <2>3. Len(l[k].name) \in Nat
    BY <2>2, CookieNameLen
  <2> QED
    BY <2>3
<1>2. Len(l) \in Nat
  OBVIOUS
<1>3. Lens(l) \in [1..Len(l) -> Nat]
  BY <1>1 DEF Lens
<1>4. Lens(l) \in Seq(Nat) /\ Len(Lens(l)) = Len(l)
  BY <1>2, <1>3
<1>5. \A k \in 1..Len(l) : Lens(l)[k] = Len(l[k].name) + 1
  BY DEF Lens
<1>6. DOMAIN l = 1..Len(l)
  OBVIOUS
<1>7. C!Size(l) = Total(Lens(l)) + Len(l)
  BY <1>6, SameTotal DEF C!Size, C!TextLen, Lens
<1> QED
  BY <1>4, <1>5, <1>7

LEMMA CookieSizes ==
  /\ C!Size(<<>>) = 0
  /\ \A l \in Seq(CookieRecord) : C!Size(l) \in Nat /\ C!TextLen(l) \in Nat
  /\ \A l \in Seq(CookieRecord), c \in CookieRecord :
       C!Size(Append(l, c)) = C!Size(l) + Len(c.name) + 2
  /\ \A l, r \in Seq(CookieRecord) :
       Len(l) = Len(r) /\ (\A k \in 1..Len(l) : l[k].name = r[k].name) => C!Size(l) = C!Size(r)
<1>1. ASSUME NEW l \in Seq(CookieRecord)
      PROVE  C!Size(l) \in Nat /\ C!TextLen(l) \in Nat /\ (l = <<>> => C!Size(l) = 0)
  <2>1. Total(Lens(l)) \in Nat /\ (Lens(l) = <<>> => Total(Lens(l)) = 0)
    BY LensType, TotalType
  <2>2. C!Size(l) = Total(Lens(l)) + Len(l) /\ Len(l) \in Nat
    BY LensType
  <2>3. DOMAIN l = 1..Len(l)
    OBVIOUS
  <2>4. C!TextLen(l) = Total(Lens(l))
    BY <2>3, SameTotal DEF C!TextLen, Lens
  <2>5. ASSUME l = <<>> PROVE Lens(l) = <<>> /\ Len(l) = 0
    <3>1. Lens(l) \in Seq(Nat) /\ Len(Lens(l)) = 0 /\ Len(l) = 0
      BY <2>5, LensType
    <3> QED
      BY <3>1
  <2> QED
    BY <2>1, <2>2, <2>4, <2>5
<1>2. ASSUME NEW l \in Seq(CookieRecord), NEW c \in CookieRecord
      PROVE  C!Size(Append(l, c)) = C!Size(l) + Len(c.name) + 2
  <2> DEFINE t == Append(l, c)
             n == Len(l)
             x == Len(c.name) + 1
  <2>0. c.name \in CookieName /\ Len(c.name) \in Nat /\ x \in Nat /\ n \in Nat
    <3>1. c.name \in CookieName
      BY DEF CookieRecord
    <3> QED
      BY <3>1, CookieNameLen
  <2>1. /\ t \in Seq(CookieRecord) /\ Len(t) = n + 1 /\ t[n + 1] = c
        /\ \A k \in 1..n : t[k] = l[k]
    BY AppendProperties
  <2> HIDE DEF t
  <2>2. /\ Lens(t) \in Seq(Nat) /\ Len(Lens(t)) = n + 1
        /\ \A k \in 1..(n + 1) : Lens(t)[k] = Len(t[k].name) + 1
        /\ C!Size(t) = Total(Lens(t)) + (n + 1)
    BY <2>1, LensType
  <2>3. /\ Lens(l) \in Seq(Nat) /\ Len(Lens(l)) = n
        /\ \A k \in 1..n : Lens(l)[k] = Len(l[k].name) + 1
        /\ C!Size(l) = Total(Lens(l)) + n
    BY LensType
  <2>4. Lens(t) = Append(Lens(l), x)
    <3> DEFINE a == Append(Lens(l), x)
    <3>1. /\ a \in Seq(Nat) /\ Len(a) = n + 1 /\ a[n + 1] = x
          /\ \A k \in 1..n : a[k] = Lens(l)[k]
      BY <2>0, <2>3, AppendProperties
    <3>0. n + 1 \in 1..(n + 1)
      BY <2>0
    <3>2. Lens(t)[n + 1] = x
      <4>1. Lens(t)[n + 1] = Len(t[n + 1].name) + 1
        BY <2>2, <3>0
      <4>2. t[n + 1] = c
        BY <2>1
      <4> HIDE DEF n
      <4> QED
        BY <4>1, <4>2
    <3>3. ASSUME NEW k \in 1..n PROVE Lens(t)[k] = Lens(l)[k]
      <4>1. k \in 1..(n + 1)
        BY <2>0
      <4>2. Lens(t)[k] = Len(t[k].name) + 1 /\ Lens(l)[k] = Len(l[k].name) + 1 /\ t[k] = l[k]
        BY <2>1, <2>2, <2>3, <4>1
      <4> HIDE DEF n
      <4> QED
        BY <4>2
    <3>4. \A k \in 1..(n + 1) : k = n + 1 \/ k \in 1..n
      BY <2>0
    <3> HIDE DEF a
    <3>5. Lens(t) = a
      <4>1. Len(Lens(t)) = Len(a) /\ \A k \in 1..Len(Lens(t)) : Lens(t)[k] = a[k]
        BY <2>2, <3>1, <3>2, <3>3, <3>4
      <4> QED
        BY <2>2, <3>1, <4>1, SeqEqual
    <3> QED
      BY <3>5 DEF a
  <2>5. Total(Lens(t)) = Total(Lens(l)) + x /\ Total(Lens(l)) \in Nat
    BY <2>0, <2>3, <2>4, TotalAppend, TotalType
  <2>6. C!Size(t) = C!Size(l) + Len(c.name) + 2
    <3> DEFINE a == Total(Lens(l))
               b == Len(c.name)
    <3>1. a \in Nat /\ b \in Nat /\ C!Size(t) = (a + (b + 1)) + (n + 1) /\ C!Size(l) = a + n
      BY <2>0, <2>2, <2>3, <2>5
    <3> HIDE DEF a, b, n
    <3>2. C!Size(t) = C!Size(l) + b + 2
      BY <2>0, <3>1
    <3> QED
      BY <3>2 DEF b
  <2> QED
    BY <2>6 DEF t
<1>3. ASSUME NEW l \in Seq(CookieRecord), NEW r \in Seq(CookieRecord), Len(l) = Len(r),
             \A k \in 1..Len(l) : l[k].name = r[k].name
      PROVE  C!Size(l) = C!Size(r)
  <2>1. Lens(l) = Lens(r)
    BY <1>3 DEF Lens
  <2> QED
    BY <1>3, <2>1, LensType
<1>4. C!Size(<<>>) = 0
  <2>1. <<>> \in Seq(CookieRecord)
    OBVIOUS
  <2> QED
    BY <1>1, <2>1
<1> QED
  BY <1>1, <1>2, <1>3, <1>4

\* What is left out makes a list smaller.
LEMMA SelectSize ==
  ASSUME NEW l \in Seq(CookieRecord), NEW I
  PROVE  C!Size(Select(l, I)) <= C!Size(l)
<1> DEFINE n == Len(l)
           a(k) == Len(l[k].name)
<1>0. n \in Nat
  OBVIOUS
<1>1. ASSUME NEW k \in 1..n PROVE l[k] \in CookieRecord /\ a(k) \in Nat
  <2>1. l[k] \in CookieRecord
    OBVIOUS
  <2>2. l[k].name \in CookieName
    BY <2>1 DEF CookieRecord
  <2> QED
    BY <2>1, <2>2, CookieNameLen
<1>2. /\ Lens(l) \in Seq(Nat) /\ Len(Lens(l)) = n
      /\ \A k \in 1..n : Lens(l)[k] = a(k) + 1
      /\ C!Size(l) = Total(Lens(l)) + n
  BY LensType
<1>3. PICK sum : Sums(sum, Lens(l))
  BY <1>2, TotalSteps
<1>4. /\ \A k \in 0..n : sum[k] \in Nat
      /\ sum[0] = 0
      /\ \A k \in 1..n : sum[k] = sum[k - 1] + (a(k) + 1)
      /\ Total(Lens(l)) = sum[n]
  BY <1>2, <1>3 DEF Sums
<1>5. PICK sel : Selects(sel, CookieRecord, l, I)
  BY SelectSteps
<1>6. /\ \A k \in 0..n : sel[k] \in Seq(CookieRecord)
      /\ sel[0] = <<>>
      /\ \A k \in 1..n : sel[k] = IF k \in I THEN Append(sel[k - 1], l[k]) ELSE sel[k - 1]
      /\ Select(l, I) = sel[n]
  BY <1>5 DEF Selects
<1>7. \A k \in 1..n : a(k) = Len(l[k].name)
  OBVIOUS
<1> HIDE DEF n, a
<1> DEFINE T == {k \in 0..n : C!Size(sel[k]) <= sum[k] + k}
<1>8. 0 \in T
  BY <1>0, <1>4, <1>6, CookieSizes
<1>9. ASSUME NEW k \in T, k < n PROVE k + 1 \in T
  <2>1. k + 1 \in 1..n /\ k + 1 \in 0..n /\ k \in 0..n /\ (k + 1) - 1 = k
    BY <1>0, <1>9
  <2> DEFINE x == C!Size(sel[k])
             y == C!Size(sel[k + 1])
             b == a(k + 1)
             c == sum[k]
             d == sum[k + 1]
  <2>2. sel[k] \in Seq(CookieRecord) /\ l[k + 1] \in CookieRecord /\ x \in Nat
    BY <1>1, <1>6, <2>1, CookieSizes
  <2>3. b \in Nat /\ c \in Nat /\ d = c + (b + 1) /\ x <= c + k
    BY <1>1, <1>4, <1>9, <2>1
  <2>4. y = x \/ y = x + b + 2
    <3>1. CASE k + 1 \in I
      <4>1. sel[k + 1] = Append(sel[k], l[k + 1])
        BY <1>6, <2>1, <3>1
      <4> QED
        BY <1>7, <2>1, <2>2, <4>1, CookieSizes, ZenonT(60)
    <3>2. CASE k + 1 \notin I
      BY <1>6, <2>1, <3>2
    <3> QED
      BY <3>1, <3>2
  <2> HIDE DEF x, y, b, c, d
  <2>5. y <= d + (k + 1)
    BY <2>1, <2>2, <2>3, <2>4
  <2> QED
    BY <2>1, <2>5 DEF y, d
<1>10. T \in SUBSET (0..n)
  OBVIOUS
<1>11. C!Size(sel[n]) <= sum[n] + n
  <2> HIDE DEF T
  <2>1. T = 0..n
    BY <1>0, <1>8, <1>9, <1>10, UpTo
  <2>2. n \in T
    BY <1>0, <2>1
  <2> QED
    BY <2>2 DEF T
<1> QED
  BY <1>2, <1>4, <1>6, <1>11

\* find_cookie finds the first cookie of that name, if there is one.
LEMMA FindCookie ==
  ASSUME NEW S, NEW l \in Seq(S), NEW name, NEW i, i = C!find_cookie(l, name)
  PROVE  \/ i = 0 /\ \A k \in 1..Len(l) : l[k].name # name
         \/ i \in 1..Len(l) /\ l[i].name = name
<1> DEFINE I == {k \in 1..Len(l) : l[k].name = name}
<1>1. C!find_cookie(l, name) = IF I # {} THEN C!Min(I) ELSE 0
  BY DEF C!find_cookie, C!SelectInSeq
<1>2. I \in SUBSET Nat
  OBVIOUS
<1>3. I # {} => C!Min(I) \in I
  BY <1>2, MinLeast
<1> QED
  BY <1>1, <1>3

ValueOrEmpty == Value \cup {""}

\* What Set and Parse work on.
CookieState == [list : Seq(CookieRecord), ws : Nat, name : Seq(AtomOrEmpty)]

\* What set takes from the workspace is at least what the list grows by.
LEMMA AllocType ==
  ASSUME NEW w \in Nat, NEW n \in Nat
  PROVE  /\ C!Alloc(w, n) \in Nat /\ C!Alloc(w, n) <= w
         /\ n <= w => C!Alloc(w, n) = w - n
  BY DEF C!Alloc

\* Another cookie of the same name in its place.
LEMMA CookieReplaced ==
  ASSUME NEW l \in Seq(CookieRecord), Once(l), NEW i \in 1..Len(l), NEW c \in CookieRecord,
         c.name = l[i].name
  PROVE  LET r == [l EXCEPT ![i] = c]
         IN r \in Seq(CookieRecord) /\ Once(r) /\ C!Size(r) = C!Size(l)
<1> DEFINE r == [l EXCEPT ![i] = c]
<1>1. /\ r \in Seq(CookieRecord) /\ Len(r) = Len(l)
      /\ \A k \in 1..Len(l) : r[k] = IF k = i THEN c ELSE l[k]
  OBVIOUS
<1> HIDE DEF r
<1>2. \A k \in 1..Len(l) : l[k].name = r[k].name
  BY <1>1
<1>3. Once(r)
  BY <1>1, <1>2 DEF Once
<1>4. C!Size(r) = C!Size(l)
  BY <1>1, <1>2, CookieSizes
<1> QED
  BY <1>1, <1>3, <1>4 DEF r

\* A cookie of a new name at the end.
LEMMA CookieAppended ==
  ASSUME NEW l \in Seq(CookieRecord), Once(l), NEW c \in CookieRecord,
         \A k \in 1..Len(l) : l[k].name # c.name
  PROVE  /\ Append(l, c) \in Seq(CookieRecord) /\ Once(Append(l, c))
         /\ C!Size(Append(l, c)) = C!Size(l) + Len(c.name) + 2
<1> DEFINE r == Append(l, c)
           n == Len(l)
<1>1. /\ r \in Seq(CookieRecord) /\ Len(r) = n + 1 /\ r[n + 1] = c
      /\ \A k \in 1..n : r[k] = l[k]
  BY AppendProperties
<1>0. n \in Nat /\ \A k \in 1..n : l[k].name # c.name
  OBVIOUS
<1>5. \A j, k \in 1..n : l[j].name = l[k].name => j = k
  BY DEF Once
<1> HIDE DEF r, n
<1>2. \A k \in 1..(n + 1) : k = n + 1 \/ k \in 1..n
  BY <1>0
<1>3. Once(r)
  <2> SUFFICES ASSUME NEW j \in 1..(n + 1), NEW k \in 1..(n + 1), r[j].name = r[k].name
               PROVE  j = k
    BY <1>1 DEF Once
  <2> QED
    BY <1>0, <1>1, <1>2, <1>5
<1> QED
  BY <1>1, <1>3, CookieSizes DEF r

SetKeeps(s, r) ==
  /\ r \in CookieState /\ r.name = s.name
  /\ Once(r.list)
  /\ r.ws <= s.ws
  /\ C!Size(r.list) + r.ws <= C!Size(s.list) + s.ws

LEMMA CookieSet ==
  ASSUME NEW s \in CookieState, Once(s.list), NEW name \in CookieName,
         NEW value \in ValueOrEmpty
  PROVE  SetKeeps(s, C!Set(s, name, value))
<1> DEFINE l == s.list
           w == s.ws
           i == C!find_cookie(l, name)
           c == [name |-> name, value |-> value]
           r == C!Set(s, name, value)
<1>0. l \in Seq(CookieRecord) /\ w \in Nat /\ s.name \in Seq(AtomOrEmpty) /\ Once(l)
      /\ C!Size(l) \in Nat
  BY CookieSizes DEF CookieState
<1>s. r = IF C!Empty(name, value) THEN s
          ELSE IF i # 0
          THEN [s EXCEPT !.list = IF w >= 1 THEN [l EXCEPT ![i] = c] ELSE l,
                         !.ws = C!Alloc(w, 1)]
          ELSE [s EXCEPT !.list = IF C!Fits(w, name) THEN Append(l, c) ELSE l,
                         !.ws = C!Alloc(C!Alloc(C!Alloc(w, 1), Len(name)), 1)]
  BY DEF C!Set
<1>1. CASE C!Empty(name, value)
  <2>1. r = s
    BY <1>1, <1>s
  <2>2. w <= w /\ C!Size(l) + w <= C!Size(l) + w
    <3> DEFINE y == C!Size(l)
    <3> HIDE DEF w, y
    <3>1. w <= w /\ y + w <= y + w
      BY <1>0 DEF y
    <3> QED
      BY <3>1 DEF y
  <2> QED
    BY <1>0, <2>1, <2>2 DEF SetKeeps
<1>2. CASE ~C!Empty(name, value)
  <2>1. c \in CookieRecord /\ c.name = name
    BY <1>2 DEF C!Empty, CookieRecord, ValueOrEmpty
  <2>2. Len(name) \in Nat
    BY CookieNameLen
  <2>3. \/ i = 0 /\ \A k \in 1..Len(l) : l[k].name # name
        \/ i \in 1..Len(l) /\ l[i].name = name
    BY <1>0, FindCookie
  <2>4. CASE i \in 1..Len(l) /\ l[i].name = name
    <3> DEFINE x == IF w >= 1 THEN [l EXCEPT ![i] = c] ELSE l
               v == C!Alloc(w, 1)
    <3>1. r = [s EXCEPT !.list = x, !.ws = v]
      <4>1. i # 0
        <5> HIDE DEF i
        <5> QED
          BY <2>4
      <4> QED
        BY <1>2, <1>s, <4>1
    <3>2. x \in Seq(CookieRecord) /\ Once(x) /\ C!Size(x) = C!Size(l)
      BY <1>0, <2>1, <2>4, CookieReplaced
    <3>3. v \in Nat /\ v <= w
      BY <1>0, AllocType
    <3>5. C!Size(x) + v <= C!Size(l) + w
      <4> DEFINE y == C!Size(l)
      <4> HIDE DEF x, v, w, y
      <4>1. y + v <= y + w
        BY <1>0, <3>3 DEF y
      <4> QED
        BY <3>2, <4>1 DEF y
    <3> HIDE DEF x, v
    <3>11. r.list = x /\ r.ws = v /\ r.name = s.name /\ r \in CookieState
      BY <1>0, <3>1, <3>2, <3>3, <3>5 DEF CookieState
    <3> HIDE DEF r
    <3>12. SetKeeps(s, r)
      BY <3>11, <3>1, <3>2, <3>3, <3>5 DEF SetKeeps
    <3> QED
      BY <3>12 DEF r
  <2>5. CASE i = 0 /\ \A k \in 1..Len(l) : l[k].name # name
    <3> DEFINE x == IF C!Fits(w, name) THEN Append(l, c) ELSE l
               u == C!Alloc(w, 1)
               t == C!Alloc(u, Len(name))
               v == C!Alloc(t, 1)
    <3>1. r = [s EXCEPT !.list = x, !.ws = v]
      BY <1>2, <1>s, <2>5
    <3>2. u \in Nat /\ u <= w /\ (1 <= w => u = w - 1)
      BY <1>0, AllocType
    <3>3. t \in Nat /\ t <= u /\ (Len(name) <= u => t = u - Len(name))
      BY <2>2, <3>2, AllocType
    <3>4. v \in Nat /\ v <= t /\ (1 <= t => v = t - 1)
      BY <3>3, AllocType
    <3>5. C!Fits(w, name) => w >= 1 /\ u >= Len(name) /\ t >= 1
      BY DEF C!Fits
    <3>6. /\ Append(l, c) \in Seq(CookieRecord) /\ Once(Append(l, c))
          /\ C!Size(Append(l, c)) = C!Size(l) + Len(name) + 2
      BY <1>0, <2>1, <2>5, CookieAppended
    <3>7. x \in Seq(CookieRecord) /\ Once(x)
      BY <1>0, <3>6
    <3>8. C!Size(x) + v <= C!Size(l) + w
      <4>1. CASE C!Fits(w, name)
        <5> DEFINE y == C!Size(l)
                   m == Len(name)
                   z == C!Size(x)
        <5>1. y \in Nat /\ m \in Nat /\ z = y + m + 2
          BY <1>0, <2>2, <3>6, <4>1
        <5>2. w \in Nat /\ w >= 1 /\ u >= m /\ t >= 1
          BY <1>0, <3>5, <4>1
        <5>3. u = w - 1 /\ t = u - m /\ v = t - 1
          <6> HIDE DEF y, z, v, w, u, t
          <6> QED
            BY <3>2, <3>3, <3>4, <5>2
        <5> HIDE DEF y, m, z, v, w, u, t
        <5>4. z + v <= y + w
          BY <5>1, <5>2, <5>3
        <5> QED
          BY <5>4 DEF y, z
      <4>2. CASE ~C!Fits(w, name)
        <5> DEFINE y == C!Size(l)
        <5>1. x = l /\ y \in Nat /\ w \in Nat
          BY <1>0, <4>2
        <5> HIDE DEF u, t, v, w, x, y
        <5>2. y + v <= y + w
          BY <3>2, <3>3, <3>4, <5>1
        <5> QED
          BY <5>1, <5>2 DEF y
      <4> QED
        BY <4>1, <4>2
    <3>9. v <= w
      <4>1. w \in Nat
        BY <1>0
      <4> HIDE DEF u, t, v, w
      <4> QED
        BY <3>2, <3>3, <3>4, <4>1
    <3>10. v \in Nat
      BY <3>4
    <3> HIDE DEF x, v
    <3>11. r.list = x /\ r.ws = v /\ r.name = s.name /\ r \in CookieState
      BY <1>0, <3>1, <3>7, <3>8, <3>9, <3>10 DEF CookieState
    <3> HIDE DEF r
    <3>12. SetKeeps(s, r)
      BY <3>11, <3>1, <3>7, <3>8, <3>9, <3>10 DEF SetKeeps
    <3> QED
      BY <3>12 DEF r
  <2> QED
    BY <2>3, <2>4, <2>5
<1> QED
  BY <1>1, <1>2

\* Parse, turn by turn.
Parses(turn, h, w) ==
  /\ turn \in [0..Len(h) -> CookieState]
  /\ turn[0] = C!State(<<>>, w)
  /\ \A u \in 1..Len(h) : turn[u] = C!ParsePiece(turn[u - 1], h[u])
  /\ C!Parse(h, w) = turn[Len(h)]
  /\ \A u \in 0..Len(h) : /\ Once(turn[u].list) /\ turn[u].ws <= w
                          /\ C!Size(turn[u].list) + turn[u].ws <= w

LEMMA PieceType ==
  ASSUME NEW p \in C!Piece
  PROVE  /\ p[1] \in AtomOrEmpty /\ Len(p) \in {1, 2}
         /\ Len(p) = 2 => p[2] \in ValueOrEmpty
<1>1. CASE p \in {<<a>> : a \in Atom \cup {""}}
  <2>1. PICK a \in AtomOrEmpty : p = <<a>>
    BY <1>1 DEF AtomOrEmpty, ValueOrEmpty
  <2> QED
    BY <2>1
<1>2. CASE p \in (Atom \cup {""}) \X (Value \cup {""})
  BY <1>2 DEF AtomOrEmpty, ValueOrEmpty
<1> QED
  BY <1>1, <1>2 DEF C!Piece

\* A turn of parse, as far as the list and the workspace go.
LEMMA ParsePieceKeeps ==
  ASSUME NEW s \in CookieState, Once(s.list), NEW p \in C!Piece
  PROVE  LET r == C!ParsePiece(s, p)
         IN /\ r \in CookieState /\ Once(r.list)
            /\ r.ws <= s.ws
            /\ C!Size(r.list) + r.ws <= C!Size(s.list) + s.ws
<1> DEFINE r == C!ParsePiece(s, p)
<1>0. s.list \in Seq(CookieRecord) /\ s.ws \in Nat /\ s.name \in Seq(AtomOrEmpty)
      /\ C!Size(s.list) \in Nat
  BY CookieSizes DEF CookieState
<1>1. p[1] \in AtomOrEmpty /\ Len(p) \in {1, 2} /\ (Len(p) = 2 => p[2] \in ValueOrEmpty)
  BY PieceType
<1>n. /\ Append(s.name, p[1]) \in Seq(AtomOrEmpty)
      /\ Append(s.name, p[1]) \in CookieName
  <2> DEFINE m == s.name
             b == p[1]
  <2>0. m \in Seq(AtomOrEmpty) /\ b \in AtomOrEmpty
    BY <1>0, <1>1
  <2> HIDE DEF m, b
  <2>2. Append(m, b) \in Seq(AtomOrEmpty) /\ Append(m, b) # <<>>
    BY <2>0, AppendProperties
  <2>1. Append(s.name, p[1]) \in Seq(AtomOrEmpty)
    BY <2>2 DEF m, b
  <2>3. Append(s.name, p[1]) # <<>>
    BY <2>2 DEF m, b
  <2> QED
    BY <2>1, <2>3 DEF CookieName
<1>2. CASE Len(p) = 1
  <2> DEFINE m == Append(s.name, p[1])
  <2>1. r = [s EXCEPT !.name = m]
    BY <1>2 DEF C!ParsePiece
  <2> HIDE DEF m, r
  <2>2. r \in CookieState /\ r.list = s.list /\ r.ws = s.ws
    <3>1. m \in Seq(AtomOrEmpty)
      BY <1>n DEF m
    <3> QED
      BY <1>0, <2>1, <3>1 DEF CookieState
  <2> QED
    BY <1>0, <2>2 DEF r
<1>3. CASE Len(p) = 2
  <2> DEFINE t == C!Set(s, Append(s.name, p[1]), p[2])
  <2>1. r = [t EXCEPT !.name = <<>>]
    BY <1>3 DEF C!ParsePiece
  <2>2. SetKeeps(s, t)
    BY <1>1, <1>3, <1>n, CookieSet
  <2> HIDE DEF t, r
  <2>3. t \in CookieState /\ <<>> \in Seq(AtomOrEmpty)
    BY <2>2 DEF SetKeeps
  <2>4. r \in CookieState /\ r.list = t.list /\ r.ws = t.ws
    BY <2>1, <2>3 DEF CookieState
  <2> QED
    BY <2>2, <2>4 DEF SetKeeps, r
<1> QED
  BY <1>1, <1>2, <1>3

LEMMA ParseTurns ==
  ASSUME NEW h \in Seq(C!Piece), NEW w \in Nat
  PROVE  \E turn : Parses(turn, h, w)
<1> DEFINE n == Len(h)
           D == {s \in CookieState : Once(s.list)}
           a == C!State(<<>>, w)
           Step(f, u) == IF u = 0 THEN a ELSE C!ParsePiece(f[u - 1], h[u])
           IsTurn(f) == f = [u \in 0..n |-> Step(f, u)]
           g == [x \in D \X (1..n) |-> C!ParsePiece(x[1], h[x[2]])]
           e == CHOOSE f : IsTurn(f)
<1>0. n \in Nat /\ \A u \in 1..n : h[u] \in C!Piece
  OBVIOUS
<1>a. a \in D /\ a.list = <<>> /\ a.ws = w
  BY DEF C!State, CookieState, Once
<1>1. ASSUME NEW s \in D, NEW u \in 1..n PROVE C!ParsePiece(s, h[u]) \in D
  BY <1>0, ParsePieceKeeps
<1>2. C!Parse(h, w) = e[n]
  BY DEF C!Parse
<1>z. \A s \in D : /\ s \in CookieState /\ Once(s.list) /\ s.ws \in Nat
                   /\ s.list \in Seq(CookieRecord)
  BY DEF CookieState
<1> HIDE DEF n, D, a
<1>3. g \in [D \X (1..n) -> D]
  BY <1>1
<1>4. \A s \in D, u \in 1..n : g[<<s, u>>] = C!ParsePiece(s, h[u])
  OBVIOUS
<1> HIDE DEF g
<1>5. PICK f : Recursive(f, n, D, a, g)
  BY <1>0, <1>3, <1>a, Recursion
<1>6. f \in [0..n -> D] /\ f[0] = a /\ \A u \in 1..n : f[u] = g[<<f[u - 1], u>>]
  BY <1>5 DEF Recursive
<1>7. ASSUME NEW u \in 1..n PROVE f[u - 1] \in D /\ f[u] = C!ParsePiece(f[u - 1], h[u])
  <2>1. u - 1 \in 0..n
    BY <1>0
  <2>2. f[u - 1] \in D
    BY <1>6, <2>1
  <2> QED
    BY <1>4, <1>6, <2>2
<1>8. IsTurn(f)
  <2>1. ASSUME NEW u \in 0..n PROVE f[u] = Step(f, u)
    <3>1. CASE u = 0
      BY <1>6, <3>1
    <3>2. CASE u # 0
      <4>1. u \in 1..n
        BY <1>0, <3>2
      <4> QED
        BY <1>7, <3>2, <4>1
    <3> QED
      BY <3>1, <3>2
  <2> HIDE DEF Step
  <2> QED
    BY <1>6, <2>1
<1>9. IsTurn(e)
  <2> HIDE DEF IsTurn
  <2> QED
    BY <1>8
<1> HIDE DEF e
<1>10. \A u \in 0..n : e[u] = Step(e, u)
  <2> HIDE DEF Step
  <2> QED
    BY <1>9
<1>15. e[n] = f[n]
  <2> DEFINE T == {u \in 0..n : e[u] = f[u]}
  <2>11. 0 \in T
    BY <1>0, <1>6, <1>10
  <2>12. ASSUME NEW u \in T, u < n PROVE u + 1 \in T
    <3>1. u + 1 \in 0..n /\ u + 1 \in 1..n /\ (u + 1) - 1 = u /\ u + 1 # 0
      BY <1>0, <2>12
    <3>2. e[u + 1] = C!ParsePiece(e[u], h[u + 1])
      BY <1>10, <3>1
    <3>3. f[u + 1] = C!ParsePiece(f[u], h[u + 1])
      BY <1>7, <3>1
    <3> QED
      BY <2>12, <3>1, <3>2, <3>3
  <2>13. T \in SUBSET (0..n)
    OBVIOUS
  <2> HIDE DEF T
  <2>14. T = 0..n
    BY <1>0, <2>11, <2>12, <2>13, UpTo
  <2>15. n \in T
    BY <1>0, <2>14
  <2> QED
    BY <2>15 DEF T
<1>16. \A u \in 0..n : f[u].ws <= w /\ C!Size(f[u].list) + f[u].ws <= w
  <2> DEFINE x(u) == f[u].ws
             y(u) == C!Size(f[u].list)
             T == {u \in 0..n : x(u) <= w /\ y(u) + x(u) <= w}
  <2>1. 0 \in T
    BY <1>0, <1>6, <1>a, CookieSizes
  <2>2. \A u \in 0..n : x(u) \in Nat /\ y(u) \in Nat
    BY <1>6, <1>z, CookieSizes
  <2>3. ASSUME NEW u \in 0..n, u < n PROVE x(u + 1) <= x(u) /\ y(u + 1) + x(u + 1) <= y(u) + x(u)
    <3>1. u + 1 \in 1..n /\ (u + 1) - 1 = u
      BY <1>0, <2>3
    <3>2. f[u] \in CookieState /\ Once(f[u].list)
      BY <1>6, <1>z
    <3>3. f[u + 1] = C!ParsePiece(f[u], h[u + 1]) /\ h[u + 1] \in C!Piece
      BY <1>0, <1>7, <3>1
    <3> QED
      BY <3>2, <3>3, ParsePieceKeeps
  <2> HIDE DEF x, y
  <2>4. ASSUME NEW u \in T, u < n PROVE u + 1 \in T
    <3>1. u \in 0..n /\ u + 1 \in 0..n
      BY <1>0, <2>4
    <3> QED
      BY <2>2, <2>3, <2>4, <3>1
  <2>5. T \in SUBSET (0..n)
    OBVIOUS
  <2>6. T = 0..n
    <3> HIDE DEF T
    <3> QED
      BY <1>0, <2>1, <2>4, <2>5, UpTo
  <2> QED
    BY <2>6 DEF x, y
<1>17. f \in [0..n -> CookieState] /\ \A u \in 0..n : Once(f[u].list)
  BY <1>6, <1>z
<1>18. Parses(f, h, w)
  BY <1>2, <1>6, <1>7, <1>15, <1>16, <1>17 DEF Parses, n, a
<1> QED
  BY <1>18

CookieInv == cookielist \in Seq(CookieRecord) /\ Once(cookielist) /\ ws \in Nat

\* The calls of vmod_cookie.c keep the list and do not use memory twice.
LEMMA CookieStep ==
  ASSUME CookieInv, C!Next
  PROVE  /\ CookieInv' /\ ws' <= ws
         /\ C!Size(cookielist') + ws' <= C!Size(cookielist) + ws
<1> DEFINE Goal == /\ CookieInv' /\ ws' <= ws
                   /\ C!Size(cookielist') + ws' <= C!Size(cookielist) + ws
           y == C!Size(cookielist)
<1>0. cookielist \in Seq(CookieRecord) /\ Once(cookielist) /\ ws \in Nat /\ y \in Nat
  BY CookieSizes DEF CookieInv
<1>n. ASSUME NEW name \in C!Name PROVE name \in CookieName
  <2>1. PICK a \in AtomOrEmpty : name = <<a>>
    BY DEF C!Name, AtomOrEmpty
  <2> QED
    BY <2>1 DEF CookieName
<1>i. C!State(<<>>, ws) \in CookieState /\ C!State(cookielist, ws) \in CookieState
      /\ C!State(cookielist, ws).list = cookielist /\ C!State(cookielist, ws).ws = ws
  BY <1>0 DEF C!State, CookieState
<1>s. ASSUME NEW I, cookielist' = Select(cookielist, I), ws' = ws PROVE Goal
  <2> DEFINE z == C!Size(cookielist')
  <2>1. cookielist' \in Seq(CookieRecord) /\ Once(cookielist')
    BY <1>0, <1>s, SelectPicks, SelectOnce
  <2>2. z \in Nat /\ z <= y
    BY <1>0, <1>s, <2>1, SelectSize, CookieSizes
  <2> HIDE DEF y, z
  <2>3. z + ws' <= y + ws /\ ws' <= ws
    BY <1>0, <1>s, <2>2
  <2> QED
    BY <1>0, <1>s, <2>1, <2>3 DEF CookieInv, y, z
<1>1. ASSUME NEW h \in CookieHeader, C!vmod_parse(h) PROVE Goal
  <2>1. h \in Seq(C!Piece)
    BY TaskAssumption
  <2>2. PICK turn : Parses(turn, h, ws)
    BY <1>0, <2>1, ParseTurns
  <2> DEFINE s == C!Parse(h, ws)
  <2>3. Len(h) \in 0..Len(h)
    BY <2>1
  <2>4. s \in CookieState /\ Once(s.list) /\ s.ws <= ws /\ C!Size(s.list) + s.ws <= ws
    BY <2>2, <2>3 DEF Parses
  <2>5. cookielist' = s.list /\ ws' = s.ws
    BY <1>1 DEF C!vmod_parse
  <2> HIDE DEF s
  <2>6. cookielist' \in Seq(CookieRecord) /\ ws' \in Nat
    BY <2>4, <2>5 DEF CookieState
  <2> DEFINE z == C!Size(cookielist')
  <2>7. z \in Nat /\ z + ws' <= ws
    BY <2>4, <2>5, <2>6, CookieSizes
  <2> HIDE DEF y, z
  <2> DEFINE v == ws'
  <2>a. y \in Nat /\ ws \in Nat /\ v \in Nat /\ z \in Nat /\ z + v <= ws
    BY <1>0, <2>6, <2>7
  <2>8. z + ws' <= y + ws
    <3> HIDE DEF v
    <3>1. z + v <= y + ws
      BY <2>a
    <3> QED
      BY <3>1 DEF v
  <2> QED
    BY <2>4, <2>5, <2>6, <2>8 DEF CookieInv, y, z
<1>2. ASSUME NEW name \in C!Name, NEW value \in ValueOrEmpty, C!vmod_set(name, value) PROVE Goal
  <2> DEFINE s == C!State(cookielist, ws)
             r == C!Set(s, name, value)
  <2>1. SetKeeps(s, r)
    BY <1>0, <1>i, <1>n, CookieSet
  <2>2. cookielist' = r.list /\ ws' = r.ws
    BY <1>2 DEF C!vmod_set
  <2> HIDE DEF r
  <2>3. r \in CookieState /\ Once(r.list) /\ r.ws <= ws
        /\ C!Size(r.list) + r.ws <= C!Size(cookielist) + ws
    BY <1>i, <2>1 DEF SetKeeps
  <2> QED
    BY <2>2, <2>3 DEF CookieState, CookieInv
<1>3. ASSUME NEW name \in C!Name, C!vmod_delete(name) PROVE Goal
  BY <1>3, <1>s, SameSelect DEF C!vmod_delete
<1>4. ASSUME C!vmod_clean PROVE Goal
  <2>1. cookielist' = <<>> /\ ws' = ws
    BY <1>4 DEF C!vmod_clean
  <2>2. C!Size(cookielist') = 0
    BY <2>1, CookieSizes
  <2> HIDE DEF y
  <2>3. 0 + ws' <= y + ws /\ ws' <= ws
    BY <1>0, <2>1
  <2> QED
    BY <1>0, <2>1, <2>2, <2>3 DEF CookieInv, Once, y
<1>5. ASSUME NEW names, NEW action, C!filter_cookies(names, action) PROVE Goal
  BY <1>5, <1>s, SameSelect DEF C!filter_cookies
<1>6. ASSUME C!vmod_get_string PROVE Goal
  <2> DEFINE t == C!TextLen(cookielist)
  <2>1. cookielist' = cookielist /\ ws' = C!Alloc(ws, t + 1)
    BY <1>6 DEF C!vmod_get_string
  <2>2. t \in Nat
    BY <1>0, CookieSizes
  <2> HIDE DEF y, t
  <2>3. ws' \in Nat /\ ws' <= ws
    BY <1>0, <2>1, <2>2, AllocType
  <2> DEFINE v == ws'
  <2>a. y \in Nat /\ ws \in Nat /\ v \in Nat /\ v <= ws
    BY <1>0, <2>3
  <2>4. y + ws' <= y + ws
    <3> HIDE DEF v
    <3>1. y + v <= y + ws
      BY <2>a
    <3> QED
      BY <3>1 DEF v
  <2> QED
    BY <1>0, <2>1, <2>3, <2>4 DEF CookieInv, y
<1> HIDE DEF Goal
<1>7. Goal
  BY <1>1, <1>2, <1>3, <1>4, <1>5, <1>6 DEF C!Next, ValueOrEmpty
<1> QED
  BY <1>7 DEF Goal

-----------------------------------------------------------------------------
(***************************************************************************)
(* Var: the memory that the variables take up.                             *)
(***************************************************************************)

\* The sizes that Size adds up.
Costs(l) == [i \in 1..Len(l) |-> V!SizeOf(l[i])]

LEMMA CostsType ==
  ASSUME NEW l \in Seq(Variable)
  PROVE  /\ Costs(l) \in Seq(Nat) /\ Len(Costs(l)) = Len(l)
         /\ \A k \in 1..Len(l) : Costs(l)[k] = V!SizeOf(l[k])
         /\ V!Size(l) = Total(Costs(l)) /\ V!Size(l) \in Nat
<1>1. \A v : V!SizeOf(v) \in Nat
  BY DEF V!SizeOf
<1>2. Len(l) \in Nat
  OBVIOUS
<1>3. Costs(l) \in [1..Len(l) -> Nat]
  BY <1>1 DEF Costs
<1>4. Costs(l) \in Seq(Nat) /\ Len(Costs(l)) = Len(l)
  BY <1>2, <1>3
<1>5. \A k \in 1..Len(l) : Costs(l)[k] = V!SizeOf(l[k])
  BY DEF Costs
<1>6. DOMAIN l = 1..Len(l)
  OBVIOUS
<1>7. V!Size(l) = Total(Costs(l))
  BY <1>6, SameTotal DEF V!Size, Costs
<1>8. Total(Costs(l)) \in Nat
  BY <1>4, TotalType
<1> QED
  BY <1>4, <1>5, <1>7, <1>8

LEMMA VarsNoSize == V!Size(<<>>) = 0
<1> DEFINE l == <<>>
<1>1. l \in Seq(Variable) /\ Len(l) = 0
  OBVIOUS
<1> HIDE DEF l
<1>2. Costs(l) \in Seq(Nat) /\ Len(Costs(l)) = 0 /\ V!Size(l) = Total(Costs(l))
  BY <1>1, CostsType
<1>3. Costs(l) = <<>>
  BY <1>2
<1>4. V!Size(l) = 0
  BY <1>2, <1>3, TotalType
<1> QED
  BY <1>4 DEF l

\* What a value takes from the workspace is what its variable takes up more
\* than one without.
LEMMA StoredCost ==
  ASSUME NEW name, NEW type \in V!Type, NEW value \in V!ValueOf(type), NEW w \in Nat
  PROVE  LET y == [name |-> name, type |-> type, value |-> V!Stored(type, value, w)]
             v == IF type = "STRING" /\ w >= 1 THEN w - 1 ELSE w
         IN v \in Nat /\ v <= w /\ V!SizeOf(y) \in Nat /\ V!SizeOf(y) + v <= w + 2
<1> DEFINE y == [name |-> name, type |-> type, value |-> V!Stored(type, value, w)]
           v == IF type = "STRING" /\ w >= 1 THEN w - 1 ELSE w
<1>1. y.type = type /\ y.value = V!Stored(type, value, w)
  OBVIOUS
<1> HIDE DEF y
<1>2. V!SizeOf(y) = IF type = "STRING" /\ V!Stored(type, value, w) # NULL THEN 3 ELSE 2
  BY <1>1 DEF V!SizeOf
<1>3. CASE type = "STRING" /\ w >= 1
  <2>1. v = w - 1 /\ (V!SizeOf(y) = 3 \/ V!SizeOf(y) = 2)
    BY <1>2, <1>3
  <2> QED
    BY <1>3, <2>1 DEF y
<1>4. CASE type = "STRING" /\ ~(w >= 1)
  <2>1. V!Stored(type, value, w) = NULL
    BY <1>4 DEF V!Stored
  <2>2. v = w /\ V!SizeOf(y) = 2
    BY <1>2, <1>4, <2>1
  <2> QED
    BY <2>2 DEF y
<1>5. CASE type # "STRING"
  <2>2. v = w /\ V!SizeOf(y) = 2
    BY <1>2, <1>5
  <2> QED
    BY <2>2 DEF y
<1> QED
  BY <1>3, <1>4, <1>5

LEMMA VarSetSize ==
  ASSUME VarsInv, ws \in Nat,
         NEW name \in VarName, NEW type \in V!Type, NEW value \in V!ValueOf(type),
         V!vmod_set(name, type, value)
  PROVE  ws' \in Nat /\ ws' <= ws /\ V!Size(vh') + ws' <= V!Size(vh) + ws
<1> DEFINE cost == V!VarCost(name)
           w == ws - cost
           l == V!vh_get_var_alloc(name)
           i == V!vh_get_var(l, name)
           y == [name |-> name, type |-> type, value |-> V!Stored(type, value, w)]
           x == [l EXCEPT ![i] = y]
           v == IF type = "STRING" /\ w >= 1 THEN w - 1 ELSE w
           a == V!Size(vh)
           b == V!Size(x)
           c == V!SizeOf(y)
<1>0. vh \in Seq(Variable) /\ Once(vh) /\ a \in Nat
  BY CostsType DEF VarsInv
<1>1. CASE UNCHANGED <<vh, ws>>
  <2>1. a + ws <= a + ws /\ ws <= ws
    <3> HIDE DEF a
    <3> QED
      BY <1>0
  <2> QED
    BY <1>1, <2>1
<1>2. CASE vh' = x /\ ws' = v /\ ~(w < 0)
  <2>0. cost = IF V!vh_get_var(vh, name) # 0 THEN 0 ELSE 2
    BY DEF V!VarCost
  <2>w. w \in Nat
    <3> HIDE DEF cost
    <3>1. cost \in {0, 2}
      BY <2>0
    <3> QED
      BY <1>2, <3>1
  <2>1. /\ l \in Seq(Variable) /\ i \in 1..Len(l)
        /\ x \in Seq(Variable) /\ Len(x) = Len(l)
        /\ \A k \in 1..Len(l) : x[k] = IF k = i THEN y ELSE l[k]
        /\ IF V!vh_get_var(vh, name) # 0 THEN l = vh
           ELSE /\ Len(l) = Len(vh) + 1 /\ i = 1
                /\ \A k \in 1..Len(vh) : l[k + 1] = vh[k]
    BY <1>0, SetWrites
  <2>2. v \in Nat /\ v <= w /\ c \in Nat /\ c + v <= w + 2
    BY <2>w, StoredCost
  <2> HIDE DEF y, x, l, i, c
  <2>3. /\ Costs(x) \in Seq(Nat) /\ Len(Costs(x)) = Len(l)
        /\ \A k \in 1..Len(l) : Costs(x)[k] = V!SizeOf(x[k])
        /\ b = Total(Costs(x)) /\ b \in Nat
    BY <2>1, CostsType
  <2>4. /\ Costs(vh) \in Seq(Nat) /\ Len(Costs(vh)) = Len(vh)
        /\ \A k \in 1..Len(vh) : Costs(vh)[k] = V!SizeOf(vh[k])
        /\ a = Total(Costs(vh))
    BY <1>0, CostsType
  <2>5. b + v <= a + ws
    <3>1. CASE V!vh_get_var(vh, name) # 0
      <4>1. l = vh /\ cost = 0
        BY <2>0, <2>1, <3>1
      <4>2. i \in 1..Len(vh) /\ Costs(x)[i] = c
        BY <2>1, <2>3, <4>1 DEF c
      <4>3. \A k \in 1..Len(vh) : k # i => Costs(x)[k] = Costs(vh)[k]
        BY <2>1, <2>3, <2>4, <4>1
      <4>4. Total(Costs(x)) + Costs(vh)[i] = Total(Costs(vh)) + Costs(x)[i]
        <5> HIDE DEF a, b
        <5> QED
          BY <2>3, <2>4, <4>1, <4>2, <4>3, TotalReplace, SMTT(30)
      <4>5. Costs(vh)[i] = 2 \/ Costs(vh)[i] = 3
        BY <2>4, <4>2 DEF V!SizeOf
      <4> DEFINE d == Costs(vh)[i]
      <4>6. b + d = a + c /\ (d = 2 \/ d = 3)
        BY <2>3, <2>4, <4>2, <4>4, <4>5
      <4>7. w = ws
        BY <4>1
      <4> HIDE DEF a, b, d, w, v
      <4> QED
        BY <1>0, <2>2, <2>3, <4>6, <4>7
    <3>2. CASE V!vh_get_var(vh, name) = 0
      <4>1. /\ Len(l) = Len(vh) + 1 /\ i = 1 /\ cost = 2
            /\ \A k \in 1..Len(vh) : l[k + 1] = vh[k]
        BY <2>0, <2>1, <3>2
      <4>2. Costs(x)[1] = c
        BY <2>1, <2>3, <4>1 DEF c
      <4>0. Len(vh) \in Nat
        BY <1>0
      <4>3. ASSUME NEW k \in 1..Len(vh) PROVE Costs(x)[k + 1] = Costs(vh)[k]
        <5>1. k + 1 \in 1..Len(l) /\ k + 1 # i
          BY <4>0, <4>1
        <5>2. x[k + 1] = vh[k]
          BY <2>1, <4>1, <5>1
        <5> QED
          BY <2>3, <2>4, <5>1, <5>2
      <4>4. Total(Costs(x)) = Total(Costs(vh)) + Costs(x)[1]
        <5>1. Len(Costs(x)) = Len(Costs(vh)) + 1
          BY <2>3, <2>4, <4>1
        <5>2. \A k \in 1..Len(Costs(vh)) : Costs(x)[k + 1] = Costs(vh)[k]
          BY <2>4, <4>3
        <5> HIDE DEF a, b
        <5> QED
          BY <2>3, <2>4, <5>1, <5>2, TotalCons
      <4>6. b = a + c
        BY <2>3, <2>4, <4>2, <4>4
      <4>7. w = ws - 2
        BY <4>1
      <4> HIDE DEF a, b, w, v
      <4> QED
        BY <1>0, <2>2, <2>3, <4>6, <4>7
    <3> QED
      BY <3>1, <3>2
  <2>6. v <= ws
    <3> HIDE DEF v, cost
    <3>1. cost \in {0, 2}
      BY <2>0
    <3> QED
      BY <2>2, <3>1
  <2> HIDE DEF v
  <2> QED
    BY <1>2, <2>2, <2>5, <2>6
<1> QED
  BY <1>1, <1>2 DEF V!vmod_set

\* The calls of vmod_var.c do not use memory twice.
LEMMA VarStepSize ==
  ASSUME VarsInv, ws \in Nat, V!Next
  PROVE  ws' \in Nat /\ ws' <= ws /\ V!Size(vh') + ws' <= V!Size(vh) + ws
<1> DEFINE Goal == ws' \in Nat /\ ws' <= ws /\ V!Size(vh') + ws' <= V!Size(vh) + ws
           a == V!Size(vh)
<1>0. vh \in Seq(Variable) /\ a \in Nat
  BY CostsType DEF VarsInv
<1>1. ASSUME NEW name \in VarName, NEW type \in V!Type, NEW value \in V!ValueOf(type),
             V!vmod_set(name, type, value)
      PROVE  Goal
  BY <1>1, VarSetSize
<1>3. ASSUME V!vmod_clear PROVE Goal
  <2>1. vh' = <<>> /\ ws' = ws
    BY <1>3 DEF V!vmod_clear
  <2>2. V!Size(vh') = 0
    BY <2>1, VarsNoSize
  <2> HIDE DEF a
  <2>3. 0 + ws <= a + ws /\ ws <= ws
    BY <1>0
  <2> QED
    BY <2>1, <2>2, <2>3 DEF a
<1> HIDE DEF Goal
<1>6. Goal
  BY <1>1, <1>3 DEF V!Next
<1> QED
  BY <1>6 DEF Goal

-----------------------------------------------------------------------------
(***************************************************************************)
(* The table of headers, and the memory of all three modules.              *)
(***************************************************************************)
Copying == [src : HeaderName, dst : HeaderName, u : Nat \ {0}, from : Seq(HeaderRecord), room : Nat]

HeaderInv ==
  /\ hd \in Seq(HeaderRecord) /\ Len(hd) <= MAX_HDR /\ ws \in Nat
  /\ copying = NULL \/ copying \in Copying

\* What is added to the table has its memory, and its slot.
LEMMA HeaderAppend ==
  ASSUME hd \in Seq(HeaderRecord), Len(hd) <= MAX_HDR, ws \in Nat,
         NEW name \in HeaderName, NEW value \in Content, H!vmod_append(name, value)
  PROVE  /\ hd' \in Seq(HeaderRecord) /\ Len(hd') <= MAX_HDR /\ ws' \in Nat
         /\ ws' <= ws /\ Len(hd') + ws' <= Len(hd) + ws
<1> DEFINE h == [name |-> name, value |-> value]
           n == Len(hd)
<1>0. h \in HeaderRecord /\ n \in Nat /\ MAX_HDR \in Nat
  BY TaskAssumption DEF HeaderRecord
<1>1. CASE ws < 1
  <2>1. hd' = hd /\ ws' = ws
    BY <1>1 DEF H!vmod_append
  <2> QED
    BY <1>0, <2>1
<1>2. CASE ~(ws < 1)
  <2>1. ws' = ws - 1 /\ hd' = IF n < MAX_HDR THEN Append(hd, h) ELSE hd
    BY <1>2 DEF H!vmod_append, H!http_SetHeader
  <2>2. Append(hd, h) \in Seq(HeaderRecord) /\ Len(Append(hd, h)) = n + 1
    BY <1>0, AppendProperties
  <2>3. CASE n < MAX_HDR
    <3>1. hd' \in Seq(HeaderRecord) /\ Len(hd') = n + 1
      BY <2>1, <2>2, <2>3
    <3> HIDE DEF n
    <3>2. Len(hd') <= MAX_HDR /\ ws' \in Nat /\ ws' <= ws /\ Len(hd') + ws' <= n + ws
      BY <1>0, <1>2, <2>1, <2>3, <3>1
    <3> QED
      BY <3>1, <3>2 DEF n
  <2>4. CASE ~(n < MAX_HDR)
    <3>1. hd' = hd
      BY <2>1, <2>4
    <3> QED
      BY <1>0, <1>2, <2>1, <3>1
  <2> QED
    BY <2>3, <2>4
<1> QED
  BY <1>1, <1>2

LEMMA SelectShorter ==
  ASSUME NEW S, NEW s \in Seq(S), NEW I
  PROVE  Len(Select(s, I)) <= Len(s)
<1>0. Len(s) \in Nat
  OBVIOUS
<1>1. CASE 1..Len(s) \subseteq I
  BY <1>0, <1>1, SelectAll
<1>2. CASE ~(1..Len(s) \subseteq I)
  <2>1. PICK i \in (1..Len(s)) \ I : TRUE
    BY <1>2
  <2>2. Len(Select(s, I)) < Len(s) /\ Len(Select(s, I)) \in Nat
    BY <2>1, SelectAll, SelectPicks
  <2> QED
    BY <1>0, <2>2
<1> QED
  BY <1>1, <1>2

LEMMA HeaderRemove ==
  ASSUME HeaderInv, NEW name, NEW re, H!vmod_remove(name, re)
  PROVE  /\ hd' \in Seq(HeaderRecord) /\ Len(hd') <= MAX_HDR /\ ws' \in Nat
         /\ ws' <= ws /\ Len(hd') + ws' <= Len(hd) + ws
<1> DEFINE r == Select(hd, (DOMAIN hd) \ H!Matching(hd, name, re))
<1>0. hd \in Seq(HeaderRecord) /\ Len(hd) <= MAX_HDR /\ ws \in Nat /\ MAX_HDR \in Nat
  BY TaskAssumption DEF HeaderInv
<1>1. hd' = r /\ ws' = ws
  BY <1>0, UnsetSelects DEF H!vmod_remove
<1>2. r \in Seq(HeaderRecord) /\ Len(r) <= Len(hd)
  BY <1>0, SelectPicks, SelectShorter
<1> HIDE DEF r
<1>3. Len(r) \in Nat /\ Len(hd) \in Nat
  BY <1>0, <1>2
<1>4. Len(r) <= MAX_HDR /\ Len(r) + ws <= Len(hd) + ws /\ ws <= ws
  <2> DEFINE a == Len(r)
             b == Len(hd)
  <2>1. a \in Nat /\ b \in Nat /\ a <= b /\ b <= MAX_HDR
    BY <1>0, <1>2, <1>3
  <2> HIDE DEF a, b
  <2>2. a <= MAX_HDR /\ a + ws <= b + ws /\ ws <= ws
    BY <1>0, <2>1
  <2> QED
    BY <2>2 DEF a, b
<1> QED
  BY <1>0, <1>1, <1>2, <1>4

\* A turn of copy.
LEMMA HeaderCopyStep ==
  ASSUME HeaderInv, H!Copy
  PROVE  HeaderInv' /\ ws' <= ws /\ Len(hd') + ws' <= Len(hd) + ws
<1>0. hd \in Seq(HeaderRecord) /\ Len(hd) <= MAX_HDR /\ ws \in Nat /\ Len(hd) \in Nat
  BY DEF HeaderInv
<1>1. ASSUME UNCHANGED <<hd, ws>>
      PROVE  /\ hd' \in Seq(HeaderRecord) /\ Len(hd') <= MAX_HDR /\ ws' \in Nat
             /\ ws' <= ws /\ Len(hd') + ws' <= Len(hd) + ws
  BY <1>0, <1>1
<1>2. CASE H!cphdr_end
  BY <1>1, <1>2 DEF H!cphdr_end, HeaderInv
<1>3. CASE H!header_http_cphdr
  <2> DEFINE c == copying
             h == hd[c.u]
  <2>1. /\ c \in Copying /\ c.u <= Len(hd)
        /\ copying' = [c EXCEPT !.u = @ + 1]
        /\ IF H!header_http_match(h, c.src, NULL) THEN H!vmod_append(c.dst, h.value)
           ELSE UNCHANGED <<hd, ws>>
    BY <1>3 DEF H!header_http_cphdr, HeaderInv
  <2>2. c.u \in 1..Len(hd) /\ c.dst \in HeaderName
    <3>1. c.u \in Nat \ {0} /\ c.dst \in HeaderName
      BY <2>1 DEF Copying
    <3> DEFINE v == c.u
    <3>2. v \in Nat \ {0} /\ v <= Len(hd)
      BY <2>1, <3>1
    <3> HIDE DEF v
    <3>3. v \in 1..Len(hd)
      BY <1>0, <3>2
    <3> QED
      BY <3>1, <3>3 DEF v
  <2>3. h.value \in Content
    <3>1. h \in HeaderRecord
      BY <1>0, <2>2
    <3> QED
      BY <3>1 DEF HeaderRecord
  <2>4. copying' \in Copying
    <3>1. c.u + 1 \in Nat \ {0}
      BY <2>1 DEF Copying
    <3> QED
      BY <2>1, <3>1 DEF Copying
  <2>5. /\ hd' \in Seq(HeaderRecord) /\ Len(hd') <= MAX_HDR /\ ws' \in Nat
        /\ ws' <= ws /\ Len(hd') + ws' <= Len(hd) + ws
    <3>1. CASE H!vmod_append(c.dst, h.value)
      BY <1>0, <2>2, <2>3, <3>1, HeaderAppend
    <3>2. CASE UNCHANGED <<hd, ws>>
      BY <1>1, <3>2
    <3> QED
      BY <2>1, <3>1, <3>2
  <2> QED
    BY <2>4, <2>5 DEF HeaderInv
<1> QED
  BY <1>2, <1>3 DEF H!Copy

\* The other calls of vmod_header.c.
LEMMA HeaderStep ==
  ASSUME HeaderInv, H!Next
  PROVE  HeaderInv' /\ ws' <= ws /\ Len(hd') + ws' <= Len(hd) + ws
<1> DEFINE Goal == HeaderInv' /\ ws' <= ws /\ Len(hd') + ws' <= Len(hd) + ws
<1>0. hd \in Seq(HeaderRecord) /\ Len(hd) <= MAX_HDR /\ ws \in Nat /\ Len(hd) \in Nat
  BY DEF HeaderInv
<1>1. ASSUME NEW name \in HeaderName, NEW value \in Content, H!vmod_append(name, value),
             UNCHANGED copying
      PROVE  Goal
  BY <1>0, <1>1, HeaderAppend DEF HeaderInv
<1>2. ASSUME NEW name, NEW re, H!vmod_remove(name, re), UNCHANGED copying
      PROVE  Goal
  <2>1. copying' = NULL \/ copying' \in Copying
    BY <1>2 DEF HeaderInv
  <2>2. /\ hd' \in Seq(HeaderRecord) /\ Len(hd') <= MAX_HDR /\ ws' \in Nat
        /\ ws' <= ws /\ Len(hd') + ws' <= Len(hd) + ws
    BY <1>2, HeaderRemove
  <2> QED
    BY <2>1, <2>2 DEF HeaderInv
<1>3. ASSUME NEW src \in HeaderName, NEW dst \in HeaderName, H!vmod_copy(src, dst)
      PROVE  Goal
  <2>1. copying' = [src |-> src, dst |-> dst, u |-> 1, from |-> hd, room |-> ws]
        /\ hd' = hd /\ ws' = ws
    BY <1>3 DEF H!vmod_copy
  <2>2. copying' \in Copying
    BY <1>0, <2>1 DEF Copying
  <2> QED
    BY <1>0, <2>1, <2>2 DEF HeaderInv
<1> HIDE DEF Goal
<1>4. Goal
  BY <1>1, <1>2, <1>3 DEF H!Next
<1> QED
  BY <1>4 DEF Goal

-----------------------------------------------------------------------------
TaskInv ==
  /\ VarsInv /\ CookieInv /\ HeaderInv
  /\ C!Size(cookielist) + V!Size(vh) + Len(hd) + ws <= MaxWs

LEMMA TaskInvInit == Init => TaskInv
<1> SUFFICES ASSUME Init PROVE TaskInv
  OBVIOUS
<1>1. VarsInv
  BY VarsInvInit
<1>2. cookielist = <<>> /\ vh = <<>> /\ hd \in Received /\ ws = MaxWs - Len(hd) /\ copying = NULL
  BY DEF Init, C!Init, V!Init
<1>3. hd \in Seq(HeaderRecord) /\ Len(hd) <= MAX_HDR /\ Len(hd) <= MaxWs
  BY <1>2, TaskAssumption DEF HeaderRecord
<1>4. Len(hd) \in Nat /\ MaxWs \in Nat
  BY <1>3, TaskAssumption
<1>5. ws \in Nat /\ 0 + 0 + Len(hd) + ws <= MaxWs
  BY <1>2, <1>3, <1>4
<1>6. CookieInv
  BY <1>2, <1>5 DEF CookieInv, Once
<1>7. HeaderInv
  BY <1>2, <1>3, <1>5 DEF HeaderInv
<1>8. C!Size(cookielist) = 0 /\ V!Size(vh) = 0
  BY <1>2, CookieSizes, VarsNoSize
<1> QED
  BY <1>1, <1>5, <1>6, <1>7, <1>8 DEF TaskInv

LEMMA TaskInvNext == TaskInv /\ [Next]_vars => TaskInv'
<1> SUFFICES ASSUME TaskInv, [Next]_vars PROVE TaskInv'
  OBVIOUS
<1> DEFINE a == C!Size(cookielist)
           b == V!Size(vh)
           c == Len(hd)
           ax == C!Size(cookielist')
           bx == V!Size(vh')
           cx == Len(hd')
           w == ws'
<1>0. VarsInv /\ CookieInv /\ HeaderInv /\ a + b + c + ws <= MaxWs
  BY DEF TaskInv
<1>v. VarsInv'
  BY <1>0, VarsInvNext
<1>t. a \in Nat /\ b \in Nat /\ c \in Nat /\ ws \in Nat /\ MaxWs \in Nat
  BY <1>0, CookieSizes, CostsType, TaskAssumption DEF VarsInv, CookieInv, HeaderInv
<1>tx. ASSUME CookieInv', HeaderInv' PROVE ax \in Nat /\ bx \in Nat /\ cx \in Nat /\ w \in Nat
  <2>1. vh' \in Seq(Variable)
    BY <1>v DEF VarsInv
  <2>2. cookielist' \in Seq(CookieRecord) /\ hd' \in Seq(HeaderRecord) /\ ws' \in Nat
    BY <1>tx DEF CookieInv, HeaderInv
  <2> QED
    BY <2>1, <2>2, CookieSizes, CostsType
<1>c. ASSUME UNCHANGED cookielist, ws' \in Nat PROVE CookieInv'
  BY <1>0, <1>c DEF CookieInv
<1>h. ASSUME UNCHANGED <<hd, copying>>, ws' \in Nat PROVE HeaderInv'
  BY <1>0, <1>h DEF HeaderInv
<1>q. ASSUME CookieInv', HeaderInv', ax + bx + cx + w <= a + b + c + ws PROVE TaskInv'
  <2>1. ax \in Nat /\ bx \in Nat /\ cx \in Nat /\ w \in Nat
    BY <1>q, <1>tx
  <2>2. ax + bx + cx + w <= MaxWs
    <3> HIDE DEF a, b, c, ax, bx, cx, w
    <3> QED
      BY <1>0, <1>t, <1>q, <2>1
  <2> QED
    BY <1>q, <1>v, <2>2 DEF TaskInv
<1>1. CASE CookieCall
  <2>1. CookieInv' /\ ax + w <= a + ws
    BY <1>0, <1>1, CookieStep DEF CookieCall
  <2>2. UNCHANGED <<vh, hd, copying>>
    BY <1>1 DEF CookieCall
  <2>3. HeaderInv'
    BY <1>h, <2>1, <2>2 DEF CookieInv
  <2>4. ax \in Nat /\ bx \in Nat /\ cx \in Nat /\ w \in Nat
    BY <1>tx, <2>1, <2>3
  <2>5. bx = b /\ cx = c
    BY <2>2
  <2>6. ax + bx + cx + w <= a + b + c + ws
    <3> HIDE DEF a, b, c, ax, bx, cx, w
    <3> QED
      BY <1>t, <2>1, <2>4, <2>5
  <2> QED
    BY <1>q, <2>1, <2>3, <2>6
<1>2. CASE VarCall
  <2>1. w \in Nat /\ bx + w <= b + ws
    BY <1>0, <1>2, <1>t, VarStepSize DEF VarCall
  <2>2. UNCHANGED <<cookielist, hd, copying>>
    BY <1>2 DEF VarCall
  <2>3. CookieInv' /\ HeaderInv'
    BY <1>c, <1>h, <2>1, <2>2
  <2>4. ax \in Nat /\ bx \in Nat /\ cx \in Nat /\ w \in Nat
    BY <1>tx, <2>3
  <2>5. ax = a /\ cx = c
    BY <2>2
  <2>6. ax + bx + cx + w <= a + b + c + ws
    <3> HIDE DEF a, b, c, ax, bx, cx, w
    <3> QED
      BY <1>t, <2>1, <2>4, <2>5
  <2> QED
    BY <1>q, <2>3, <2>6
<1>3. CASE HeaderCall \/ CopyStep
  <2>1. HeaderInv' /\ cx + w <= c + ws
    BY <1>0, <1>3, HeaderStep, HeaderCopyStep DEF HeaderCall, CopyStep
  <2>2. UNCHANGED <<cookielist, vh>>
    BY <1>3 DEF HeaderCall, CopyStep
  <2>3. CookieInv'
    BY <1>c, <2>1, <2>2 DEF HeaderInv
  <2>4. ax \in Nat /\ bx \in Nat /\ cx \in Nat /\ w \in Nat
    BY <1>tx, <2>1, <2>3
  <2>5. ax = a /\ bx = b
    BY <2>2
  <2>6. ax + bx + cx + w <= a + b + c + ws
    <3> HIDE DEF a, b, c, ax, bx, cx, w
    <3> QED
      BY <1>t, <2>1, <2>4, <2>5
  <2> QED
    BY <1>q, <2>1, <2>3, <2>6
<1>4. CASE EndTask
  <2>1. cookielist' = <<>> /\ vh' = <<>> /\ hd' \in Received /\ ws' = MaxWs - Len(hd')
        /\ copying' = copying
    BY <1>4 DEF EndTask
  <2>2. hd' \in Seq(HeaderRecord) /\ Len(hd') <= MAX_HDR /\ Len(hd') <= MaxWs
    BY <2>1, TaskAssumption DEF HeaderRecord
  <2>3. cx \in Nat /\ cx <= MaxWs /\ w = MaxWs - cx
    BY <2>1, <2>2
  <2>4. w \in Nat /\ 0 + 0 + cx + w <= MaxWs
    <3> HIDE DEF cx, w
    <3> QED
      BY <1>t, <2>3
  <2>5. CookieInv'
    BY <2>1, <2>4 DEF CookieInv, Once
  <2>6. HeaderInv'
    BY <1>0, <2>1, <2>2, <2>4 DEF HeaderInv
  <2>7. ax = 0 /\ bx = 0
    BY <2>1, CookieSizes, VarsNoSize
  <2> QED
    BY <1>v, <2>4, <2>5, <2>6, <2>7 DEF TaskInv
<1>5. CASE UNCHANGED vars
  <2>1. UNCHANGED <<cookielist, vh, hd, copying, ws>>
    BY <1>5 DEF vars
  <2> QED
    BY <1>0, <1>v, <2>1 DEF TaskInv, CookieInv, HeaderInv
<1> QED
  BY <1>1, <1>2, <1>3, <1>4, <1>5 DEF Next

\* cookie, var and header.append, copy and remove take from the workspace at
\* least what their lists grow by, and no header gets past the end of the
\* table, in every order of calls and whichever allocations fail.
THEOREM TaskAccounted == Spec => []Accounted
<1>1. TaskInv => Accounted
  <2> SUFFICES ASSUME TaskInv PROVE Accounted
    OBVIOUS
  <2> DEFINE a == C!Size(cookielist)
             b == V!Size(vh)
             c == Len(hd)
  <2>1. a \in Nat /\ b \in Nat /\ c \in Nat /\ ws \in Nat /\ MaxWs \in Nat
    BY CookieSizes, CostsType, TaskAssumption
       DEF TaskInv, VarsInv, CookieInv, HeaderInv
  <2>2. a + b + c + ws <= MaxWs
    BY DEF TaskInv
  <2>3. Len(hd) <= MAX_HDR
    BY DEF TaskInv, HeaderInv
  <2>4. a + b + c <= MaxWs - ws /\ ws >= 0
    <3> HIDE DEF a, b, c
    <3> QED
      BY <2>1, <2>2
  <2> QED
    BY <2>3, <2>4 DEF Accounted
<1> QED
  BY <1>1, TaskInvInit, TaskInvNext, PTL DEF Spec

\* header.remove takes away the headers that header_http_match matches, and no
\* other, from whatever the calls of a task have made of the table; header.get
\* finds none just if there is none to take.
THEOREM TaskRemoveExact == Spec => []RemoveExact
<1>1. TaskInv => RemoveExact
  BY RemovesExactly DEF TaskInv, HeaderInv
<1> QED
  BY <1>1, TaskInvInit, TaskInvNext, PTL DEF Spec

-----------------------------------------------------------------------------
(***************************************************************************)
(* copy, which goes through the table while it grows.                      *)
(***************************************************************************)

\* What copy has added of the headers that it found so far, got: a of them,
\* as many as there was room for.
Copied(h, w, from, room, dst, got, a) ==
  /\ a \in Nat /\ a <= Len(got) /\ a <= room /\ a <= MAX_HDR - Len(from)
  /\ a = Len(got) \/ a = room \/ a = MAX_HDR - Len(from)
  /\ w = IF Len(got) < room THEN room - Len(got) ELSE 0
  /\ Len(h) = Len(from) + a
  /\ \A j \in 1..Len(from) : h[j] = from[j]
  /\ \A j \in 1..a : h[Len(from) + j] = [name |-> dst, value |-> got[j].value]

LEMMA CopiedNext ==
  ASSUME hd \in Seq(HeaderRecord), ws \in Nat, NEW from \in Seq(HeaderRecord), NEW room \in Nat,
         NEW got \in Seq(HeaderRecord), NEW dst \in HeaderName, NEW h \in HeaderRecord, NEW a,
         Copied(hd, ws, from, room, dst, got, a), H!vmod_append(dst, h.value)
  PROVE  \E b : Copied(hd', ws', from, room, dst, Append(got, h), b)
<1> DEFINE n == Len(from)
           g == Len(got)
           L == MAX_HDR - n
           e == [name |-> dst, value |-> h.value]
           more == Append(got, h)
<1>1. /\ a \in Nat /\ a <= g /\ a <= room /\ a <= L
      /\ a = g \/ a = room \/ a = L
      /\ ws = IF g < room THEN room - g ELSE 0
      /\ Len(hd) = n + a
      /\ \A j \in 1..n : hd[j] = from[j]
      /\ \A j \in 1..a : hd[n + j] = [name |-> dst, value |-> got[j].value]
  BY DEF Copied
<1>2. n \in Nat /\ g \in Nat /\ L \in Int /\ MAX_HDR \in Nat
  BY TaskAssumption
<1>3. e \in HeaderRecord
  BY DEF HeaderRecord
<1>4. Len(more) = g + 1 /\ more[g + 1] = h /\ \A j \in 1..g : more[j] = got[j]
  BY AppendProperties
<1>5. \A j \in 1..a : j \in 1..g
  BY <1>1, <1>2
<1>6. \A j \in 1..a : hd[n + j] = [name |-> dst, value |-> more[j].value]
  BY <1>1, <1>4, <1>5
<1> HIDE DEF e, more
<1>7. CASE hd' = hd /\ (a = room \/ a = L) /\ ws' = IF g + 1 < room THEN room - (g + 1) ELSE 0
  <2>1. a <= g + 1
    BY <1>1, <1>2
  <2>2. Copied(hd', ws', from, room, dst, more, a)
    BY <1>1, <1>4, <1>6, <1>7, <2>1 DEF Copied
  <2> QED
    BY <2>2 DEF more
<1>8. CASE /\ hd' = Append(hd, e) /\ a = g /\ a < room /\ a < L /\ ws' = ws - 1
  <2>1. Len(hd') = (n + a) + 1 /\ hd'[(n + a) + 1] = e /\ \A j \in 1..(n + a) : hd'[j] = hd[j]
    <3> DEFINE k == n + a
    <3>1. Len(hd) = k /\ hd' = Append(hd, e)
      BY <1>1, <1>8
    <3> HIDE DEF k
    <3>2. Len(hd') = k + 1 /\ hd'[k + 1] = e /\ \A j \in 1..k : hd'[j] = hd[j]
      BY <1>3, <3>1, AppendProperties
    <3> QED
      BY <3>2 DEF k
  <2>2. (n + a) + 1 = n + (a + 1) /\ a + 1 \in Nat /\ a + 1 = g + 1 /\ a + 1 <= room /\ a + 1 <= L
    BY <1>1, <1>2, <1>8
  <2>3. \A j \in 1..n : j \in 1..(n + a)
    BY <1>1, <1>2
  <2>4. \A j \in 1..n : hd'[j] = from[j]
    BY <1>1, <2>1, <2>3
  <2>5. ASSUME NEW j \in 1..(a + 1)
        PROVE  hd'[n + j] = [name |-> dst, value |-> more[j].value]
    <3>1. CASE j = a + 1
      <4>1. hd'[n + j] = e /\ more[j] = h
        BY <1>4, <2>1, <2>2, <3>1
      <4> QED
        BY <4>1 DEF e
    <3>2. CASE j \in 1..a
      <4>1. n + j \in 1..(n + a)
        BY <1>1, <1>2, <3>2
      <4> QED
        BY <1>6, <2>1, <3>2, <4>1
    <3> QED
      BY <1>1, <3>1, <3>2
  <2>6. ws' = IF g + 1 < room THEN room - (g + 1) ELSE 0
    BY <1>1, <1>2, <1>8
  <2>7. Copied(hd', ws', from, room, dst, more, a + 1)
    BY <1>4, <2>1, <2>2, <2>4, <2>5, <2>6 DEF Copied
  <2> QED
    BY <2>7 DEF more
<1>9. /\ hd' = IF ws < 1 THEN hd ELSE IF Len(hd) < MAX_HDR THEN Append(hd, e) ELSE hd
      /\ ws' = IF ws < 1 THEN ws ELSE ws - 1
  BY DEF H!vmod_append, H!http_SetHeader, e
<1> HIDE DEF g, n
<1>10. CASE ws < 1
  <2>1. g >= room /\ hd' = hd /\ ws' = 0
    BY <1>1, <1>2, <1>9, <1>10
  <2> QED
    BY <1>1, <1>2, <1>7, <2>1
<1>11. CASE ~(ws < 1)
  <2>1. g < room /\ ws' = ws - 1 /\ ws = room - g
    BY <1>1, <1>2, <1>9, <1>11
  <2>2. ws' = IF g + 1 < room THEN room - (g + 1) ELSE 0
    BY <1>2, <2>1
  <2>3. CASE Len(hd) < MAX_HDR
    <3>1. a < L /\ a = g /\ a < room
      BY <1>1, <1>2, <2>1, <2>3, SMTT(30)
    <3> QED
      BY <1>8, <1>9, <1>11, <2>1, <2>3, <3>1
  <2>4. CASE ~(Len(hd) < MAX_HDR)
    <3>1. a = L
      BY <1>1, <1>2, <2>4
    <3> QED
      BY <1>7, <1>9, <1>11, <2>2, <2>4, <3>1
  <2> QED
    BY <2>3, <2>4
<1> QED
  BY <1>10, <1>11

\* The parts of a list that are selected first are the first that are selected.
LEMMA SelectPrefix ==
  ASSUME NEW S, NEW s \in Seq(S), NEW I, NEW sel, Selects(sel, S, s, I), NEW m \in 0..Len(s)
  PROVE  /\ sel[m] \in Seq(S) /\ Select(s, I) \in Seq(S)
         /\ Len(sel[m]) <= Len(Select(s, I))
         /\ \A j \in 1..Len(sel[m]) : Select(s, I)[j] = sel[m][j]
<1> DEFINE n == Len(s)
           g == Len(sel[m])
<1>0. n \in Nat /\ m \in 0..n
  OBVIOUS
<1>1. /\ \A k \in 0..n : sel[k] \in Seq(S)
      /\ \A k \in 1..n : sel[k] = IF k \in I THEN Append(sel[k - 1], s[k]) ELSE sel[k - 1]
      /\ Select(s, I) = sel[n]
  BY DEF Selects
<1>2. \A k \in 1..n : s[k] \in S
  OBVIOUS
<1>3. g \in Nat /\ sel[m] \in Seq(S)
  BY <1>1
<1> HIDE DEF n, g
<1> DEFINE Ok(k) == g <= Len(sel[k]) /\ \A j \in 1..g : sel[k][j] = sel[m][j]
           T == {k \in 0..n : k >= m => Ok(k)}
<1>4. Ok(m)
  BY <1>3 DEF g
<1>5. 0 \in T
  <2>1. CASE m = 0
    BY <1>0, <1>4, <2>1
  <2>2. CASE m # 0
    <3> HIDE DEF Ok
    <3> QED
      BY <1>0, <2>2
  <2> QED
    BY <2>1, <2>2
<1>6. ASSUME NEW k \in T, k < n PROVE k + 1 \in T
  <2>1. k \in 0..n /\ k + 1 \in 1..n /\ k + 1 \in 0..n /\ (k + 1) - 1 = k
    BY <1>0, <1>6
  <2>2. CASE k >= m
    <3>1. Ok(k)
      BY <1>6, <2>2
    <3>2. sel[k + 1] = IF k + 1 \in I THEN Append(sel[k], s[k + 1]) ELSE sel[k]
      BY <1>1, <2>1
    <3>3. sel[k] \in Seq(S) /\ s[k + 1] \in S
      BY <1>1, <1>2, <2>1
    <3>4. CASE k + 1 \in I
      <4> DEFINE r == Append(sel[k], s[k + 1])
      <4>1. Len(r) = Len(sel[k]) + 1 /\ \A j \in 1..Len(sel[k]) : r[j] = sel[k][j]
        BY <3>3, AppendProperties
      <4>2. Len(sel[k]) \in Nat
        BY <3>3
      <4>3. sel[k + 1] = r
        BY <3>2, <3>4
      <4> HIDE DEF r
      <4>4. \A j \in 1..g : j \in 1..Len(sel[k])
        BY <1>3, <3>1, <4>2
      <4>5. g <= Len(r)
        BY <1>3, <3>1, <4>1, <4>2
      <4>6. Ok(k + 1)
        BY <3>1, <4>1, <4>3, <4>4, <4>5
      <4> HIDE DEF Ok
      <4> QED
        BY <2>1, <4>6
    <3>5. CASE k + 1 \notin I
      <4>1. Ok(k + 1)
        BY <3>1, <3>2, <3>5
      <4> HIDE DEF Ok
      <4> QED
        BY <2>1, <4>1
    <3> QED
      BY <3>4, <3>5
  <2>3. CASE ~(k >= m)
    <3>1. CASE k + 1 = m
      BY <1>4, <2>1, <3>1
    <3>2. CASE k + 1 # m
      <4>1. ~(k + 1 >= m)
        BY <1>0, <2>1, <2>3, <3>2
      <4> HIDE DEF Ok
      <4> QED
        BY <2>1, <4>1
    <3> QED
      BY <3>1, <3>2
  <2> QED
    BY <2>2, <2>3
<1>7. T \in SUBSET (0..n)
  OBVIOUS
<1>8. n \in T
  <2> HIDE DEF T
  <2>1. T = 0..n
    BY <1>0, <1>5, <1>6, <1>7, UpTo
  <2> QED
    BY <1>0, <2>1
<1>9. Ok(n) /\ n \in 0..n
  <2> HIDE DEF Ok
  <2> QED
    BY <1>0, <1>8
<1> QED
  BY <1>1, <1>3, <1>9 DEF g

\* Where copy is: m of the headers that it began with are behind it.
CopyAt(c, h, w, sel, m, a) ==
  /\ Selects(sel, HeaderRecord, c.from, H!Matching(c.from, c.src, NULL))
  /\ m \in 0..Len(c.from)
  /\ m = IF c.u <= Len(c.from) THEN c.u - 1 ELSE Len(c.from)
  /\ Copied(h, w, c.from, c.room, c.dst, sel[m], a)

CopyInv ==
  copying # NULL /\ copying.src # copying.dst =>
    \E sel, m, a : CopyAt(copying, hd, ws, sel, m, a)

LEMMA CopyBegins ==
  ASSUME HeaderInv, NEW src \in HeaderName, NEW dst \in HeaderName, H!vmod_copy(src, dst)
  PROVE  CopyInv'
<1> DEFINE c == [src |-> src, dst |-> dst, u |-> 1, from |-> hd, room |-> ws]
           I == H!Matching(hd, src, NULL)
<1>0. hd \in Seq(HeaderRecord) /\ Len(hd) <= MAX_HDR /\ ws \in Nat /\ Len(hd) \in Nat
      /\ MAX_HDR \in Nat
  BY TaskAssumption DEF HeaderInv
<1>1. copying' = c /\ hd' = hd /\ ws' = ws
  BY DEF H!vmod_copy
<1>2. PICK sel : Selects(sel, HeaderRecord, hd, I)
  BY <1>0, SelectSteps
<1>3. sel[0] = <<>>
  BY <1>2 DEF Selects
<1>4. 0 <= MAX_HDR - Len(hd) /\ 0 \in 0..Len(hd)
      /\ 0 = IF 1 <= Len(hd) THEN 1 - 1 ELSE Len(hd)
  BY <1>0
<1>5. Copied(hd, ws, hd, ws, dst, <<>>, 0)
  BY <1>0, <1>4 DEF Copied
<1>6. c.src = src /\ c.dst = dst /\ c.u = 1 /\ c.from = hd /\ c.room = ws
  OBVIOUS
<1> HIDE DEF c
<1>7. CopyAt(c, hd, ws, sel, 0, 0)
  BY <1>2, <1>3, <1>4, <1>5, <1>6 DEF CopyAt
<1> QED
  BY <1>1, <1>7 DEF CopyInv

LEMMA CopyGoesOn ==
  ASSUME HeaderInv, CopyInv, H!header_http_cphdr
  PROVE  CopyInv'
<1> DEFINE c == copying
           x == [c EXCEPT !.u = @ + 1]
           n == Len(c.from)
           u == c.u
           h == hd[u]
           I == H!Matching(c.from, c.src, NULL)
<1>0. hd \in Seq(HeaderRecord) /\ Len(hd) \in Nat /\ ws \in Nat /\ c \in Copying
  BY DEF HeaderInv, H!header_http_cphdr
<1>1. /\ c # NULL /\ u <= Len(hd)
      /\ copying' = x
      /\ IF H!header_http_match(h, c.src, NULL) THEN H!vmod_append(c.dst, h.value)
         ELSE UNCHANGED <<hd, ws>>
  BY DEF H!header_http_cphdr
<1>2. /\ x.src = c.src /\ x.dst = c.dst /\ x.from = c.from /\ x.room = c.room /\ x.u = u + 1
  BY <1>0 DEF Copying
<1>3. /\ c.src \in HeaderName /\ c.dst \in HeaderName /\ u \in Nat \ {0} /\ n \in Nat
      /\ c.from \in Seq(HeaderRecord) /\ c.room \in Nat
  BY <1>0 DEF Copying
<1>4. ASSUME c.src # c.dst PROVE \E sel, m, a : CopyAt(x, hd', ws', sel, m, a)
  <2>1. PICK sel, m, a : CopyAt(c, hd, ws, sel, m, a)
    BY <1>1, <1>4 DEF CopyInv
  <2>2. /\ Selects(sel, HeaderRecord, c.from, I)
        /\ m \in 0..n
        /\ m = IF u <= n THEN u - 1 ELSE n
        /\ Copied(hd, ws, c.from, c.room, c.dst, sel[m], a)
    BY <2>1 DEF CopyAt
  <2>3. /\ \A k \in 0..n : sel[k] \in Seq(HeaderRecord)
        /\ \A k \in 1..n : sel[k] = IF k \in I THEN Append(sel[k - 1], c.from[k]) ELSE sel[k - 1]
    BY <2>2 DEF Selects
  <2>4. /\ \A j \in 1..n : hd[j] = c.from[j]
        /\ Len(hd) = n + a /\ a \in Nat
        /\ \A j \in 1..a : hd[n + j] = [name |-> c.dst, value |-> sel[m][j].value]
    BY <2>2 DEF Copied
  <2> HIDE DEF x, n, u
  <2>5. CASE u <= n
    <3>1. u \in 1..n /\ m = u - 1 /\ m + 1 = u /\ u \in 0..n
      BY <1>3, <2>2, <2>5
    <3>2. u = IF u + 1 <= n THEN (u + 1) - 1 ELSE n
      BY <1>3, <2>5
    <3>3. h = c.from[u] /\ h \in HeaderRecord
      <4>1. h = c.from[u]
        BY <2>4, <3>1
      <4>2. c.from[u] \in HeaderRecord
        BY <1>3, <3>1 DEF n
      <4> QED
        BY <4>1, <4>2
    <3>4. u \in I <=> H!header_http_match(h, c.src, NULL)
      <4>1. u \in DOMAIN c.from
        BY <1>3, <3>1 DEF n
      <4> QED
        BY <3>3, <4>1 DEF H!Matching
    <3>5. sel[u] = IF u \in I THEN Append(sel[m], h) ELSE sel[m]
      BY <2>3, <3>1, <3>3
    <3>6. \E b : Copied(hd', ws', c.from, c.room, c.dst, sel[u], b)
      <4>1. CASE H!header_http_match(h, c.src, NULL)
        <5>1. H!vmod_append(c.dst, h.value) /\ sel[u] = Append(sel[m], h)
          BY <1>1, <3>4, <3>5, <4>1
        <5>2. sel[m] \in Seq(HeaderRecord)
          BY <2>2, <2>3
        <5> DEFINE from == c.from
                   room == c.room
                   dst == c.dst
                   got == sel[m]
        <5>3. /\ from \in Seq(HeaderRecord) /\ room \in Nat /\ dst \in HeaderName
              /\ got \in Seq(HeaderRecord) /\ h \in HeaderRecord
              /\ hd \in Seq(HeaderRecord) /\ ws \in Nat
              /\ Copied(hd, ws, from, room, dst, got, a) /\ H!vmod_append(dst, h.value)
          BY <1>0, <1>3, <2>2, <3>3, <5>1, <5>2
        <5> HIDE DEF h, from, room, dst, got
        <5>4. \E b : Copied(hd', ws', from, room, dst, Append(got, h), b)
          BY <5>3, CopiedNext
        <5> QED
          BY <5>1, <5>4 DEF from, room, dst, got
      <4>2. CASE ~H!header_http_match(h, c.src, NULL)
        BY <1>1, <2>2, <3>4, <3>5, <4>2
      <4> QED
        BY <4>1, <4>2
    <3>7. PICK b : Copied(hd', ws', c.from, c.room, c.dst, sel[u], b)
      BY <3>6
    <3>8. CopyAt(x, hd', ws', sel, u, b)
      BY <1>2, <2>2, <3>1, <3>2, <3>7 DEF CopyAt, n
    <3> QED
      BY <3>8
  <2>6. CASE ~(u <= n)
    <3>1. m = n /\ m = IF u + 1 <= n THEN (u + 1) - 1 ELSE n
      BY <1>3, <2>2, <2>6
    <3>2. ~H!header_http_match(h, c.src, NULL)
      <4>1. u - n \in 1..a /\ n + (u - n) = u
        <5>1. u <= Len(hd) /\ Len(hd) = n + a
          BY <1>1, <2>4
        <5>2. u <= n + a
          BY <5>1
        <5> QED
          BY <1>3, <2>4, <2>6, <5>2
      <4>2. h = [name |-> c.dst, value |-> sel[m][u - n].value]
        BY <2>4, <4>1
      <4>3. h.name = c.dst
        BY <4>2
      <4> QED
        BY <1>4, <4>3 DEF H!header_http_match
    <3>3. UNCHANGED <<hd, ws>>
      BY <1>1, <3>2
    <3>4. CopyAt(x, hd', ws', sel, m, a)
      BY <1>2, <2>2, <3>1, <3>3 DEF CopyAt, n
    <3> QED
      BY <3>4
  <2> QED
    BY <2>5, <2>6
<1> QED
  BY <1>1, <1>2, <1>4 DEF CopyInv

LEMMA CopyInvNext == TaskInv /\ CopyInv /\ [Next]_vars => CopyInv'
<1> SUFFICES ASSUME TaskInv, CopyInv, [Next]_vars PROVE CopyInv'
  OBVIOUS
<1>0. HeaderInv
  BY DEF TaskInv
<1>1. ASSUME copying' = NULL PROVE CopyInv'
  BY <1>1 DEF CopyInv
<1>2. CASE CookieCall \/ VarCall \/ EndTask
  <2>1. copying' = NULL
    BY <1>2 DEF CookieCall, VarCall, EndTask, Ready
  <2> QED
    BY <1>1, <2>1
<1>3. CASE HeaderCall
  <2>1. copying = NULL /\ H!Next
    BY <1>3 DEF HeaderCall, Ready
  <2>2. copying' = NULL \/ \E src, dst \in HeaderName : H!vmod_copy(src, dst)
    BY <2>1 DEF H!Next
  <2> QED
    BY <1>0, <1>1, <2>2, CopyBegins
<1>4. CASE CopyStep
  <2>1. CASE H!header_http_cphdr
    BY <1>0, <2>1, CopyGoesOn
  <2>2. CASE H!cphdr_end
    BY <1>1, <2>2 DEF H!cphdr_end
  <2> QED
    BY <1>4, <2>1, <2>2 DEF CopyStep, H!Copy
<1>5. CASE UNCHANGED vars
  <2>1. UNCHANGED <<copying, hd, ws>>
    BY <1>5 DEF vars
  <2> QED
    BY <2>1 DEF CopyInv
<1> QED
  BY <1>2, <1>3, <1>4, <1>5 DEF Next

LEMMA CopyKeeps == HeaderInv /\ CopyInv => CopyExact
<1> SUFFICES ASSUME HeaderInv, CopyInv, copying # NULL, copying.src # copying.dst PROVE CopyExact
  BY DEF CopyExact, H!CopyExact
<1> DEFINE c == copying
           from == c.from
           room == c.room
           dst == c.dst
           u == c.u
           I == H!Matching(from, c.src, NULL)
           had == Select(from, I)
           n == Len(from)
           new == SubSeq(hd, n + 1, Len(hd))
           min(x, y) == IF x < y THEN x ELSE y
<1>1. PICK sel, m, a : CopyAt(c, hd, ws, sel, m, a)
  BY DEF CopyInv
<1>2. /\ Selects(sel, HeaderRecord, from, I)
      /\ m \in 0..n /\ m = IF u <= n THEN u - 1 ELSE n
      /\ Copied(hd, ws, from, room, dst, sel[m], a)
  BY <1>1 DEF CopyAt
<1>3. /\ from \in Seq(HeaderRecord) /\ room \in Nat /\ n \in Nat /\ u \in Nat
      /\ hd \in Seq(HeaderRecord)
  BY DEF HeaderInv, Copying
<1>4. H!Select(from, I) = had
  BY SameSelect
<1> HIDE DEF I
<1>5. /\ sel[m] \in Seq(HeaderRecord) /\ had \in Seq(HeaderRecord)
      /\ Len(sel[m]) <= Len(had)
      /\ \A j \in 1..Len(sel[m]) : had[j] = sel[m][j]
  BY <1>2, <1>3, SelectPrefix
<1>6. m = n => had = sel[m]
  BY <1>2 DEF Selects
<1> HIDE DEF had, from, room, dst, u, n
<1> DEFINE g == Len(sel[m])
           L == MAX_HDR - n
<1>7. /\ a \in Nat /\ a <= g /\ a <= room /\ a <= L
      /\ a = g \/ a = room \/ a = L
      /\ Len(hd) = n + a
      /\ \A j \in 1..n : hd[j] = from[j]
      /\ \A j \in 1..a : hd[n + j] = [name |-> dst, value |-> sel[m][j].value]
  BY <1>2 DEF Copied, n
<1>8. g \in Nat /\ Len(had) \in Nat /\ g <= Len(had) /\ L \in Int
  BY <1>3, <1>5, TaskAssumption
<1>9. SubSeq(hd, 1, n) = from
  <2> DEFINE y == SubSeq(hd, 1, n)
  <2>0. \A j \in 1..n : hd[j] \in HeaderRecord
    <3>1. \A j \in 1..n : j \in 1..Len(hd)
      BY <1>3, <1>7
    <3> QED
      BY <1>3, <3>1
  <2>1. /\ y \in Seq(HeaderRecord)
        /\ Len(y) = IF 1 <= n THEN n - 1 + 1 ELSE 0
        /\ \A k \in 1..(n - 1 + 1) : y[k] = hd[1 + k - 1]
    BY <1>3, <2>0, SubSeqProperties
  <2> HIDE DEF y
  <2>2. Len(y) = n /\ \A k \in 1..n : y[k] = hd[k]
    BY <1>3, <2>1
  <2>3. Len(y) = Len(from) /\ \A k \in 1..Len(y) : y[k] = from[k]
    BY <1>7, <2>2 DEF n
  <2>4. y = from
    BY <1>3, <2>1, <2>3, SeqEqual
  <2> QED
    BY <2>4 DEF y
<1>10. new \in Seq(HeaderRecord) /\ Len(new) = a /\ \A j \in 1..a : new[j] = hd[n + j]
  <2> DEFINE p == n + 1
             q == Len(hd)
             y == SubSeq(hd, p, q)
  <2>p. p \in Int /\ q \in Int /\ p = n + 1 /\ q = n + a
    BY <1>3, <1>7
  <2>0. \A j \in p..q : hd[j] \in HeaderRecord
    <3>1. \A j \in p..q : j \in 1..Len(hd)
      BY <1>3
    <3> QED
      BY <1>3, <3>1
  <2> HIDE DEF p, q
  <2>1. /\ y \in Seq(HeaderRecord)
        /\ Len(y) = IF p <= q THEN q - p + 1 ELSE 0
        /\ \A k \in 1..(q - p + 1) : y[k] = hd[p + k - 1]
    BY <2>0, <2>p, SubSeqProperties
  <2>2. y = new
    BY DEF p, q
  <2> HIDE DEF y, new
  <2>3. Len(y) = a /\ q - p + 1 = a /\ \A k \in 1..a : p + k - 1 = n + k
    BY <1>3, <1>7, <2>1, <2>p
  <2>4. \A k \in 1..a : y[k] = hd[n + k]
    BY <2>1, <2>3
  <2> QED
    BY <2>1, <2>2, <2>3, <2>4
<1> HIDE DEF new, g, L
<1>11. Len(new) <= Len(had)
  BY <1>7, <1>8, <1>10
<1>12. ASSUME NEW j \in DOMAIN new PROVE new[j] = [name |-> dst, value |-> had[j].value]
  <2>1. j \in 1..a
    BY <1>10
  <2>2. j \in 1..g
    BY <1>7, <1>8, <2>1
  <2>3. had[j] = sel[m][j]
    BY <1>5, <2>2 DEF g
  <2> QED
    BY <1>7, <1>10, <2>1, <2>3
<1>13. ASSUME u > Len(hd) PROVE Len(new) = min(Len(had), min(room, L))
  <2>1. m = n
    BY <1>2, <1>3, <1>7, <1>13 DEF n
  <2>2. Len(had) = g
    BY <1>6, <2>1 DEF g
  <2> QED
    BY <1>3, <1>7, <1>8, <1>10, <2>2
<1> QED
  BY <1>4, <1>9, <1>11, <1>12, <1>13
     DEF CopyExact, H!CopyExact, new, L, n, u, dst, room, from, I

\* header.copy, at every turn of header_http_cphdr: the table begins with what
\* it had before, and what is added are the first of the headers that were
\* there under the old name, as many in the end as there is room for; the loop
\* does not find what it adds itself.
THEOREM TaskCopyExact == Spec => []CopyExact
<1>1. Init => TaskInv /\ CopyInv
  <2>1. Init => CopyInv
    BY DEF Init, CopyInv
  <2> QED
    BY <2>1, TaskInvInit
<1>2. TaskInv /\ CopyInv /\ [Next]_vars => (TaskInv /\ CopyInv)'
  BY TaskInvNext, CopyInvNext
<1>3. TaskInv /\ CopyInv => CopyExact
  BY CopyKeeps DEF TaskInv
<1> QED
  BY <1>1, <1>2, <1>3, PTL DEF Spec

-----------------------------------------------------------------------------
(***************************************************************************)
(* What parse reads.                                                       *)
(***************************************************************************)

\* A name begins after the last value before it, or with the header.
Begins(h, i, k) ==
  /\ k \in 1..i
  /\ k = 1 \/ Len(h[k - 1]) = 2
  /\ \A j \in k..(i - 1) : Len(h[j]) = 1

LEMMA NameBegins ==
  ASSUME NEW h, NEW i \in Nat, NEW k, Begins(h, i, k)
  PROVE  C!NameAt(h, i) = [j \in 1..(i - k + 1) |-> h[k + j - 1][1]]
<1> DEFINE Is(x) == /\ x = 1 \/ Len(h[x - 1]) = 2
                    /\ \A j \in x..(i - 1) : Len(h[j]) = 1
           first == CHOOSE x \in 1..i : Is(x)
<1>1. k \in 1..i /\ Is(k)
  BY DEF Begins
<1>2. first \in 1..i /\ Is(first)
  <2> HIDE DEF Is
  <2> QED
    BY <1>1
<1>3. C!NameAt(h, i) = [j \in 1..(i - first + 1) |-> h[first + j - 1][1]]
  BY DEF C!NameAt
<1> HIDE DEF first
<1>4. ASSUME first < k PROVE FALSE
  <2>1. k # 1 /\ k - 1 \in first..(i - 1)
    BY <1>1, <1>2, <1>4
  <2>2. Len(h[k - 1]) = 2 /\ Len(h[k - 1]) = 1
    BY <1>1, <1>2, <2>1
  <2> QED
    BY <2>2
<1>5. ASSUME k < first PROVE FALSE
  <2>1. first # 1 /\ first - 1 \in k..(i - 1)
    BY <1>1, <1>2, <1>5
  <2>2. Len(h[first - 1]) = 2 /\ Len(h[first - 1]) = 1
    BY <1>1, <1>2, <2>1
  <2> QED
    BY <2>2
<1>6. first = k
  BY <1>1, <1>2, <1>4, <1>5
<1> QED
  BY <1>3, <1>6

\* What parse has read of the next name after i pieces.
Pending(h, i, name) ==
  LET k == i - Len(name) IN
  /\ k \in 0..i
  /\ k = 0 \/ Len(h[k]) = 2
  /\ \A j \in 1..Len(name) : Len(h[k + j]) = 1 /\ name[j] = h[k + j][1]

LEMMA PendingName ==
  ASSUME NEW h \in Seq(C!Piece), NEW i \in Nat, i < Len(h), NEW name \in Seq(AtomOrEmpty),
         Pending(h, i, name)
  PROVE  C!NameAt(h, i + 1) = Append(name, h[i + 1][1])
<1> DEFINE n == Len(name)
           k == i - n
           p == h[i + 1][1]
           x == Append(name, p)
<1>0. n \in Nat /\ i + 1 \in 1..Len(h)
  OBVIOUS
<1>1. /\ k \in 0..i /\ (k = 0 \/ Len(h[k]) = 2)
      /\ \A j \in 1..n : Len(h[k + j]) = 1 /\ name[j] = h[k + j][1]
  BY DEF Pending
<1>p. p \in AtomOrEmpty
  <2>1. h[i + 1] \in C!Piece
    BY <1>0
  <2> QED
    BY <2>1, PieceType
<1>4. x \in Seq(AtomOrEmpty) /\ Len(x) = n + 1 /\ x[n + 1] = p /\ \A j \in 1..n : x[j] = name[j]
  BY <1>p, AppendProperties
<1> HIDE DEF n, p, x
<1>2. Begins(h, i + 1, k + 1)
  <2>1. k + 1 \in 1..(i + 1) /\ (k + 1) - 1 = k /\ (i + 1) - 1 = i
    BY <1>0, <1>1
  <2>2. k + 1 = 1 \/ Len(h[(k + 1) - 1]) = 2
    BY <1>1, <2>1
  <2>3. ASSUME NEW j \in (k + 1)..i PROVE Len(h[j]) = 1
    <3>1. j - k \in 1..n /\ k + (j - k) = j
      BY <1>0, <1>1
    <3> QED
      BY <1>1, <3>1
  <2> HIDE DEF k
  <2> QED
    BY <2>1, <2>2, <2>3 DEF Begins
<1>3. C!NameAt(h, i + 1) = [j \in 1..((i + 1) - (k + 1) + 1) |-> h[(k + 1) + j - 1][1]]
  <2> DEFINE a == i + 1
             b == k + 1
  <2>1. a \in Nat /\ Begins(h, a, b)
    BY <1>2
  <2> HIDE DEF a, b
  <2>2. C!NameAt(h, a) = [j \in 1..(a - b + 1) |-> h[b + j - 1][1]]
    BY <2>1, NameBegins
  <2> HIDE DEF k
  <2> QED
    BY <2>2 DEF a, b
<1>5. (i + 1) - (k + 1) + 1 = n + 1 /\ k + (n + 1) = i + 1
  BY <1>0
<1> HIDE DEF k
<1>6. \A j \in 1..(n + 1) : (k + 1) + j - 1 = k + j
  BY <1>0, <1>1
<1>7. C!NameAt(h, i + 1) = [j \in 1..(n + 1) |-> h[k + j][1]]
  BY <1>3, <1>5, <1>6
<1>8. \A j \in 1..(n + 1) : x[j] = h[k + j][1]
  <2>1. \A j \in 1..(n + 1) : j = n + 1 \/ j \in 1..n
    BY <1>0
  <2> QED
    BY <1>1, <1>4, <1>5, <2>1 DEF p
<1>9. x = [j \in 1..(n + 1) |-> x[j]]
  BY <1>4
<1>10. C!NameAt(h, i + 1) = x
  BY <1>7, <1>8, <1>9
<1> QED
  BY <1>10 DEF x, p

\* The turns of parse, with the names that NameAt gives.
ParseTurn(s, r, h, i) ==
  IF Len(h[i + 1]) = 1
  THEN r.list = s.list /\ r.ws = s.ws /\ Len(r.name) = Len(s.name) + 1
  ELSE LET x == C!Set(s, C!NameAt(h, i + 1), h[i + 1][2])
       IN r.list = x.list /\ r.ws = x.ws /\ r.name = <<>>
          /\ C!NameAt(h, i + 1) \in CookieName /\ h[i + 1][2] \in ValueOrEmpty
          /\ Len(C!NameAt(h, i + 1)) = Len(s.name) + 1

LEMMA PendingNext ==
  ASSUME NEW h \in Seq(C!Piece), NEW i \in Nat, i < Len(h), NEW s \in CookieState, Once(s.list),
         Pending(h, i, s.name)
  PROVE  LET r == C!ParsePiece(s, h[i + 1])
         IN Pending(h, i + 1, r.name) /\ ParseTurn(s, r, h, i)
<1> DEFINE p == h[i + 1]
           r == C!ParsePiece(s, p)
           name == s.name
           n == Len(name)
           k == i - n
           x == Append(name, p[1])
<1>0. name \in Seq(AtomOrEmpty) /\ n \in Nat /\ p \in C!Piece
  <2>1. i + 1 \in 1..Len(h)
    OBVIOUS
  <2> QED
    BY <2>1 DEF CookieState
<1>1. /\ p[1] \in AtomOrEmpty /\ Len(p) \in {1, 2}
      /\ Len(p) = 2 => p[2] \in ValueOrEmpty
  BY <1>0, PieceType
<1>2. C!NameAt(h, i + 1) = x
  BY <1>0, PendingName
<1>3. x \in Seq(AtomOrEmpty) /\ Len(x) = n + 1 /\ x[n + 1] = p[1] /\ \A j \in 1..n : x[j] = name[j]
  <2> DEFINE b == p[1]
  <2>1. b \in AtomOrEmpty
    BY <1>1
  <2> HIDE DEF b, name
  <2>2. /\ Append(name, b) \in Seq(AtomOrEmpty) /\ Len(Append(name, b)) = n + 1
        /\ Append(name, b)[n + 1] = b /\ \A j \in 1..n : Append(name, b)[j] = name[j]
    BY <1>0, <2>1, AppendProperties
  <2> QED
    BY <2>2 DEF b
<1>4. /\ k \in 0..i /\ (k = 0 \/ Len(h[k]) = 2)
      /\ \A j \in 1..n : Len(h[k + j]) = 1 /\ name[j] = h[k + j][1]
  BY DEF Pending
<1>5. CASE Len(p) = 1
  <2>1. r = [s EXCEPT !.name = x]
    BY <1>5 DEF C!ParsePiece
  <2>2. r.name = x /\ r.list = s.list /\ r.ws = s.ws
    BY <2>1 DEF CookieState
  <2> HIDE DEF r, x, name
  <2>3. ParseTurn(s, r, h, i)
    BY <1>3, <1>5, <2>2 DEF ParseTurn, name
  <2>4. (i + 1) - Len(x) = k /\ k \in 0..(i + 1) /\ k + (n + 1) = i + 1
    <3> HIDE DEF n
    <3> QED
      BY <1>0, <1>3, <1>4
  <2>5. ASSUME NEW j \in 1..Len(x) PROVE Len(h[k + j]) = 1 /\ x[j] = h[k + j][1]
    <3>1. CASE j = n + 1
      BY <1>3, <1>5, <2>4, <3>1
    <3>2. CASE j \in 1..n
      BY <1>3, <1>4, <3>2
    <3> QED
      BY <1>0, <1>3, <3>1, <3>2
  <2> HIDE DEF k
  <2>6. Pending(h, i + 1, x)
    BY <1>4, <2>4, <2>5 DEF Pending
  <2> QED
    BY <2>2, <2>3, <2>6 DEF r
<1>6. CASE Len(p) = 2
  <2> DEFINE t == C!Set(s, x, p[2])
  <2>1. r = [t EXCEPT !.name = <<>>]
    BY <1>6 DEF C!ParsePiece
  <2>2. x \in CookieName
    <3> HIDE DEF x, n
    <3>1. x # <<>>
      BY <1>0, <1>3
    <3> QED
      BY <1>3, <3>1 DEF CookieName
  <2>3. SetKeeps(s, t)
    BY <1>1, <1>6, <2>2, CookieSet
  <2> HIDE DEF t, r, x
  <2>4. r.list = t.list /\ r.ws = t.ws /\ r.name = <<>>
    BY <2>1, <2>3 DEF SetKeeps, CookieState
  <2>5. ParseTurn(s, r, h, i)
    BY <1>1, <1>2, <1>3, <1>6, <2>2, <2>4 DEF ParseTurn, t
  <2>6. Pending(h, i + 1, r.name)
    <3>1. Len(r.name) = 0 /\ (i + 1) - 0 = i + 1 /\ i + 1 \in 0..(i + 1)
      BY <2>4
    <3> QED
      BY <1>6, <3>1 DEF Pending
  <2> QED
    BY <2>5, <2>6 DEF r
<1> QED
  BY <1>1, <1>5, <1>6

LEMMA ParseSteps ==
  ASSUME NEW h \in Seq(C!Piece), NEW w \in Nat, NEW turn, Parses(turn, h, w)
  PROVE  /\ \A i \in 0..Len(h) : turn[i] \in CookieState /\ Once(turn[i].list)
         /\ turn[0].list = <<>> /\ turn[0].ws = w /\ turn[0].name = <<>>
         /\ \A i \in 0..(Len(h) - 1) : ParseTurn(turn[i], turn[i + 1], h, i)
<1> DEFINE n == Len(h)
           T == {i \in 0..n : Pending(h, i, turn[i].name)}
<1>0. n \in Nat
  OBVIOUS
<1>1. /\ \A i \in 0..n : turn[i] \in CookieState /\ Once(turn[i].list)
      /\ turn[0] = C!State(<<>>, w)
      /\ \A i \in 1..n : turn[i] = C!ParsePiece(turn[i - 1], h[i])
  BY DEF Parses
<1>2. turn[0].list = <<>> /\ turn[0].ws = w /\ turn[0].name = <<>>
  BY <1>1 DEF C!State
<1>3. ASSUME NEW i \in T, i < n PROVE i + 1 \in T /\ ParseTurn(turn[i], turn[i + 1], h, i)
  <2>1. i \in 0..n /\ i + 1 \in 1..n /\ i + 1 \in 0..n /\ (i + 1) - 1 = i /\ i \in Nat
    BY <1>0, <1>3
  <2>2. turn[i + 1] = C!ParsePiece(turn[i], h[i + 1]) /\ turn[i] \in CookieState /\ Once(turn[i].list)
    BY <1>1, <2>1
  <2>3. Pending(h, i, turn[i].name)
    BY <1>3
  <2>4. Pending(h, i + 1, turn[i + 1].name) /\ ParseTurn(turn[i], turn[i + 1], h, i)
    BY <1>3, <2>1, <2>2, <2>3, PendingNext
  <2> QED
    BY <2>1, <2>4
<1>4. 0 \in T
  <2>1. Len(turn[0].name) = 0
    BY <1>2
  <2>2. Pending(h, 0, turn[0].name)
    BY <2>1 DEF Pending
  <2> QED
    BY <1>0, <2>2
<1>5. T \in SUBSET (0..n)
  OBVIOUS
<1> HIDE DEF T, n
<1>6. T = 0..n
  BY <1>0, <1>3, <1>4, <1>5, UpTo
<1>7. ASSUME NEW i \in 0..(n - 1) PROVE ParseTurn(turn[i], turn[i + 1], h, i)
  <2>1. i \in 0..n /\ i < n
    BY <1>0
  <2> QED
    BY <1>3, <1>6, <2>1
<1> QED
  BY <1>1, <1>2, <1>7 DEF n

Elems(l) == {l[i] : i \in 1..Len(l)}

LEMMA ElemsReplaced ==
  ASSUME NEW l \in Seq(CookieRecord), Once(l), NEW i \in 1..Len(l), NEW c \in CookieRecord,
         c.name = l[i].name
  PROVE  Elems([l EXCEPT ![i] = c]) = {x \in Elems(l) : x.name # c.name} \cup {c}
<1> DEFINE r == [l EXCEPT ![i] = c]
<1>1. Len(r) = Len(l) /\ \A k \in 1..Len(l) : r[k] = IF k = i THEN c ELSE l[k]
  OBVIOUS
<1> HIDE DEF r
<1>2. ASSUME NEW x \in Elems(r) PROVE x = c \/ (x \in Elems(l) /\ x.name # c.name)
  <2>1. PICK k \in 1..Len(l) : x = r[k]
    BY <1>1 DEF Elems
  <2>2. CASE k = i
    BY <1>1, <2>1, <2>2
  <2>3. CASE k # i
    <3>1. x = l[k] /\ l[k].name # l[i].name
      BY <1>1, <2>1, <2>3 DEF Once
    <3> QED
      BY <3>1 DEF Elems
  <2> QED
    BY <2>2, <2>3
<1>3. c \in Elems(r)
  BY <1>1 DEF Elems
<1>4. ASSUME NEW x \in Elems(l), x.name # c.name PROVE x \in Elems(r)
  <2>1. PICK k \in 1..Len(l) : x = l[k]
    BY DEF Elems
  <2>2. k # i
    BY <1>4, <2>1
  <2> QED
    BY <1>1, <2>1, <2>2 DEF Elems
<1> QED
  BY <1>2, <1>3, <1>4 DEF r

LEMMA ElemsAppended ==
  ASSUME NEW l \in Seq(CookieRecord), NEW c \in CookieRecord
  PROVE  /\ Elems(Append(l, c)) = Elems(l) \cup {c}
         /\ (\A k \in 1..Len(l) : l[k].name # c.name) =>
              {x \in Elems(l) : x.name # c.name} = Elems(l)
<1> DEFINE r == Append(l, c)
           n == Len(l)
<1>1. n \in Nat /\ Len(r) = n + 1 /\ r[n + 1] = c /\ \A k \in 1..n : r[k] = l[k]
  BY AppendProperties
<1> HIDE DEF r, n
<1>2. /\ \A k \in 1..(n + 1) : k = n + 1 \/ k \in 1..n
      /\ n + 1 \in 1..(n + 1) /\ \A k \in 1..n : k \in 1..(n + 1)
  BY <1>1
<1>3. Elems(r) = {r[k] : k \in 1..(n + 1)} /\ Elems(l) = {l[k] : k \in 1..n}
  BY <1>1 DEF Elems, n
<1>4. Elems(r) = Elems(l) \cup {c}
  <2>1. ASSUME NEW x \in Elems(r) PROVE x \in Elems(l) \cup {c}
    <3>1. PICK k \in 1..(n + 1) : x = r[k]
      BY <1>3
    <3>2. CASE k = n + 1
      BY <1>1, <3>1, <3>2
    <3>3. CASE k \in 1..n
      BY <1>1, <1>3, <3>1, <3>3
    <3> QED
      BY <1>2, <3>2, <3>3
  <2>2. c \in Elems(r)
    BY <1>1, <1>2, <1>3
  <2>3. ASSUME NEW x \in Elems(l) PROVE x \in Elems(r)
    <3>1. PICK k \in 1..n : x = l[k]
      BY <1>3
    <3> QED
      BY <1>1, <1>2, <1>3, <3>1
  <2> QED
    BY <2>1, <2>2, <2>3
<1>5. ASSUME \A k \in 1..n : l[k].name # c.name
      PROVE  {x \in Elems(l) : x.name # c.name} = Elems(l)
  BY <1>3, <1>5
<1> QED
  BY <1>4, <1>5 DEF r, n

\* Set in more detail: what is added, if the cookie has a name and a value.
SetAdds(s, r, c, m) ==
  /\ Elems(r.list) \subseteq Elems(s.list) \cup {c}
  /\ r.ws + (m + 2) >= s.ws
  /\ s.ws >= m + 2 =>
       /\ Elems(r.list) = {x \in Elems(s.list) : x.name # c.name} \cup {c}
       /\ (\A k \in 1..Len(s.list) : s.list[k].name # c.name) =>
            r.list = Append(s.list, c) /\ r.ws = s.ws - (m + 2)

LEMMA SetReads ==
  ASSUME NEW s \in CookieState, Once(s.list), NEW name \in CookieName, NEW value \in ValueOrEmpty
  PROVE  IF C!Empty(name, value) THEN C!Set(s, name, value) = s
         ELSE /\ [name |-> name, value |-> value] \in CookieRecord
              /\ SetAdds(s, C!Set(s, name, value), [name |-> name, value |-> value], Len(name))
<1> DEFINE l == s.list
           w == s.ws
           i == C!find_cookie(l, name)
           c == [name |-> name, value |-> value]
           r == C!Set(s, name, value)
           m == Len(name)
<1>0. l \in Seq(CookieRecord) /\ w \in Nat /\ Once(l) /\ m \in Nat \ {0}
  BY CookieNameLen DEF CookieState
<1>s. r = IF C!Empty(name, value) THEN s
          ELSE IF i # 0
          THEN [s EXCEPT !.list = IF w >= 1 THEN [l EXCEPT ![i] = c] ELSE l,
                         !.ws = C!Alloc(w, 1)]
          ELSE [s EXCEPT !.list = IF C!Fits(w, name) THEN Append(l, c) ELSE l,
                         !.ws = C!Alloc(C!Alloc(C!Alloc(w, 1), m), 1)]
  BY DEF C!Set
<1> SUFFICES ASSUME ~C!Empty(name, value) PROVE c \in CookieRecord /\ SetAdds(s, r, c, m)
  BY <1>s
<1>1. c \in CookieRecord /\ c.name = name
  BY DEF C!Empty, CookieRecord, ValueOrEmpty
<1>2. \/ i = 0 /\ \A k \in 1..Len(l) : l[k].name # name
      \/ i \in 1..Len(l) /\ l[i].name = name
  BY <1>0, FindCookie
<1>3. CASE i \in 1..Len(l) /\ l[i].name = name
  <2> DEFINE x == IF w >= 1 THEN [l EXCEPT ![i] = c] ELSE l
             v == C!Alloc(w, 1)
  <2>1. i # 0
    <3> HIDE DEF i, l
    <3> QED
      BY <1>0, <1>3
  <2>2. r = [s EXCEPT !.list = x, !.ws = v]
    BY <1>s, <2>1
  <2>3. v \in Nat /\ v + 1 >= w
    BY <1>0 DEF C!Alloc
  <2>4. Elems([l EXCEPT ![i] = c]) = {e \in Elems(l) : e.name # c.name} \cup {c}
    BY <1>0, <1>1, <1>3, ElemsReplaced
  <2>5. /\ Elems(x) \subseteq Elems(l) \cup {c}
        /\ w >= 1 => Elems(x) = {e \in Elems(l) : e.name # c.name} \cup {c}
    BY <2>4
  <2> HIDE DEF x, v
  <2>6. r.list = x /\ r.ws = v
    BY <2>2 DEF CookieState
  <2>7. v + (m + 2) >= w /\ (w >= m + 2 => w >= 1)
    <3> HIDE DEF w, m
    <3> QED
      BY <1>0, <2>3
  <2>8. ~(\A k \in 1..Len(l) : l[k].name # c.name)
    BY <1>1, <1>3
  <2> HIDE DEF r, c
  <2>9. SetAdds(s, r, c, m)
    BY <2>5, <2>6, <2>7, <2>8 DEF SetAdds
  <2> QED
    BY <1>1, <2>9
<1>4. CASE i = 0 /\ \A k \in 1..Len(l) : l[k].name # name
  <2> DEFINE x == IF C!Fits(w, name) THEN Append(l, c) ELSE l
             u == C!Alloc(w, 1)
             t == C!Alloc(u, m)
             v == C!Alloc(t, 1)
  <2>1. r = [s EXCEPT !.list = x, !.ws = v]
    BY <1>s, <1>4
  <2>2. u \in Nat /\ u + 1 >= w /\ (w >= 1 => u = w - 1)
    BY <1>0 DEF C!Alloc
  <2>3. t \in Nat /\ t + m >= u /\ (u >= m => t = u - m)
    <3> HIDE DEF u, m
    <3> QED
      BY <1>0, <2>2 DEF C!Alloc
  <2>4. v \in Nat /\ v + 1 >= t /\ (t >= 1 => v = t - 1)
    <3> HIDE DEF u, m, t
    <3> QED
      BY <1>0, <2>3 DEF C!Alloc
  <2>5. C!Fits(w, name) <=> w >= 1 /\ u >= m /\ t >= 1
    BY DEF C!Fits
  <2>6. v + (m + 2) >= w /\ (w >= m + 2 => w >= 1 /\ u >= m /\ t >= 1 /\ v = w - (m + 2))
    <3> HIDE DEF u, m, t, v, w
    <3> QED
      BY <1>0, <2>2, <2>3, <2>4
  <2>7. /\ Elems(Append(l, c)) = Elems(l) \cup {c}
        /\ {e \in Elems(l) : e.name # c.name} = Elems(l)
    BY <1>0, <1>1, <1>4, ElemsAppended
  <2>8. w >= m + 2 => x = Append(l, c)
    BY <2>5, <2>6
  <2>9. Elems(x) \subseteq Elems(l) \cup {c}
    BY <2>7
  <2> HIDE DEF x, v, u, t
  <2>10. r.list = x /\ r.ws = v
    BY <2>1 DEF CookieState
  <2> HIDE DEF r, c
  <2>11. SetAdds(s, r, c, m)
    BY <2>6, <2>7, <2>8, <2>9, <2>10 DEF SetAdds
  <2> QED
    BY <1>1, <2>11
<1> QED
  BY <1>2, <1>3, <1>4

\* The places up to k that give a value to a name, and those that give the
\* last one.
GivenTo(h, k) == {i \in C!Given(h) : i <= k}

LastTo(h, k) ==
  {i \in GivenTo(h, k) : \A j \in GivenTo(h, k) : j > i => C!NameAt(h, j) # C!NameAt(h, i)}

Read(h, i) == [name |-> C!NameAt(h, i), value |-> h[i][2]]

LEMMA ReadsIs ==
  ASSUME NEW h, NEW I
  PROVE  C!Reads(h, I) = {Read(h, i) : i \in I}
  BY DEF C!Reads, Read

LEMMA GivenNext ==
  ASSUME NEW h \in Seq(C!Piece), NEW k \in 0..(Len(h) - 1)
  PROVE  /\ k + 1 \notin C!Given(h) => GivenTo(h, k + 1) = GivenTo(h, k)
                                       /\ LastTo(h, k + 1) = LastTo(h, k)
         /\ k + 1 \in C!Given(h) =>
              /\ GivenTo(h, k + 1) = GivenTo(h, k) \cup {k + 1}
              /\ LastTo(h, k + 1) = {i \in LastTo(h, k) : C!NameAt(h, i) # C!NameAt(h, k + 1)}
                                    \cup {k + 1}
<1> DEFINE G == C!Given(h)
           A == GivenTo(h, k)
           B == GivenTo(h, k + 1)
<1>0. k \in Nat /\ G \in SUBSET Nat
  <2>1. DOMAIN h = 1..Len(h) /\ k \in Nat
    OBVIOUS
  <2>2. G \subseteq DOMAIN h
    BY DEF C!Given
  <2> QED
    BY <2>1, <2>2
<1> HIDE DEF G
<1>1. A = {i \in G : i <= k} /\ B = {i \in G : i <= k + 1}
  BY DEF GivenTo, G
<1>2. \A i \in G : i <= k + 1 <=> i <= k \/ i = k + 1
  BY <1>0
<1>3. ASSUME k + 1 \notin G PROVE B = A
  BY <1>1, <1>2, <1>3
<1>4. ASSUME k + 1 \notin G PROVE LastTo(h, k + 1) = LastTo(h, k)
  <2>1. GivenTo(h, k + 1) = GivenTo(h, k)
    BY <1>3, <1>4
  <2>2. \A X, Y : X = Y =>
          {i \in X : \A j \in X : j > i => C!NameAt(h, j) # C!NameAt(h, i)}
            = {i \in Y : \A j \in Y : j > i => C!NameAt(h, j) # C!NameAt(h, i)}
    OBVIOUS
  <2> QED
    BY <2>1, <2>2, Zenon DEF LastTo
<1>5. ASSUME k + 1 \in G PROVE B = A \cup {k + 1}
  BY <1>1, <1>2, <1>5
<1>6. ASSUME NEW i \in A PROVE i \in Nat /\ i <= k /\ k + 1 > i /\ ~(i > k + 1)
  <2>1. i \in Nat /\ i <= k
    BY <1>0, <1>1
  <2> QED
    BY <1>0, <2>1
<1>7. ~(k + 1 > k + 1)
  BY <1>0
<1> HIDE DEF A, B
<1>8. ASSUME k + 1 \in G
      PROVE  LastTo(h, k + 1) = {i \in LastTo(h, k) : C!NameAt(h, i) # C!NameAt(h, k + 1)}
                                \cup {k + 1}
  <2>1. LastTo(h, k) = {i \in A : \A j \in A : j > i => C!NameAt(h, j) # C!NameAt(h, i)}
    BY DEF LastTo, A
  <2>2. LastTo(h, k + 1) = {i \in B : \A j \in B : j > i => C!NameAt(h, j) # C!NameAt(h, i)}
    BY DEF LastTo, B
  <2>3. B = A \cup {k + 1}
    BY <1>5, <1>8
  <2>4. ASSUME NEW i \in LastTo(h, k + 1), i # k + 1
        PROVE  i \in LastTo(h, k) /\ C!NameAt(h, i) # C!NameAt(h, k + 1)
    BY <1>6, <2>1, <2>2, <2>3, <2>4
  <2>5. k + 1 \in LastTo(h, k + 1)
    BY <1>6, <1>7, <2>2, <2>3
  <2>6. ASSUME NEW i \in LastTo(h, k), C!NameAt(h, i) # C!NameAt(h, k + 1)
        PROVE  i \in LastTo(h, k + 1)
    BY <2>1, <2>2, <2>3, <2>6
  <2> QED
    BY <2>4, <2>5, <2>6
<1> QED
  BY <1>3, <1>4, <1>5, <1>8 DEF A, B, G

\* What parse has read after k pieces.
ReadTo(h, w, s, k) ==
  /\ Elems(s.list) \subseteq C!Reads(h, GivenTo(h, k))
  /\ s.ws + 3 * k >= w + Len(s.name)
  /\ 3 * Len(h) <= w => Elems(s.list) = C!Reads(h, LastTo(h, k))

LEMMA ReadNext ==
  ASSUME NEW h \in Seq(C!Piece), NEW w \in Nat, NEW k \in 0..(Len(h) - 1),
         NEW s \in CookieState, Once(s.list), NEW r \in CookieState,
         ReadTo(h, w, s, k), ParseTurn(s, r, h, k)
  PROVE  ReadTo(h, w, r, k + 1)
<1> DEFINE p == h[k + 1]
           name == C!NameAt(h, k + 1)
           n == Len(h)
           a == s.ws
           b == r.ws
           c == Len(s.name)
           d == Len(r.name)
<1>0. k + 1 \in 1..n /\ k + 1 \in DOMAIN h /\ n \in Nat /\ k \in Nat /\ p \in C!Piece
  OBVIOUS
<1>1. a \in Nat /\ b \in Nat /\ c \in Nat /\ d \in Nat
  BY DEF CookieState
<1>2. Len(p) \in {1, 2}
  BY <1>0, PieceType
<1>3. /\ Elems(s.list) \subseteq C!Reads(h, GivenTo(h, k))
      /\ a + 3 * k >= w + c
      /\ 3 * n <= w => Elems(s.list) = C!Reads(h, LastTo(h, k))
  BY DEF ReadTo
<1>q. ASSUME Elems(r.list) \subseteq C!Reads(h, GivenTo(h, k + 1)),
             b + 3 * (k + 1) >= w + d,
             3 * n <= w => Elems(r.list) = C!Reads(h, LastTo(h, k + 1))
      PROVE  ReadTo(h, w, r, k + 1)
  BY <1>q DEF ReadTo
<1>4. CASE Len(p) = 1
  <2>1. r.list = s.list /\ b = a /\ d = c + 1
    BY <1>4 DEF ParseTurn
  <2>2. k + 1 \notin C!Given(h)
    BY <1>4 DEF C!Given
  <2>3. GivenTo(h, k + 1) = GivenTo(h, k) /\ LastTo(h, k + 1) = LastTo(h, k)
    BY <2>2, GivenNext
  <2>4. b + 3 * (k + 1) >= w + d
    <3> HIDE DEF a, b, c, d
    <3> QED
      BY <1>0, <1>1, <1>3, <2>1
  <2> QED
    BY <1>3, <1>q, <2>1, <2>3, <2>4
<1>5. CASE Len(p) = 2
  <2> DEFINE x == C!Set(s, name, p[2])
             e == [name |-> name, value |-> p[2]]
             m == Len(name)
  <2>1. /\ r.list = x.list /\ b = x.ws /\ r.name = <<>>
        /\ name \in CookieName /\ p[2] \in ValueOrEmpty /\ m = c + 1
    BY <1>5 DEF ParseTurn
  <2>2. d = 0
    BY <2>1
  <2>3. /\ IF C!Empty(name, p[2]) THEN x = s ELSE SetAdds(s, x, e, m)
    BY <2>1, SetReads
  <2>4. CASE C!Empty(name, p[2])
    <3>1. k + 1 \notin C!Given(h)
      BY <2>4 DEF C!Given
    <3>2. GivenTo(h, k + 1) = GivenTo(h, k) /\ LastTo(h, k + 1) = LastTo(h, k)
      BY <3>1, GivenNext
    <3>3. r.list = s.list /\ b = a
      BY <2>1, <2>3, <2>4
    <3>4. b + 3 * (k + 1) >= w + d
      <4> HIDE DEF a, b, c, d
      <4> QED
        BY <1>0, <1>1, <1>3, <2>2, <3>3
    <3> QED
      BY <1>3, <1>q, <3>2, <3>3, <3>4
  <2>5. CASE ~C!Empty(name, p[2])
    <3>1. k + 1 \in C!Given(h)
      BY <1>0, <1>5, <2>5 DEF C!Given
    <3> DEFINE A == GivenTo(h, k)
               L == LastTo(h, k)
    <3>2. /\ GivenTo(h, k + 1) = A \cup {k + 1}
          /\ LastTo(h, k + 1) = {i \in L : C!NameAt(h, i) # name} \cup {k + 1}
      BY <3>1, GivenNext
    <3>3. e = Read(h, k + 1) /\ \A i : Read(h, i).name = C!NameAt(h, i)
      BY DEF Read
    <3>4. /\ Elems(r.list) \subseteq Elems(s.list) \cup {e}
          /\ b + (m + 2) >= a
          /\ a >= m + 2 => Elems(r.list) = {y \in Elems(s.list) : y.name # name} \cup {e}
      <4>1. e.name = name
        OBVIOUS
      <4>2. SetAdds(s, x, e, m)
        BY <2>3, <2>5
      <4> HIDE DEF x, e, m
      <4> QED
        BY <2>1, <4>1, <4>2 DEF SetAdds
    <3>5. b + 3 * (k + 1) >= w + d /\ (3 * n <= w => a >= m + 2)
      <4>1. m = c + 1 /\ b + (m + 2) >= a /\ a + 3 * k >= w + c /\ d = 0
        BY <1>3, <2>1, <2>2, <3>4
      <4>2. k \in Nat /\ n \in Nat /\ k + 1 <= n
        BY <1>0
      <4> HIDE DEF a, b, c, d, m, n
      <4> QED
        BY <1>1, <4>1, <4>2
    <3> HIDE DEF e, m, name
    <3>6. Elems(r.list) \subseteq C!Reads(h, A \cup {k + 1})
      <4>1. C!Reads(h, A) = {Read(h, i) : i \in A}
            /\ C!Reads(h, A \cup {k + 1}) = {Read(h, i) : i \in A \cup {k + 1}}
        BY ReadsIs
      <4>2. Elems(s.list) \subseteq C!Reads(h, A)
        BY <1>3
      <4> HIDE DEF A
      <4>3. ASSUME NEW y \in Elems(r.list) PROVE \E i \in A \cup {k + 1} : y = Read(h, i)
        <5>1. CASE y = e
          BY <3>3, <5>1
        <5>2. CASE y \in Elems(s.list)
          BY <4>1, <4>2, <5>2
        <5> QED
          BY <3>4, <5>1, <5>2
      <4> QED
        BY <4>1, <4>3
    <3>7. ASSUME 3 * n <= w PROVE Elems(r.list) = C!Reads(h, LastTo(h, k + 1))
      <4> DEFINE M == LastTo(h, k + 1)
      <4>1. C!Reads(h, L) = {Read(h, i) : i \in L} /\ C!Reads(h, M) = {Read(h, i) : i \in M}
        BY ReadsIs
      <4>2. Elems(s.list) = {Read(h, i) : i \in L}
        BY <1>3, <3>7, <4>1
      <4>3. Elems(r.list) = {y \in Elems(s.list) : y.name # name} \cup {e}
        BY <3>4, <3>5, <3>7
      <4>4. M = {i \in L : C!NameAt(h, i) # name} \cup {k + 1}
        BY <3>2
      <4> HIDE DEF L, M
      <4>5. Elems(r.list) = {Read(h, i) : i \in M}
        <5>1. ASSUME NEW y \in Elems(r.list) PROVE \E i \in M : y = Read(h, i)
          BY <3>3, <4>2, <4>3, <4>4
        <5>2. ASSUME NEW i \in M PROVE Read(h, i) \in Elems(r.list)
          BY <3>3, <4>2, <4>3, <4>4
        <5> QED
          BY <5>1, <5>2
      <4> QED
        BY <4>1, <4>5 DEF M
    <3> QED
      BY <1>q, <3>2, <3>5, <3>6, <3>7
  <2> QED
    BY <2>4, <2>5
<1> QED
  BY <1>2, <1>4, <1>5

LEMMA ParseReadsTo ==
  ASSUME NEW h \in Seq(C!Piece), NEW w \in Nat
  PROVE  ReadTo(h, w, C!Parse(h, w), Len(h)) /\ C!Parse(h, w).list \in Seq(CookieRecord)
<1> DEFINE n == Len(h)
<1>1. PICK turn : Parses(turn, h, w)
  BY ParseTurns
<1>2. /\ \A i \in 0..n : turn[i] \in CookieState /\ Once(turn[i].list)
      /\ turn[0].list = <<>> /\ turn[0].ws = w /\ turn[0].name = <<>>
      /\ \A i \in 0..(n - 1) : ParseTurn(turn[i], turn[i + 1], h, i)
  BY <1>1, ParseSteps
<1>3. C!Parse(h, w) = turn[n]
  BY <1>1 DEF Parses
<1>0. n \in Nat
  OBVIOUS
<1> DEFINE T == {k \in 0..n : ReadTo(h, w, turn[k], k)}
<1>4. 0 \in T
  <2>1. Elems(turn[0].list) = {} /\ Len(turn[0].name) = 0
    BY <1>2 DEF Elems
  <2>2. GivenTo(h, 0) = {} /\ LastTo(h, 0) = {}
    <3>1. C!Given(h) \subseteq DOMAIN h
      BY DEF C!Given
    <3>2. DOMAIN h = 1..n
      OBVIOUS
    <3>3. \A i \in C!Given(h) : ~(i <= 0)
      BY <1>0, <3>1, <3>2
    <3> QED
      BY <3>3 DEF GivenTo, LastTo
  <2>3. C!Reads(h, {}) = {}
    BY DEF C!Reads
  <2>4. w + 3 * 0 >= w + 0
    OBVIOUS
  <2>5. ReadTo(h, w, turn[0], 0)
    BY <1>2, <2>1, <2>2, <2>3, <2>4 DEF ReadTo
  <2> QED
    BY <1>0, <2>5
<1>5. ASSUME NEW k \in T, k < n PROVE k + 1 \in T
  <2>1. k \in 0..(n - 1) /\ k \in 0..n /\ k + 1 \in 0..n
    BY <1>0, <1>5
  <2>2. ReadTo(h, w, turn[k], k)
    BY <1>5
  <2>3. turn[k] \in CookieState /\ Once(turn[k].list) /\ turn[k + 1] \in CookieState
        /\ ParseTurn(turn[k], turn[k + 1], h, k)
    BY <1>2, <2>1
  <2>4. ReadTo(h, w, turn[k + 1], k + 1)
    BY <2>1, <2>2, <2>3, ReadNext
  <2> QED
    BY <2>1, <2>4
<1>6. T \in SUBSET (0..n)
  OBVIOUS
<1>7. n \in T /\ n \in 0..n
  <2> HIDE DEF T, n
  <2>1. T = 0..n
    BY <1>0, <1>4, <1>5, <1>6, UpTo
  <2> QED
    BY <1>0, <2>1
<1>8. turn[n].list \in Seq(CookieRecord)
  BY <1>2, <1>7 DEF CookieState
<1> QED
  BY <1>3, <1>7, <1>8

LEMMA ParseReadsLast ==
  ASSUME NEW h \in Seq(C!Piece), NEW w \in Nat
  PROVE  LET l == C!ToSet(C!Parse(h, w).list)
             lst == {i \in C!Given(h) :
                      \A j \in C!Given(h) : j > i => C!NameAt(h, j) # C!NameAt(h, i)}
         IN IF 3 * Len(h) <= w THEN l = C!Reads(h, lst) ELSE l \subseteq C!Reads(h, C!Given(h))
<1> DEFINE r == C!Parse(h, w).list
           G == C!Given(h)
           lst == {i \in G : \A j \in G : j > i => C!NameAt(h, j) # C!NameAt(h, i)}
<1>1. ReadTo(h, w, C!Parse(h, w), Len(h)) /\ r \in Seq(CookieRecord)
  BY ParseReadsTo
<1>2. GivenTo(h, Len(h)) = G
  <2>1. G \subseteq 1..Len(h)
    <3>1. DOMAIN h = 1..Len(h)
      OBVIOUS
    <3> QED
      BY <3>1 DEF C!Given
  <2>2. \A i \in 1..Len(h) : i <= Len(h)
    OBVIOUS
  <2> HIDE DEF G
  <2>3. {i \in G : i <= Len(h)} = G
    BY <2>1, <2>2
  <2> QED
    BY <2>3 DEF GivenTo, G
<1>3. LastTo(h, Len(h)) = lst
  <2> HIDE DEF G
  <2> QED
    BY <1>2, Zenon DEF LastTo
<1>4. C!ToSet(r) = Elems(r)
  <2>1. DOMAIN r = 1..Len(r)
    BY <1>1
  <2> QED
    BY <2>1 DEF C!ToSet, Elems
<1> HIDE DEF G, lst
<1>5. /\ Elems(r) \subseteq C!Reads(h, G)
      /\ 3 * Len(h) <= w => Elems(r) = C!Reads(h, lst)
  BY <1>1, <1>2, <1>3 DEF ReadTo
<1> QED
  BY <1>4, <1>5 DEF G, lst

\* cookie.parse makes of a Cookie header what it says, whatever the workspace
\* is when it is called: of each name the last value, if there is room for
\* all, and otherwise nothing that the header does not have.
THEOREM TaskParseReads == Spec => []ParseReads
<1>1. TaskInv => ParseReads
  <2> SUFFICES ASSUME TaskInv PROVE ParseReads
    OBVIOUS
  <2>1. ws \in Nat /\ CookieHeader \subseteq Seq(C!Piece)
    BY TaskAssumption DEF TaskInv, CookieInv
  <2> QED
    BY <2>1, ParseReadsLast DEF ParseReads, C!ParseReads
<1> QED
  BY <1>1, TaskInvInit, TaskInvNext, PTL DEF Spec

-----------------------------------------------------------------------------
(***************************************************************************)
(* The text that get_string writes.                                        *)
(***************************************************************************)
PieceText(c) ==
  [j \in 1..Len(c.name) |-> IF j < Len(c.name) THEN <<c.name[j]>> ELSE <<c.name[j], c.value>>]

LEMMA PieceTextType ==
  ASSUME NEW c \in CookieRecord
  PROVE  /\ Len(c.name) \in Nat \ {0}
         /\ PieceText(c) \in Seq(C!Piece) /\ Len(PieceText(c)) = Len(c.name)
         /\ \A j \in 1..Len(c.name) :
              /\ PieceText(c)[j][1] = c.name[j]
              /\ IF j < Len(c.name) THEN Len(PieceText(c)[j]) = 1
                 ELSE Len(PieceText(c)[j]) = 2 /\ PieceText(c)[j][2] = c.value
<1> DEFINE name == c.name
           n == Len(name)
<1>1. name \in CookieName /\ c.value \in Value
  BY DEF CookieRecord
<1>2. n \in Nat \ {0} /\ name \in Seq(AtomOrEmpty)
  BY <1>1, CookieNameLen
<1>3. \A j \in 1..n : PieceText(c)[j] = IF j < n THEN <<name[j]>> ELSE <<name[j], c.value>>
  BY DEF PieceText
<1>4. \A j \in 1..n : name[j] \in AtomOrEmpty
  BY <1>2
<1>5. \A a \in AtomOrEmpty : <<a>> \in C!Piece /\ \A v \in Value : <<a, v>> \in C!Piece
  BY DEF C!Piece, AtomOrEmpty
<1>6. \A j \in 1..n : PieceText(c)[j] \in C!Piece
  BY <1>1, <1>3, <1>4, <1>5
<1>7. PieceText(c) \in [1..n -> C!Piece]
  BY <1>6 DEF PieceText
<1>8. PieceText(c) \in Seq(C!Piece) /\ Len(PieceText(c)) = n
  <2> HIDE DEF n
  <2> QED
    BY <1>2, <1>7
<1>9. ASSUME NEW j \in 1..n
      PROVE  /\ PieceText(c)[j][1] = name[j]
             /\ IF j < n THEN Len(PieceText(c)[j]) = 1
                ELSE Len(PieceText(c)[j]) = 2 /\ PieceText(c)[j][2] = c.value
  <2>1. CASE j < n
    <3>1. PieceText(c)[j] = <<name[j]>>
      BY <1>3, <2>1
    <3> QED
      BY <2>1, <3>1
  <2>2. CASE ~(j < n)
    <3>1. PieceText(c)[j] = <<name[j], c.value>>
      BY <1>3, <2>2
    <3> QED
      BY <2>2, <3>1
  <2> QED
    BY <2>1, <2>2
<1> QED
  BY <1>2, <1>8, <1>9

\* FlattenSeq, one sequence after the other.
Flattens(fl, S, q) ==
  /\ fl \in [0..Len(q) -> Seq(S)]
  /\ fl[0] = <<>>
  /\ \A i \in 1..Len(q) : fl[i] = fl[i - 1] \o q[i]
  /\ C!FlattenSeq(q) = fl[Len(q)]

LEMMA FlattenSteps ==
  ASSUME NEW S, NEW q \in Seq(Seq(S))
  PROVE  \E fl : Flattens(fl, S, q)
<1> DEFINE n == Len(q)
           Step(f, i) == IF i = 1 THEN q[i] ELSE f[i - 1] \o q[i]
           IsFlat(f) == f = [i \in 1..n |-> Step(f, i)]
           g == [x \in Seq(S) \X (1..n) |-> x[1] \o q[x[2]]]
           e == CHOOSE f : IsFlat(f)
<1>0. n \in Nat /\ \A i \in 1..n : q[i] \in Seq(S)
  OBVIOUS
<1>1. C!FlattenSeq(q) = IF n = 0 THEN q ELSE e[n]
  BY DEF C!FlattenSeq
<1>2. n = 0 => q = <<>>
  OBVIOUS
<1> HIDE DEF n
<1>3. g \in [Seq(S) \X (1..n) -> Seq(S)]
  <2>1. ASSUME NEW x \in Seq(S) \X (1..n) PROVE g[x] \in Seq(S)
    <3>1. x[1] \in Seq(S) /\ q[x[2]] \in Seq(S)
      BY <1>0
    <3>2. x[1] \o q[x[2]] \in Seq(S)
      BY <3>1, ConcatProperties
    <3> QED
      BY <3>2
  <2> QED
    BY <2>1
<1>4. \A y \in Seq(S), i \in 1..n : g[<<y, i>>] = y \o q[i]
  OBVIOUS
<1> HIDE DEF g
<1>5. PICK f : Recursive(f, n, Seq(S), <<>>, g)
  <2>1. <<>> \in Seq(S)
    OBVIOUS
  <2> QED
    BY <1>0, <1>3, <2>1, Recursion
<1>6. f \in [0..n -> Seq(S)] /\ f[0] = <<>> /\ \A i \in 1..n : f[i] = g[<<f[i - 1], i>>]
  BY <1>5 DEF Recursive
<1>7. ASSUME NEW i \in 1..n PROVE f[i] = f[i - 1] \o q[i] /\ (i = 1 => f[i] = q[i])
  <2>1. i - 1 \in 0..n
    BY <1>0
  <2>2. f[i] = f[i - 1] \o q[i]
    BY <1>4, <1>6, <2>1
  <2>3. ASSUME i = 1 PROVE f[i] = q[i]
    <3>0. i - 1 = 0 /\ q[i] \in Seq(S)
      BY <1>0, <2>3
    <3>1. f[i] = <<>> \o q[i] /\ q[i] \in Seq(S)
      BY <1>6, <2>2, <3>0
    <3>2. <<>> \o q[i] = q[i]
      BY <3>1, ConcatEmptySeq
    <3> QED
      BY <3>1, <3>2
  <2> QED
    BY <2>2, <2>3
<1> DEFINE h == [i \in 1..n |-> f[i]]
<1>8. ASSUME NEW i \in 1..n PROVE h[i] = Step(h, i)
  <2>1. h[i] = f[i]
    OBVIOUS
  <2>2. CASE i = 1
    BY <1>7, <2>1, <2>2
  <2>3. CASE i # 1
    <3>1. i - 1 \in 1..n
      BY <1>0, <2>3
    <3>2. h[i - 1] = f[i - 1]
      BY <3>1
    <3> HIDE DEF h
    <3> QED
      BY <1>7, <2>1, <2>3, <3>2
  <2> QED
    BY <2>2, <2>3
<1>9. IsFlat(h)
  <2> HIDE DEF Step
  <2>1. h = [i \in 1..n |-> h[i]]
    OBVIOUS
  <2> HIDE DEF h
  <2> QED
    BY <1>8, <2>1
<1>10. IsFlat(e)
  <2> HIDE DEF IsFlat
  <2> QED
    BY <1>9
<1> HIDE DEF e
<1>11. \A i \in 1..n : e[i] = Step(e, i)
  <2> HIDE DEF Step
  <2> QED
    BY <1>10
<1> DEFINE T == {i \in 0..n : i = 0 \/ e[i] = f[i]}
<1>12. 0 \in T
  BY <1>0
<1>13. ASSUME NEW i \in T, i < n PROVE i + 1 \in T
  <2>1. i + 1 \in 1..n /\ i + 1 \in 0..n /\ (i + 1) - 1 = i
    BY <1>0, <1>13
  <2>2. CASE i = 0
    <3>1. i + 1 = 1
      BY <2>2
    <3>2. e[1] = q[1] /\ f[1] = q[1]
      BY <1>7, <1>11, <2>1, <3>1
    <3> QED
      BY <2>1, <3>1, <3>2
  <2>3. CASE i # 0
    <3>1. e[i] = f[i] /\ i + 1 # 1
      BY <1>0, <1>13, <2>3
    <3>2. e[i + 1] = e[i] \o q[i + 1]
      BY <1>11, <2>1, <3>1
    <3>3. f[i + 1] = f[i] \o q[i + 1]
      BY <1>7, <2>1
    <3> QED
      BY <2>1, <3>1, <3>2, <3>3
  <2> QED
    BY <2>2, <2>3
<1>14. T \in SUBSET (0..n)
  OBVIOUS
<1>15. n = 0 \/ e[n] = f[n]
  <2> HIDE DEF T
  <2>1. T = 0..n
    BY <1>0, <1>12, <1>13, <1>14, UpTo
  <2>2. n \in T
    BY <1>0, <2>1
  <2> QED
    BY <2>2 DEF T
<1>16. C!FlattenSeq(q) = f[n]
  BY <1>1, <1>2, <1>6, <1>15
<1>17. Flattens(f, S, q)
  BY <1>6, <1>7, <1>16 DEF Flattens, n
<1> QED
  BY <1>17

\* The text of i cookies: the last piece of the k-th is at pos[k].
Lays(t, pos, l, i) ==
  /\ t \in Seq(C!Piece) /\ Len(t) = pos[i]
  /\ \A k \in 1..i :
       /\ pos[k] <= pos[i]
       /\ \A j \in 1..Len(l[k].name) : t[pos[k - 1] + j] = PieceText(l[k])[j]
  /\ \A p \in 1..Len(t) : \E k \in 1..i : \E j \in 1..Len(l[k].name) : p = pos[k - 1] + j

LEMMA LaysNext ==
  ASSUME NEW l \in Seq(CookieRecord), NEW i \in 0..(Len(l) - 1), NEW t, NEW r, NEW pos,
         \A k \in 0..Len(l) : pos[k] \in Nat,
         \A k \in 1..Len(l) : pos[k] = pos[k - 1] + Len(l[k].name),
         Lays(t, pos, l, i), r = t \o PieceText(l[i + 1])
  PROVE  Lays(r, pos, l, i + 1)
<1> DEFINE c == l[i + 1]
           x == PieceText(c)
           n == Len(c.name)
           a == pos[i]
           b == pos[i + 1]
           m == Len(l)
<1>0. /\ i \in Nat /\ m \in Nat /\ i + 1 \in 1..m /\ i + 1 \in 0..m /\ (i + 1) - 1 = i /\ i \in 0..m
      /\ \A k \in 1..i : k \in 1..m /\ k \in 0..m /\ k - 1 \in 0..m /\ k \in 1..(i + 1)
  OBVIOUS
<1>1. c \in CookieRecord
  BY <1>0
<1>2. n \in Nat \ {0} /\ x \in Seq(C!Piece) /\ Len(x) = n
  BY <1>1, PieceTextType
<1>3. /\ t \in Seq(C!Piece) /\ Len(t) = a
      /\ \A k \in 1..i :
           /\ pos[k] <= a
           /\ \A j \in 1..Len(l[k].name) : t[pos[k - 1] + j] = PieceText(l[k])[j]
      /\ \A p \in 1..a : \E k \in 1..i : \E j \in 1..Len(l[k].name) : p = pos[k - 1] + j
  BY DEF Lays
<1>4. a \in Nat /\ b \in Nat /\ b = a + n
  BY <1>0
<1>5. /\ r \in Seq(C!Piece) /\ Len(r) = a + n
      /\ \A p \in 1..(a + n) : r[p] = IF p <= a THEN t[p] ELSE x[p - a]
  <2>1. r = t \o x
    OBVIOUS
  <2>2. t \in Seq(C!Piece) /\ Len(t) = a
    BY <1>3
  <2> HIDE DEF x, n, a
  <2>5. x \in Seq(C!Piece)
    BY <1>2
  <2>3. /\ t \o x \in Seq(C!Piece) /\ Len(t \o x) = Len(t) + Len(x)
        /\ \A p \in 1..(Len(t) + Len(x)) :
             (t \o x)[p] = IF p <= Len(t) THEN t[p] ELSE x[p - Len(t)]
    <3>1. \A S : \A u, v \in Seq(S) :
            /\ u \o v \in Seq(S) /\ Len(u \o v) = Len(u) + Len(v)
            /\ \A p \in 1..(Len(u) + Len(v)) :
                 (u \o v)[p] = IF p <= Len(u) THEN u[p] ELSE v[p - Len(u)]
      BY ConcatProperties
    <3>2. t \in Seq(C!Piece)
      BY <2>2
    <3> QED
      BY <3>1, <3>2, <2>5, ZenonT(60)
  <2>4. Len(x) = n
    BY <1>2
  <2> QED
    BY <2>1, <2>2, <2>3, <2>4
<1>6. ASSUME NEW k \in 1..i, NEW j \in 1..Len(l[k].name)
      PROVE  r[pos[k - 1] + j] = PieceText(l[k])[j]
  <2> DEFINE d == pos[k - 1]
             f == Len(l[k].name)
  <2>1. l[k] \in CookieRecord
    BY <1>0
  <2>2. f \in Nat /\ d \in Nat /\ pos[k] = d + f /\ pos[k] <= a
    <3>1. f \in Nat
      BY <2>1, PieceTextType
    <3> QED
      BY <1>0, <1>3, <3>1
  <2>3. d + f <= a /\ j \in 1..f
    <3> HIDE DEF d, f, a
    <3> QED
      BY <2>2 DEF f
  <2>4. d + j \in 1..(a + n) /\ d + j <= a
    <3> HIDE DEF d, f, a, n
    <3> QED
      BY <1>2, <1>4, <2>2, <2>3
  <2>5. r[d + j] = t[d + j]
    <3> HIDE DEF d, a, n
    <3> QED
      BY <1>5, <2>4
  <2> QED
    BY <1>3, <2>5
<1>7. ASSUME NEW j \in 1..n PROVE r[a + j] = x[j]
  <2>1. a + j \in 1..(a + n) /\ ~(a + j <= a) /\ (a + j) - a = j
    <3> HIDE DEF a, n
    <3> QED
      BY <1>2, <1>4
  <2> HIDE DEF a, n, x
  <2> QED
    BY <1>5, <2>1
<1>8. ASSUME NEW k \in 1..(i + 1)
      PROVE  /\ pos[k] <= b
             /\ \A j \in 1..Len(l[k].name) : r[pos[k - 1] + j] = PieceText(l[k])[j]
  <2>1. CASE k = i + 1
    <3>1. pos[k] = b /\ pos[k - 1] = a /\ b <= b
      BY <1>0, <1>4, <2>1
    <3> QED
      BY <1>7, <2>1, <3>1
  <2>2. CASE k \in 1..i
    <3>1. pos[k] <= a /\ pos[k] \in Nat
      BY <1>0, <1>3, <2>2
    <3> DEFINE e == pos[k]
    <3>2. e <= b
      <4> HIDE DEF e, a, b, n
      <4> QED
        BY <1>2, <1>4, <3>1 DEF e
    <3> QED
      BY <1>6, <2>2, <3>2
  <2>3. k = i + 1 \/ k \in 1..i
    BY <1>0
  <2> QED
    BY <2>1, <2>2, <2>3
<1>9. ASSUME NEW p \in 1..(a + n)
      PROVE  \E k \in 1..(i + 1) : \E j \in 1..Len(l[k].name) : p = pos[k - 1] + j
  <2>1. CASE p \in 1..a
    <3>1. PICK k \in 1..i : \E j \in 1..Len(l[k].name) : p = pos[k - 1] + j
      BY <1>3, <2>1
    <3>2. k \in 1..(i + 1)
      BY <1>0
    <3> QED
      BY <3>1, <3>2
  <2>2. CASE p \notin 1..a
    <3>1. p - a \in 1..n /\ p = a + (p - a)
      <4> HIDE DEF a, n
      <4> QED
        BY <1>2, <1>4, <2>2
    <3>2. i + 1 \in 1..(i + 1)
      BY <1>0
    <3>3. p = pos[(i + 1) - 1] + (p - a) /\ p - a \in 1..Len(l[i + 1].name)
      BY <1>0, <3>1
    <3> QED
      BY <3>2, <3>3
  <2> QED
    BY <2>1, <2>2
<1>10. Len(r) = b
  BY <1>4, <1>5
<1> HIDE DEF a, b, n, x
<1>11. \A p \in 1..Len(r) : \E k \in 1..(i + 1) : \E j \in 1..Len(l[k].name) : p = pos[k - 1] + j
  BY <1>5, <1>9, ZenonT(60)
<1> QED
  BY <1>5, <1>8, <1>10, <1>11 DEF Lays, b

\* The text of all cookies.
Laid(t, pos, l) ==
  /\ pos \in [0..Len(l) -> Nat] /\ pos[0] = 0
  /\ \A k \in 1..Len(l) : pos[k] = pos[k - 1] + Len(l[k].name)
  /\ Lays(t, pos, l, Len(l))

LEMMA TextLaid ==
  ASSUME NEW l \in Seq(CookieRecord)
  PROVE  \E pos : Laid(C!CookieText(l), pos, l)
<1> DEFINE m == Len(l)
           q == [i \in 1..m |-> PieceText(l[i])]
<1>1. m \in Nat /\ DOMAIN l = 1..m /\ \A i \in 1..m : l[i] \in CookieRecord
  OBVIOUS
<1>2. \A i \in 1..m : /\ PieceText(l[i]) \in Seq(C!Piece)
                      /\ Len(PieceText(l[i])) = Len(l[i].name) /\ Len(l[i].name) \in Nat
  BY <1>1, PieceTextType
<1>3. C!CookieText(l) = C!FlattenSeq(q)
  BY <1>1 DEF C!CookieText, PieceText
<1> HIDE DEF m
<1>4. q \in Seq(Seq(C!Piece)) /\ Len(q) = m /\ \A i \in 1..m : q[i] = PieceText(l[i])
  <2>1. q \in [1..m -> Seq(C!Piece)]
    BY <1>2
  <2> QED
    BY <1>1, <2>1
<1> HIDE DEF q
<1>5. PICK fl : Flattens(fl, C!Piece, q)
  BY <1>4, FlattenSteps
<1>6. /\ fl \in [0..m -> Seq(C!Piece)] /\ fl[0] = <<>>
      /\ \A i \in 1..m : fl[i] = fl[i - 1] \o q[i]
      /\ C!FlattenSeq(q) = fl[m]
  BY <1>4, <1>5 DEF Flattens
<1> DEFINE pos == [i \in 0..m |-> Len(fl[i])]
<1>7. pos \in [0..m -> Nat] /\ \A i \in 0..m : pos[i] = Len(fl[i]) /\ fl[i] \in Seq(C!Piece)
  BY <1>6
<1>8. pos[0] = 0
  BY <1>1, <1>6
<1> HIDE DEF pos
<1>9. ASSUME NEW k \in 1..m
      PROVE  pos[k] = pos[k - 1] + Len(l[k].name) /\ fl[k] = fl[k - 1] \o PieceText(l[k])
  <2>1. k \in 0..m /\ k - 1 \in 0..m
    BY <1>1
  <2>2. fl[k] = fl[k - 1] \o PieceText(l[k]) /\ fl[k - 1] \in Seq(C!Piece)
    BY <1>4, <1>6, <1>7, <2>1
  <2>3. Len(fl[k]) = Len(fl[k - 1]) + Len(PieceText(l[k]))
    BY <1>2, <2>2, ConcatProperties
  <2> QED
    BY <1>2, <1>7, <2>1, <2>2, <2>3
<1>10. \A k \in 0..m : pos[k] \in Nat
  BY <1>7
<1> DEFINE T == {i \in 0..m : Lays(fl[i], pos, l, i)}
<1>11. 0 \in T
  <2>1. <<>> \in Seq(C!Piece) /\ Len(<<>>) = 0 /\ 1..0 = {}
    OBVIOUS
  <2>2. Lays(fl[0], pos, l, 0)
    BY <1>6, <1>8, <2>1 DEF Lays
  <2> QED
    BY <1>1, <2>2
<1>12. ASSUME NEW i \in T, i < m PROVE i + 1 \in T
  <2>1. i \in 0..(Len(l) - 1) /\ i + 1 \in 1..m /\ (i + 1) - 1 = i /\ i + 1 \in 0..m
    BY <1>1, <1>12 DEF m
  <2>2. fl[i + 1] = fl[i] \o PieceText(l[i + 1])
    BY <1>9, <2>1
  <2>3. Lays(fl[i + 1], pos, l, i + 1)
    <3>1. \A k \in 0..Len(l) : pos[k] \in Nat
      BY <1>10 DEF m
    <3>2. \A k \in 1..Len(l) : pos[k] = pos[k - 1] + Len(l[k].name)
      BY <1>9 DEF m
    <3>3. Lays(fl[i], pos, l, i)
      OBVIOUS
    <3> QED
      BY <2>1, <2>2, <3>1, <3>2, <3>3, LaysNext
  <2> QED
    BY <2>1, <2>3
<1>13. T \in SUBSET (0..m)
  OBVIOUS
<1>14. Lays(fl[m], pos, l, m)
  <2> HIDE DEF T
  <2>1. T = 0..m
    BY <1>1, <1>11, <1>12, <1>13, UpTo
  <2>2. m \in T
    BY <1>1, <2>1
  <2> QED
    BY <2>2 DEF T
<1>15. Laid(C!CookieText(l), pos, l)
  BY <1>3, <1>6, <1>7, <1>8, <1>9, <1>14 DEF Laid, m
<1> QED
  BY <1>15

\* The places of a text of cookies that have a value, in their order.
LEMMA LaidOrder ==
  ASSUME NEW l \in Seq(CookieRecord), NEW t, NEW pos, Laid(t, pos, l)
  PROVE  \A k \in 0..Len(l) : \A i \in 0..k : pos[k] \in Nat /\ pos[i] \in Nat /\ pos[i] + (k - i) <= pos[k]
<1> DEFINE m == Len(l)
           T == {k \in 0..m : \A i \in 0..k : pos[i] + (k - i) <= pos[k]}
<1>1. m \in Nat
  OBVIOUS
<1>2. /\ \A k \in 0..m : pos[k] \in Nat
      /\ \A k \in 1..m : pos[k] = pos[k - 1] + Len(l[k].name)
  BY DEF Laid
<1>3. \A k \in 1..m : Len(l[k].name) \in Nat \ {0}
  <2>1. \A k \in 1..m : l[k] \in CookieRecord
    OBVIOUS
  <2> QED
    BY <2>1, PieceTextType
<1> HIDE DEF m
<1>4. 0 \in T
  BY <1>1, <1>2
<1>5. ASSUME NEW k \in T, k < m PROVE k + 1 \in T
  <2>1. k + 1 \in 1..m /\ k + 1 \in 0..m /\ (k + 1) - 1 = k /\ k \in Nat /\ k \in 0..m
    BY <1>1, <1>5
  <2> DEFINE a == pos[k]
             b == pos[k + 1]
             n == Len(l[k + 1].name)
  <2>2. a \in Nat /\ b \in Nat /\ n \in Nat /\ n >= 1 /\ b = a + n
    BY <1>2, <1>3, <2>1
  <2>3. ASSUME NEW i \in 0..(k + 1) PROVE pos[i] + ((k + 1) - i) <= b
    <3>1. CASE i = k + 1
      <4>1. pos[i] = b /\ (k + 1) - i = 0
        BY <2>1, <3>1
      <4>2. b + 0 <= b
        <5> HIDE DEF a, b, n
        <5> QED
          BY <2>2
      <4>3. pos[i] + ((k + 1) - i) = b + 0
        BY <4>1, Zenon
      <4> QED
        BY <4>2, <4>3, Zenon
    <3>2. CASE i \in 0..k
      <4>0. \A x \in 0..k : pos[x] + (k - x) <= pos[k]
        OBVIOUS
      <4>1. pos[i] + (k - i) <= a /\ i \in 0..m
        <5>1. i \in 0..m
          BY <1>1, <2>1, <3>2
        <5> HIDE DEF T
        <5> QED
          BY <3>2, <4>0, <5>1, Zenon
      <4>2. pos[i] \in Nat
        BY <1>2, <4>1
      <4> DEFINE c == pos[i]
      <4>3. c + (k - i) <= a /\ c \in Nat
        BY <4>1, <4>2
      <4> HIDE DEF a, b, c, n
      <4>4. c + ((k + 1) - i) <= b
        BY <2>1, <2>2, <4>3
      <4> QED
        BY <4>4 DEF c
    <3> QED
      BY <2>1, <3>1, <3>2
  <2> QED
    BY <2>1, <2>3
<1>6. T \in SUBSET (0..m)
  OBVIOUS
<1>7. T = 0..m
  <2> HIDE DEF T
  <2> QED
    BY <1>1, <1>4, <1>5, <1>6, UpTo
<1>8. \A k \in 0..m : \A i \in 0..k : i \in 0..m
  BY <1>1
<1> QED
  BY <1>2, <1>7, <1>8 DEF m

\* Which places of the text end a cookie, and what stands there.
LEMMA LaidEnds ==
  ASSUME NEW l \in Seq(CookieRecord), NEW t, NEW pos, Laid(t, pos, l), NEW k \in 1..Len(l)
  PROVE  /\ pos[k] \in 1..Len(t) /\ Len(t[pos[k]]) = 2 /\ t[pos[k]][2] = l[k].value
         /\ C!NameAt(t, pos[k]) = l[k].name
         /\ \A p \in (pos[k - 1] + 1)..(pos[k] - 1) : Len(t[p]) = 1
<1> DEFINE m == Len(l)
           a == pos[k - 1]
           b == pos[k]
           c == l[k]
           n == Len(c.name)
<1>1. m \in Nat /\ k \in 0..m /\ k - 1 \in 0..m /\ c \in CookieRecord
  OBVIOUS
<1>2. /\ n \in Nat \ {0}
      /\ \A j \in 1..n : /\ PieceText(c)[j][1] = c.name[j]
                        /\ IF j < n THEN Len(PieceText(c)[j]) = 1
                           ELSE Len(PieceText(c)[j]) = 2 /\ PieceText(c)[j][2] = c.value
  BY <1>1, PieceTextType
<1>3. c.name \in Seq(AtomOrEmpty)
  <2>1. c.name \in CookieName
    BY <1>1 DEF CookieRecord
  <2> QED
    BY <2>1, CookieNameLen
<1>4. /\ a \in Nat /\ b \in Nat /\ b = a + n
      /\ b <= Len(t) /\ Len(t) \in Nat
      /\ \A j \in 1..n : t[a + j] = PieceText(c)[j]
  <2>1. pos[k] <= pos[m] /\ Len(t) = pos[m] /\ m \in 0..m
    BY <1>1 DEF Laid, Lays
  <2> QED
    BY <1>1, <2>1, ZenonT(60) DEF Laid, Lays
<1>5. \A j \in 1..n : /\ t[a + j][1] = c.name[j]
                     /\ IF j < n THEN Len(t[a + j]) = 1
                        ELSE Len(t[a + j]) = 2 /\ t[a + j][2] = c.value
  <2> SUFFICES ASSUME NEW j \in 1..n
               PROVE  /\ t[a + j][1] = c.name[j]
                      /\ IF j < n THEN Len(t[a + j]) = 1
                         ELSE Len(t[a + j]) = 2 /\ t[a + j][2] = c.value
    OBVIOUS
  <2>1. t[a + j] = PieceText(c)[j]
    BY <1>4
  <2> HIDE DEF a, c, n
  <2> QED
    BY <1>2, <2>1
<1> HIDE DEF a, b, n
<1>6. b \in 1..Len(t) /\ Len(t[b]) = 2 /\ t[b][2] = c.value
  <2>1. n \in 1..n /\ ~(n < n)
    BY <1>2
  <2> QED
    BY <1>2, <1>4, <1>5, <2>1
<1>7. ASSUME NEW p \in (a + 1)..(b - 1) PROVE Len(t[p]) = 1
  <2>1. p - a \in 1..n /\ p - a < n /\ a + (p - a) = p
    BY <1>2, <1>4
  <2> QED
    BY <1>5, <2>1
<1>8. a + 1 = 1 \/ Len(t[(a + 1) - 1]) = 2
  <2>1. CASE k = 1
    <3>1. a = 0
      BY <2>1 DEF Laid, a
    <3> QED
      BY <3>1
  <2>2. CASE k # 1
    <3> DEFINE d == l[k - 1]
               e == pos[(k - 1) - 1]
               u == Len(d.name)
    <3>1. k - 1 \in 1..m /\ (k - 1) - 1 \in 0..m /\ d \in CookieRecord
      BY <1>1, <2>2
    <3>2. /\ u \in Nat \ {0}
          /\ \A j \in 1..u : IF j < u THEN Len(PieceText(d)[j]) = 1
                             ELSE Len(PieceText(d)[j]) = 2 /\ PieceText(d)[j][2] = d.value
      BY <3>1, PieceTextType
    <3>3. e \in Nat /\ a = e + u /\ \A j \in 1..u : t[e + j] = PieceText(d)[j]
      BY <1>1, <3>1 DEF Laid, Lays, a
    <3>4. u \in 1..u /\ ~(u < u)
      <4> HIDE DEF u
      <4> QED
        BY <3>2
    <3>5. Len(t[a]) = 2
      BY <3>2, <3>3, <3>4
    <3>6. (a + 1) - 1 = a
      BY <1>4
    <3> QED
      BY <3>5, <3>6
  <2> QED
    BY <2>1, <2>2
<1>9. Begins(t, b, a + 1)
  <2>1. a + 1 \in 1..b
    BY <1>2, <1>4
  <2> QED
    BY <1>7, <1>8, <2>1 DEF Begins
<1>10. C!NameAt(t, b) = [j \in 1..(b - (a + 1) + 1) |-> t[(a + 1) + j - 1][1]]
  <2> DEFINE d == a + 1
  <2>1. b \in Nat /\ Begins(t, b, d)
    BY <1>4, <1>9
  <2> HIDE DEF d
  <2>2. C!NameAt(t, b) = [j \in 1..(b - d + 1) |-> t[d + j - 1][1]]
    BY <2>1, NameBegins
  <2> QED
    BY <2>2 DEF d
<1>11. C!NameAt(t, b) = c.name
  <2>1. b - (a + 1) + 1 = n
    BY <1>2, <1>4
  <2>2. \A j \in 1..n : (a + 1) + j - 1 = a + j
    BY <1>2, <1>4
  <2>3. c.name = [j \in 1..n |-> c.name[j]]
    BY <1>3 DEF n
  <2>4. \A j \in 1..n : t[(a + 1) + j - 1][1] = c.name[j]
    BY <1>5, <2>2
  <2> QED
    BY <1>10, <2>1, <2>3, <2>4
<1>12. \A p \in (pos[k - 1] + 1)..(pos[k] - 1) : Len(t[p]) = 1
  BY <1>7, Zenon DEF a, b
<1>13. b \in 1..Len(t) /\ Len(t[b]) = 2 /\ t[b][2] = l[k].value /\ C!NameAt(t, b) = l[k].name
  BY <1>6, <1>11, Zenon
<1> QED
  BY <1>12, <1>13, Zenon DEF b

LEMMA NotEmpty ==
  ASSUME NEW c \in CookieRecord
  PROVE  ~C!Empty(c.name, c.value) /\ c = [name |-> c.name, value |-> c.value]
  BY DEF CookieRecord, C!Empty

\* The text gives each cookie its value, once.
LEMMA TextGives ==
  ASSUME NEW l \in Seq(CookieRecord), Once(l), NEW t, NEW pos, Laid(t, pos, l)
  PROVE  /\ C!Reads(t, C!Given(t)) = C!ToSet(l)
         /\ \A i, j \in C!Given(t) : C!NameAt(t, i) = C!NameAt(t, j) => i = j
<1> DEFINE m == Len(l)
           G == C!Given(t)
<1>1. m \in Nat /\ DOMAIN l = 1..m /\ \A k \in 1..m : l[k] \in CookieRecord
  OBVIOUS
<1>2. \A k \in 1..m :
        /\ pos[k] \in 1..Len(t) /\ Len(t[pos[k]]) = 2 /\ t[pos[k]][2] = l[k].value
        /\ C!NameAt(t, pos[k]) = l[k].name
        /\ \A p \in (pos[k - 1] + 1)..(pos[k] - 1) : Len(t[p]) = 1
  BY LaidEnds
<1>3. DOMAIN t = 1..Len(t)
  BY DEF Laid, Lays
<1>4. ASSUME NEW k \in 1..m PROVE pos[k] \in G /\ Read(t, pos[k]) = l[k]
  <2>1. ~C!Empty(l[k].name, l[k].value) /\ l[k] = [name |-> l[k].name, value |-> l[k].value]
    BY <1>1, NotEmpty
  <2>2. pos[k] \in DOMAIN t /\ Len(t[pos[k]]) = 2 /\ t[pos[k]][2] = l[k].value
        /\ C!NameAt(t, pos[k]) = l[k].name
    BY <1>2, <1>3
  <2>3. pos[k] \in G
    BY <2>1, <2>2, Zenon DEF C!Given
  <2> QED
    BY <2>1, <2>2, <2>3, Zenon DEF Read
<1>5. ASSUME NEW p \in G PROVE \E k \in 1..m : p = pos[k]
  <2>1. p \in 1..Len(t) /\ Len(t[p]) = 2
    BY <1>3 DEF C!Given
  <2>2. PICK k \in 1..m : \E j \in 1..Len(l[k].name) : p = pos[k - 1] + j
    BY <2>1 DEF Laid, Lays
  <2>3. PICK j \in 1..Len(l[k].name) : p = pos[k - 1] + j
    BY <2>2
  <2> DEFINE a == pos[k - 1]
             b == pos[k]
             n == Len(l[k].name)
  <2>4. a \in Nat /\ b = a + n
    <3>1. k - 1 \in 0..m
      BY <1>1
    <3> QED
      BY <3>1 DEF Laid
  <2>5. n \in Nat
    BY <1>1, PieceTextType
  <2>6. j \in 1..n /\ p = a + j /\ ~(p \in (a + 1)..(b - 1))
    BY <1>2, <2>1, <2>3, SMTT(30)
  <2> HIDE DEF a, b, n
  <2>7. p = b
    BY <2>4, <2>5, <2>6
  <2> QED
    BY <2>7 DEF b
<1> HIDE DEF m, G
<1>6. {Read(t, i) : i \in G} = {l[k] : k \in 1..m}
  BY <1>4, <1>5
<1>7. C!Reads(t, G) = C!ToSet(l)
  <2>1. C!ToSet(l) = {l[k] : k \in 1..m}
    BY <1>1 DEF C!ToSet
  <2> QED
    BY <1>6, <2>1, ReadsIs
<1>8. ASSUME NEW i \in G, NEW j \in G, C!NameAt(t, i) = C!NameAt(t, j) PROVE i = j
  <2>1. PICK x \in 1..m : i = pos[x]
    BY <1>5
  <2>2. PICK y \in 1..m : j = pos[y]
    BY <1>5
  <2>3. l[x].name = l[y].name
    BY <1>2, <1>8, <2>1, <2>2
  <2>4. x = y
    BY <2>3 DEF Once, m
  <2> QED
    BY <2>1, <2>2, <2>4
<1> QED
  BY <1>7, <1>8 DEF G

LEMMA LaidSize ==
  ASSUME NEW l \in Seq(CookieRecord), NEW t, NEW pos, Laid(t, pos, l)
  PROVE  C!Size(l) = pos[Len(l)] + 2 * Len(l)
<1> DEFINE m == Len(l)
<1>1. /\ Lens(l) \in Seq(Nat) /\ Len(Lens(l)) = m
      /\ \A k \in 1..m : Lens(l)[k] = Len(l[k].name) + 1
      /\ C!Size(l) = Total(Lens(l)) + m
  BY LensType
<1>2. PICK sum : Sums(sum, Lens(l))
  BY <1>1, TotalSteps
<1>3. /\ sum[0] = 0 /\ Total(Lens(l)) = sum[m]
      /\ \A k \in 0..m : sum[k] \in Nat
      /\ \A k \in 1..m : sum[k] = sum[k - 1] + (Len(l[k].name) + 1)
  BY <1>1, <1>2 DEF Sums
<1>4. /\ pos[0] = 0 /\ \A k \in 0..m : pos[k] \in Nat
      /\ \A k \in 1..m : pos[k] = pos[k - 1] + Len(l[k].name)
  BY DEF Laid
<1>5. m \in Nat /\ \A k \in 1..m : Len(l[k].name) \in Nat
  <2>1. \A k \in 1..m : l[k] \in CookieRecord
    OBVIOUS
  <2> QED
    BY <2>1, PieceTextType
<1> DEFINE T == {k \in 0..m : sum[k] = pos[k] + k}
<1> HIDE DEF m
<1>6. 0 \in T
  <2>1. 0 \in 0..m /\ 0 = 0 + 0
    BY <1>5
  <2> QED
    BY <1>3, <1>4, <2>1, Zenon
<1>7. ASSUME NEW k \in T, k < m PROVE k + 1 \in T
  <2>1. k + 1 \in 1..m /\ k + 1 \in 0..m /\ (k + 1) - 1 = k /\ k \in Nat /\ k \in 0..m
    BY <1>5, <1>7
  <2> DEFINE a == pos[k]
             b == pos[k + 1]
             x == sum[k]
             y == sum[k + 1]
             n == Len(l[k + 1].name)
  <2>2. a \in Nat /\ b = a + n
    BY <1>4, <2>1
  <2>3. x \in Nat /\ y = x + (n + 1)
    BY <1>3, <2>1
  <2>4. n \in Nat /\ x = a + k
    BY <1>5, <2>1
  <2>5. y = b + (k + 1)
    <3> HIDE DEF a, b, x, y, n
    <3> QED
      BY <2>1, <2>2, <2>3, <2>4
  <2> QED
    BY <2>1, <2>5
<1>8. T \in SUBSET (0..m)
  OBVIOUS
<1>9. sum[m] = pos[m] + m /\ pos[m] \in Nat
  <2> HIDE DEF T
  <2>1. T = 0..m
    BY <1>5, <1>6, <1>7, <1>8, UpTo
  <2>2. m \in T /\ m \in 0..m
    BY <1>5, <2>1
  <2> QED
    BY <1>4, <2>2 DEF T
<1> DEFINE a == pos[m]
<1>10. a \in Nat /\ C!Size(l) = (a + m) + m
  BY <1>1, <1>3, <1>9
<1>11. (a + m) + m = a + 2 * m
  <2> HIDE DEF a
  <2> QED
    BY <1>5, <1>10
<1> QED
  BY <1>10, <1>11 DEF m

\* What parse has made of the first p pieces of the text: the first i cookies.
Parsed(s, l, pos, p, i) ==
  /\ i \in 0..Len(l) /\ pos[i] <= p /\ (i < Len(l) => p < pos[i + 1])
  /\ Len(s.list) = i /\ \A k \in 1..i : s.list[k] = l[k]
  /\ s.ws + pos[i] + 2 * i = pos[Len(l)] + 2 * Len(l)

\* The piece that ends the cookie adds it to the list.
LEMMA ParsedEnd ==
  ASSUME NEW l \in Seq(CookieRecord), Once(l), NEW t, NEW pos, Laid(t, pos, l),
         NEW p \in Nat, NEW i \in 0..(Len(l) - 1), NEW s \in CookieState, Once(s.list), NEW r,
         Parsed(s, l, pos, p, i), p + 1 = pos[i + 1], ParseTurn(s, r, t, p)
  PROVE  Parsed(r, l, pos, p + 1, i + 1)
<1> DEFINE m == Len(l)
           c == l[i + 1]
           n == Len(c.name)
           a == pos[i]
           b == pos[i + 1]
           z == pos[m]
           v == s.ws
<1>1. /\ m \in Nat /\ i \in Nat /\ i < m /\ i + 1 \in 1..m /\ i + 1 \in 0..m /\ i \in 0..m
      /\ m \in 0..m /\ (i + 1) - 1 = i /\ c \in CookieRecord
  OBVIOUS
<1>2. /\ Len(t[b]) = 2 /\ t[b][2] = c.value /\ C!NameAt(t, b) = c.name
  BY <1>1, LaidEnds
<1>3. n \in Nat \ {0}
  BY <1>1, PieceTextType
<1>4. c.name \in CookieName /\ c.value \in ValueOrEmpty
  BY <1>1 DEF CookieRecord, ValueOrEmpty
<1>5. ~C!Empty(c.name, c.value) /\ c = [name |-> c.name, value |-> c.value]
  BY <1>1, NotEmpty
<1>6. s.list \in Seq(CookieRecord) /\ v \in Nat
  BY DEF CookieState
<1>7. /\ Len(s.list) = i /\ \A k \in 1..i : s.list[k] = l[k]
      /\ v + a + 2 * i = z + 2 * m
  BY DEF Parsed
<1>8. a \in Nat /\ b \in Nat /\ z \in Nat /\ b = a + n /\ b + (m - (i + 1)) <= z
  <2>1. i + 1 \in 0..m /\ m \in 0..m /\ i + 1 \in 0..m
    BY <1>1
  <2>2. b + (m - (i + 1)) <= z
    BY <2>1, LaidOrder
  <2>3. b = a + n
    BY <1>1 DEF Laid
  <2>4. a \in Nat /\ b \in Nat /\ z \in Nat
    BY <1>1 DEF Laid
  <2> QED
    BY <2>2, <2>3, <2>4
<1>9. v >= n + 2
  <2> HIDE DEF a, b, n, m, v, z
  <2> QED
    BY <1>1, <1>3, <1>6, <1>7, <1>8
<1>10. ASSUME NEW k \in 1..Len(s.list) PROVE s.list[k].name # c.name
  <2>1. k \in 1..i /\ k \in 1..m /\ k # i + 1
    BY <1>1, <1>7, SMTT(30)
  <2> QED
    BY <1>1, <1>7, <2>1 DEF Once
<1>11. r.list = C!Set(s, c.name, c.value).list /\ r.ws = C!Set(s, c.name, c.value).ws
  <2>1. Len(t[p + 1]) # 1
    BY <1>2
  <2> QED
    BY <1>2, <2>1 DEF ParseTurn
<1>12. SetAdds(s, C!Set(s, c.name, c.value), c, n)
  BY <1>4, <1>5, SetReads
<1>13. r.list = Append(s.list, c) /\ r.ws = v - (n + 2)
  BY <1>9, <1>10, <1>11, <1>12 DEF SetAdds
<1>14. Len(r.list) = i + 1 /\ \A k \in 1..(i + 1) : r.list[k] = l[k]
  <2>1. /\ Len(r.list) = i + 1 /\ r.list[i + 1] = c
        /\ \A k \in 1..i : r.list[k] = s.list[k]
    <3> DEFINE q == s.list
               e == r.list
    <3>1. q \in Seq(CookieRecord) /\ Len(q) = i /\ e = Append(q, c)
      BY <1>6, <1>7, <1>13
    <3> HIDE DEF q, e, c
    <3>2. /\ Len(e) = i + 1 /\ e[i + 1] = c
          /\ \A k \in 1..i : e[k] = q[k]
      BY <1>1, <3>1
    <3> QED
      BY <3>2 DEF q, e
  <2>2. \A k \in 1..(i + 1) : k = i + 1 \/ k \in 1..i
    BY <1>1
  <2> QED
    BY <1>7, <2>1, <2>2
<1>15. r.ws + b + 2 * (i + 1) = z + 2 * m
  <2> DEFINE u == r.ws
  <2>1. u = v - (n + 2)
    BY <1>13
  <2>2. u + b + 2 * (i + 1) = z + 2 * m
    <3> HIDE DEF a, b, n, m, u, v, z
    <3> QED
      BY <1>1, <1>3, <1>6, <1>7, <1>8, <1>9, <2>1
  <2> QED
    BY <2>2
<1>16. ASSUME i + 1 < m PROVE p + 1 < pos[(i + 1) + 1]
  <2> DEFINE d == pos[(i + 1) + 1]
  <2>1. (i + 1) + 1 \in 0..m /\ i + 1 \in 0..((i + 1) + 1) /\ ((i + 1) + 1) - (i + 1) = 1
    <3>1. m \in Nat /\ i \in Nat
      BY <1>1
    <3> HIDE DEF m
    <3> QED
      BY <1>16, <3>1
  <2>2. b + 1 <= d /\ d \in Nat
    BY <2>1, LaidOrder
  <2>3. b < d
    <3> HIDE DEF b, d
    <3> QED
      BY <1>8, <2>2
  <2> QED
    BY <2>3
<1>17. pos[i + 1] <= p + 1
  OBVIOUS
<1> QED
  BY <1>1, <1>14, <1>15, <1>16, <1>17 DEF Parsed

\* parse makes the list of its text again.
LEMMA TextParsed ==
  ASSUME NEW l \in Seq(CookieRecord), Once(l), NEW t, NEW pos, Laid(t, pos, l)
  PROVE  C!Parse(t, C!Size(l)).list = l
<1> DEFINE m == Len(l)
           w == C!Size(l)
           z == pos[m]
           n == Len(t)
<1>1. m \in Nat /\ m \in 0..m
  OBVIOUS
<1>2. w \in Nat /\ w = z + 2 * m
  BY CookieSizes, LaidSize
<1>3. t \in Seq(C!Piece) /\ n = z /\ n \in Nat /\ pos[0] = 0 /\ \A k \in 0..m : pos[k] \in Nat
  BY <1>1 DEF Laid, Lays
<1>4. PICK turn : Parses(turn, t, w)
  BY <1>2, <1>3, ParseTurns
<1>5. /\ \A p \in 0..n : turn[p] \in CookieState /\ Once(turn[p].list)
      /\ turn[0].list = <<>> /\ turn[0].ws = w
      /\ \A p \in 0..(n - 1) : ParseTurn(turn[p], turn[p + 1], t, p)
  BY <1>2, <1>3, <1>4, ParseSteps
<1>6. C!Parse(t, w) = turn[n]
  BY <1>4 DEF Parses
<1> DEFINE T == {p \in 0..n : \E i \in 0..m : Parsed(turn[p], l, pos, p, i)}
<1>7. 0 \in T
  <2>1. 0 \in 0..n /\ 0 \in 0..m /\ 0 <= 0
    BY <1>1, <1>3
  <2>2. ASSUME 0 < m PROVE 0 < pos[0 + 1]
    <3>1. 1 \in 0..m /\ 0 \in 0..1 /\ 0 + 1 = 1 /\ 1 - 0 = 1
      BY <1>1, <2>2
    <3>2. pos[0] + 1 <= pos[1] /\ pos[1] \in Nat
      BY <3>1, LaidOrder
    <3> QED
      BY <1>3, <3>1, <3>2
  <2>3. Len(turn[0].list) = 0
    BY <1>5
  <2>4. turn[0].ws + pos[0] + 2 * 0 = z + 2 * m
    <3> HIDE DEF w
    <3> QED
      BY <1>2, <1>3, <1>5
  <2>5. Parsed(turn[0], l, pos, 0, 0)
    BY <1>3, <2>1, <2>2, <2>3, <2>4 DEF Parsed
  <2> QED
    BY <2>1, <2>5
<1>8. ASSUME NEW p \in T, p < n PROVE p + 1 \in T
  <2>1. p \in Nat /\ p \in 0..n /\ p \in 0..(n - 1) /\ p + 1 \in 0..n
    BY <1>3, <1>8
  <2> DEFINE s == turn[p]
             r == turn[p + 1]
  <2>2. PICK i \in 0..m : Parsed(s, l, pos, p, i)
    BY <1>8
  <2>3. s \in CookieState /\ Once(s.list) /\ ParseTurn(s, r, t, p)
    BY <1>5, <2>1
  <2>4. pos[i] <= p /\ i < m
    <3>1. pos[i] <= p
      BY <2>2 DEF Parsed
    <3>2. i # m
      BY <1>3, <1>8, <2>1, <3>1
    <3> QED
      BY <1>1, <3>1, <3>2
  <2>5. i + 1 \in 1..m /\ i + 1 \in 0..m /\ i \in 0..(Len(l) - 1) /\ (i + 1) - 1 = i
    BY <1>1, <2>4
  <2> DEFINE a == pos[i]
             b == pos[i + 1]
  <2>6. a \in Nat /\ b \in Nat /\ p < b /\ a <= p
    BY <1>3, <2>2, <2>4, <2>5 DEF Parsed
  <2>7. CASE p + 1 = b
    <3>1. Parsed(r, l, pos, p + 1, i + 1)
      BY <2>1, <2>2, <2>3, <2>5, <2>7, ParsedEnd
    <3> QED
      BY <2>1, <2>5, <3>1
  <2>8. CASE p + 1 # b
    <3>1. p + 1 \in (a + 1)..(b - 1) /\ p + 1 < b /\ a <= p + 1
      <4> HIDE DEF a, b
      <4> QED
        BY <2>1, <2>6, <2>8
    <3>2. Len(t[p + 1]) = 1
      <4>1. \A x \in (pos[(i + 1) - 1] + 1)..(pos[i + 1] - 1) : Len(t[x]) = 1
        BY <2>5, LaidEnds
      <4>2. \A x \in (a + 1)..(b - 1) : Len(t[x]) = 1
        BY <2>5, <4>1
      <4> HIDE DEF a, b
      <4> QED
        BY <3>1, <4>2
    <3>3. r.list = s.list /\ r.ws = s.ws
      BY <2>3, <3>2 DEF ParseTurn
    <3>4. Parsed(r, l, pos, p + 1, i)
      BY <2>2, <3>1, <3>3 DEF Parsed
    <3> QED
      BY <2>1, <3>4
  <2> QED
    BY <2>7, <2>8
<1>9. T \in SUBSET (0..n)
  OBVIOUS
<1>10. n \in T /\ n \in 0..n
  <2> HIDE DEF T, n
  <2>1. T = 0..n
    BY <1>3, <1>7, <1>8, <1>9, UpTo
  <2> QED
    BY <1>3, <2>1
<1>11. PICK i \in 0..m : Parsed(turn[n], l, pos, n, i)
  BY <1>10
<1>12. i = m
  <2> SUFFICES ASSUME i < m PROVE FALSE
    BY <1>1
  <2>1. i + 1 \in 0..m /\ m \in 0..m
    BY <1>1
  <2> DEFINE b == pos[i + 1]
  <2>2. b + (m - (i + 1)) <= z /\ b \in Nat
    BY <2>1, LaidOrder
  <2>3. z < b
    BY <1>3, <1>11 DEF Parsed
  <2>4. z \in Nat
    BY <1>3
  <2> HIDE DEF b, z, m
  <2> QED
    BY <1>1, <2>1, <2>2, <2>3, <2>4
<1> DEFINE q == turn[n].list
<1>13. q \in Seq(CookieRecord)
  BY <1>5, <1>10 DEF CookieState
<1>14. Len(q) = m /\ \A k \in 1..m : q[k] = l[k]
  BY <1>11, <1>12 DEF Parsed
<1>15. q = l
  <2> HIDE DEF q
  <2> QED
    BY <1>13, <1>14, SeqEqual
<1> QED
  BY <1>6, <1>15

\* What goes to the backend is what the VCL sees: the text that
\* cookie.get_string writes gives each cookie its value, once, and
\* cookie.parse makes the same list of it.
THEOREM TaskRoundTrip == Spec => []RoundTrip
<1>1. TaskInv => RoundTrip
  <2> SUFFICES ASSUME TaskInv PROVE RoundTrip
    OBVIOUS
  <2>1. cookielist \in Seq(CookieRecord) /\ Once(cookielist)
    BY DEF TaskInv, CookieInv
  <2> DEFINE t == C!CookieText(cookielist)
  <2>2. PICK pos : Laid(t, pos, cookielist)
    BY <2>1, TextLaid
  <2> HIDE DEF t
  <2>3. C!Parse(t, C!Size(cookielist)).list = cookielist
    BY <2>1, <2>2, TextParsed
  <2>4. /\ C!Reads(t, C!Given(t)) = C!ToSet(cookielist)
        /\ \A i, j \in C!Given(t) : C!NameAt(t, i) = C!NameAt(t, j) => i = j
    BY <2>1, <2>2, TextGives
  <2> QED
    BY <2>3, <2>4 DEF RoundTrip, C!RoundTrip, t
<1> QED
  BY <1>1, TaskInvInit, TaskInvNext, PTL DEF Spec
=============================================================================
