----------------------------- MODULE XkeyProofs -----------------------------
(***************************************************************************)
(* Proofs about Xkey for every number of objects and keys, all headers and *)
(* purge arguments, and without any of the bounds.                         *)
(***************************************************************************)
EXTENDS Xkey, FiniteSetTheorems, TLAPS

-----------------------------------------------------------------------------
(***************************************************************************)
(* The inductive invariant: IndexExact needs to know which objects the     *)
(* callback was called for (ObjInv), and what holds when a purge finishes  *)
(* has to be known while it runs (PurgeInv).                               *)
(***************************************************************************)
ObjInv ==
  \A o \in ObjCore :
    /\ obj[o].tagged =>
         xkey_cb_handle /\ obj[o].phase \in {"inserting", "cached", "removing"}
    /\ obj[o].phase = "inserting" => obj[o].tagged
    /\ obj[o].phase # "inserting" => obj[o].rest = Index!NoLinks
    /\ \A d \in Digest : obj[o].rest[d] <= obj[o].tags[d]
    /\ obj[o].exp.t_origin <= clock

\* The purge has dealt with object o.
Hit(o) ==
  LET e == obj[o].exp IN
  IF pg.do_soft THEN FreshUntil(e) <= pg.now
                ELSE FreshUntil(e) <= e.t_origin /\ ServedUntil(e) <= e.t_origin

PurgeInv ==
  /\ mtx # "purge" => pg = NoPurge
  /\ pg.now <= clock
  /\ IsFiniteSet(pg.purged)
  /\ \A o \in ObjCore :
       pg.todo[o] > 0 \/ o \in pg.purged \/ o \in pg.due => obj[o].tagged
  /\ \A o \in pg.due :
       /\ obj[o].phase # "inserting" /\ ~obj[o].busy
       /\ Hit(o) \/ pg.todo[o] > 0 \/ Names(o, pg.key)
  /\ pg.do_soft => /\ pg.i = Cardinality(pg.purged)
                   /\ \A o \in pg.purged : Hit(o)

XkeyInv == TypeOK /\ IndexExact /\ ObjInv /\ PurgeInv

-----------------------------------------------------------------------------
\* A purge argument that names an object does so by its first key or a later
\* one: what xkey_tok leaves for the next turn of the loop.
LEMMA NamesTail ==
  ASSUME NEW k \in Seq(Digest), k # <<>>, NEW f \in [Digest -> Nat],
         \E j \in 1..Len(k) : f[k[j]] > 0
  PROVE  f[Head(k)] > 0 \/ \E j \in 1..Len(Tail(k)) : f[Tail(k)[j]] > 0
<1>1. PICK j \in 1..Len(k) : f[k[j]] > 0
  OBVIOUS
<1>2. CASE j = 1
  BY <1>1, <1>2
<1>3. CASE j # 1
  <2>1. j - 1 \in 1..Len(Tail(k)) /\ Tail(k)[j - 1] = k[j]
    BY <1>3
  <2> QED
    BY <1>1, <2>1
<1> QED
  BY <1>2, <1>3

\* The module starts without index, objects or purges.
LEMMA InitInv == Init => XkeyInv
<1> SUFFICES ASSUME Init PROVE XkeyInv
  OBVIOUS
<1>1. Cardinality({}) = 0 /\ IsFiniteSet({})
  BY FS_EmptySet
<1>2. Unused \in ObjectType /\ NoPurge \in PurgeType
  BY DEF Unused, ObjectType, NoPurge, PurgeType, NoTodo, Index!NoLinks
<1>3. TypeOK
  BY <1>2 DEF Init, TypeOK, Index!NoTags, Index!NoLinks
<1>4. IndexExact
  BY DEF Init, IndexExact, Unused, Index!NoTags, Index!NoLinks
<1>5. ObjInv
  BY DEF Init, ObjInv, Unused, Index!NoLinks
<1>6. PurgeInv
  BY <1>1 DEF Init, PurgeInv, NoPurge, NoTodo
<1> QED
  BY <1>3, <1>4, <1>5, <1>6 DEF XkeyInv

-----------------------------------------------------------------------------
\* A step that only touches one object, keeps its lifetime and headers (or
\* finds the address unused), and never withdraws what a purge relies on.
LEMMA ObjectStepPurge ==
  ASSUME XkeyInv, UNCHANGED <<mtx, pg, clock>>, NEW o \in ObjCore,
         NEW x \in ObjectType, obj' = [obj EXCEPT ![o] = x],
         \/ ~obj[o].tagged
         \/ /\ x.tagged /\ x.exp = obj[o].exp /\ x.tags = obj[o].tags
            /\ obj[o].phase # "inserting" => x.phase # "inserting"
            /\ x.busy => obj[o].busy
  PROVE  PurgeInv'
<1> USE DEF XkeyInv
<1>0. \A p \in ObjCore : obj'[p] = IF p = o THEN x ELSE obj[p]
  BY DEF TypeOK
<1>1. \A p \in ObjCore : obj[p].tagged => obj'[p].tagged /\ obj'[p].exp = obj[p].exp
                           /\ obj'[p].tags = obj[p].tags
                           /\ (obj[p].phase # "inserting" => obj'[p].phase # "inserting")
                           /\ (obj'[p].busy => obj[p].busy)
  BY <1>0
<1>2. pg.due \subseteq ObjCore /\ pg.purged \subseteq ObjCore
  BY DEF TypeOK, PurgeType
<1>3. \A p \in pg.due \cup pg.purged : p \in ObjCore /\ obj[p].tagged
  BY <1>2 DEF PurgeInv
<1>4. \A p \in pg.due \cup pg.purged : Hit(p) => Hit(p)'
  BY <1>1, <1>3 DEF Hit
<1>5. \A p \in pg.due : Names(p, pg.key) => Names(p, pg.key)'
  BY <1>1, <1>3 DEF Names
<1>6. \A p \in pg.due : obj'[p].phase # "inserting" /\ ~obj'[p].busy
  BY <1>1, <1>3 DEF PurgeInv
<1>7. /\ mtx' # "purge" => pg' = NoPurge
      /\ pg'.now <= clock'
      /\ IsFiniteSet(pg'.purged)
      /\ \A p \in ObjCore :
           pg'.todo[p] > 0 \/ p \in pg'.purged \/ p \in pg'.due => obj'[p].tagged
  BY <1>1 DEF PurgeInv
<1>8. \A p \in pg'.due : /\ obj'[p].phase # "inserting" /\ ~obj'[p].busy
                         /\ Hit(p)' \/ pg'.todo[p] > 0 \/ Names(p, pg.key)'
  BY <1>4, <1>5, <1>6 DEF PurgeInv
<1>9. pg'.do_soft => /\ pg'.i = Cardinality(pg'.purged)
                     /\ \A p \in pg'.purged : Hit(p)'
  BY <1>4 DEF PurgeInv
<1> QED
  BY <1>7, <1>8, <1>9 DEF PurgeInv

\* What the invariant says of one object x and its links l.
Fits(x, l) ==
  /\ \A d \in Digest : l[d] = IF x.tagged THEN x.tags[d] - x.rest[d] ELSE 0
  /\ x.tagged =>
       xkey_cb_handle /\ x.phase \in {"inserting", "cached", "removing"}
  /\ x.phase = "inserting" => x.tagged
  /\ x.phase # "inserting" => x.rest = Index!NoLinks
  /\ \A d \in Digest : x.rest[d] <= x.tags[d]
  /\ x.exp.t_origin <= clock

\* Object x may take the place of object y without disturbing a purge.
Replaces(x, y) ==
  \/ ~y.tagged
  \/ pg = NoPurge
  \/ /\ x.tagged /\ x.exp = y.exp /\ x.tags = y.tags
     /\ y.phase # "inserting" => x.phase # "inserting"
     /\ x.busy => y.busy

\* A step that replaces one object and its links keeps the invariant if the
\* two still fit together.
LEMMA ObjectStep ==
  ASSUME XkeyInv, UNCHANGED <<mtx, n_init, xkey_cb_handle, pg, bounds>>,
         NEW o \in ObjCore, NEW x \in ObjectType, NEW l \in [Digest -> Nat],
         obj' = [obj EXCEPT ![o] = x], links' = [links EXCEPT ![o] = l],
         Fits(x, l), Replaces(x, obj[o])
  PROVE  XkeyInv'
<1> USE DEF XkeyInv
<1>1. TypeOK'
  BY DEF TypeOK, bounds
<1>2. /\ \A p \in ObjCore : obj'[p] = IF p = o THEN x ELSE obj[p]
      /\ \A p \in ObjCore : links'[p] = IF p = o THEN l ELSE links[p]
  BY DEF TypeOK
<1>3. IndexExact'
  BY <1>2 DEF IndexExact, Fits
<1>4. ObjInv'
  BY <1>2 DEF ObjInv, bounds, Fits
<1>5. PurgeInv'
  <2>1. CASE pg = NoPurge
    BY <2>1 DEF bounds, PurgeInv, NoPurge, NoTodo
  <2>2. CASE pg # NoPurge
    BY <2>2, ObjectStepPurge DEF bounds, Replaces
  <2> QED
    BY <2>1, <2>2
<1> QED
  BY <1>1, <1>3, <1>4, <1>5

\* The steps of varnishd and of the callbacks keep the invariant.
LEMMA ObjectStepInv ==
  ASSUME XkeyInv, NEW o \in ObjCore,
         \/ \E h \in Headers, e \in Lifetimes : Fetch(o, h, e)
         \/ InsertEvent(o) \/ Unbusy(o) \/ Kill(o)
         \/ \E d \in Digest : xkey_cb_insert(o, d)
         \/ xkey_cb_insert_end(o) \/ xkey_cb_remove(o)
  PROVE  XkeyInv'
<1>0. /\ obj \in [ObjCore -> ObjectType] /\ obj[o] \in ObjectType
      /\ links \in [ObjCore -> [Digest -> Nat]] /\ links[o] \in [Digest -> Nat]
      /\ links = [links EXCEPT ![o] = links[o]]
      /\ clock \in Nat
  BY DEF XkeyInv, TypeOK
<1>1. /\ Unused \in ObjectType /\ ~Unused.tagged /\ Unused.rest = Index!NoLinks
      /\ Unused.phase = "free"
      /\ \A d \in Digest : Unused.rest[d] = 0 /\ Unused.tags[d] = 0
      /\ Unused.exp.t_origin = 0
  BY DEF Unused, ObjectType, Index!NoLinks
<1>2. Fits(obj[o], links[o])
  BY DEF XkeyInv, IndexExact, ObjInv, Fits
<1>3. ASSUME NEW h \in Headers, NEW e \in Lifetimes, Fetch(o, h, e) PROVE XkeyInv'
  <2> DEFINE x == [phase |-> "fetched", busy |-> TRUE, tags |-> h,
                   rest |-> Index!NoLinks, tagged |-> FALSE, exp |-> e]
  <2>1. h \in [Digest -> Nat] /\ e \in [t_origin : Nat, ttl : Int, grace : Nat]
    <3>1. h \in [Digest -> Nat]
      BY XkeyAssumption
    <3>2. 0..MaxTime \subseteq Nat /\ TTL \subseteq Int /\ GRACE \subseteq Nat
      BY XkeyAssumption
    <3> QED
      BY <3>1, <3>2 DEF Lifetimes
  <2>2. /\ x.phase = "fetched" /\ ~x.tagged /\ x.rest = Index!NoLinks
        /\ x.tags = h /\ x.exp = e
    OBVIOUS
  <2>3. x \in ObjectType
    BY <2>1 DEF ObjectType, Index!NoLinks
  <2>4. /\ obj' = [obj EXCEPT ![o] = x] /\ obj[o].phase = "free"
        /\ e.t_origin <= clock
        /\ UNCHANGED <<links, mtx, n_init, xkey_cb_handle, pg, bounds>>
    BY <1>3 DEF Fetch, module
  <2> HIDE DEF x
  <2>5. ~obj[o].tagged
    BY <1>2, <2>4 DEF Fits
  <2>6. \A d \in Digest : links[o][d] = 0 /\ x.rest[d] <= x.tags[d]
    BY <1>2, <2>1, <2>2, <2>5 DEF Index!NoLinks, Fits
  <2>7. Fits(x, links[o]) /\ Replaces(x, obj[o])
    BY <2>2, <2>4, <2>5, <2>6 DEF Fits, Replaces
  <2> QED
    BY <1>0, <2>3, <2>4, <2>7, ObjectStep
<1>4. CASE InsertEvent(o)
  <2>1. /\ obj[o].phase = "fetched" /\ ~obj[o].tagged
        /\ UNCHANGED <<links, mtx, n_init, xkey_cb_handle, pg, bounds>>
    BY <1>2, <1>4 DEF InsertEvent, module, Fits
  <2>2. CASE xkey_cb_handle
    <3> DEFINE x == [obj[o] EXCEPT !.phase = "inserting", !.rest = obj[o].tags,
                                   !.tagged = TRUE]
    <3>1. obj' = [obj EXCEPT ![o] = x]
      BY <1>0, <1>4, <2>2 DEF InsertEvent
    <3>2. /\ x.phase = "inserting" /\ x.tagged /\ x.rest = obj[o].tags
          /\ x.tags = obj[o].tags /\ x.exp = obj[o].exp /\ x \in ObjectType
      BY <1>0 DEF ObjectType
    <3>3. \A d \in Digest : obj[o].tags[d] \in Nat
      BY <1>0 DEF ObjectType
    <3> HIDE DEF x
    <3>4. Fits(x, links[o]) /\ Replaces(x, obj[o])
      BY <1>2, <2>1, <2>2, <3>2, <3>3 DEF Fits, Replaces
    <3> QED
      BY <1>0, <2>1, <3>1, <3>2, <3>4, ObjectStep
  <2>3. CASE ~xkey_cb_handle
    <3> DEFINE x == [obj[o] EXCEPT !.phase = "cached"]
    <3>1. obj' = [obj EXCEPT ![o] = x]
      BY <1>0, <1>4, <2>3 DEF InsertEvent
    <3>2. /\ x.phase = "cached" /\ x.rest = obj[o].rest /\ x.tagged = obj[o].tagged
          /\ x.tags = obj[o].tags /\ x.exp = obj[o].exp /\ x \in ObjectType
      BY <1>0 DEF ObjectType
    <3> HIDE DEF x
    <3>3. Fits(x, links[o]) /\ Replaces(x, obj[o])
      BY <1>2, <2>1, <3>2 DEF Fits, Replaces
    <3> QED
      BY <1>0, <2>1, <3>1, <3>2, <3>3, ObjectStep
  <2> QED
    BY <2>2, <2>3
<1>5. CASE Unbusy(o)
  <2> DEFINE x == [obj[o] EXCEPT !.busy = FALSE]
  <2>1. /\ obj' = [obj EXCEPT ![o] = x]
        /\ UNCHANGED <<links, mtx, n_init, xkey_cb_handle, pg, bounds>>
    BY <1>0, <1>5 DEF Unbusy, module
  <2>2. /\ x.phase = obj[o].phase /\ x.rest = obj[o].rest /\ x.tagged = obj[o].tagged
        /\ x.tags = obj[o].tags /\ x.exp = obj[o].exp /\ ~x.busy /\ x \in ObjectType
    BY <1>0 DEF ObjectType
  <2> HIDE DEF x
  <2>3. Fits(x, links[o]) /\ Replaces(x, obj[o])
    BY <1>2, <2>1, <2>2 DEF Fits, Replaces
  <2> QED
    BY <1>0, <2>1, <2>2, <2>3, ObjectStep
<1>6. CASE Kill(o)
  <2>1. /\ obj[o].phase = "cached" /\ ~obj[o].busy
        /\ UNCHANGED <<links, mtx, n_init, xkey_cb_handle, pg, bounds>>
    BY <1>6 DEF Kill, module
  <2>2. CASE xkey_cb_handle
    <3> DEFINE x == [obj[o] EXCEPT !.phase = "removing"]
    <3>1. obj' = [obj EXCEPT ![o] = x]
      BY <1>0, <1>6, <2>2 DEF Kill
    <3>2. /\ x.phase = "removing" /\ x.rest = obj[o].rest /\ x.tagged = obj[o].tagged
          /\ x.busy = obj[o].busy
          /\ x.tags = obj[o].tags /\ x.exp = obj[o].exp /\ x \in ObjectType
      BY <1>0 DEF ObjectType
    <3> HIDE DEF x
    <3>3. Fits(x, links[o]) /\ Replaces(x, obj[o])
      BY <1>2, <2>1, <2>2, <3>2 DEF Fits, Replaces
    <3> QED
      BY <1>0, <2>1, <3>1, <3>2, <3>3, ObjectStep
  <2>3. CASE ~xkey_cb_handle
    <3>1. obj' = [obj EXCEPT ![o] = Unused] /\ ~obj[o].tagged
      BY <1>2, <1>6, <2>3 DEF Kill, Fits
    <3>2. Fits(Unused, links[o]) /\ Replaces(Unused, obj[o])
      BY <1>0, <1>1, <1>2, <3>1 DEF Fits, Replaces
    <3> QED
      BY <1>0, <1>1, <2>1, <3>1, <3>2, ObjectStep
  <2> QED
    BY <2>2, <2>3
<1>7. ASSUME NEW d \in Digest, xkey_cb_insert(o, d) PROVE XkeyInv'
  <2> DEFINE x == [obj[o] EXCEPT !.rest[d] = @ - 1]
             l == [links[o] EXCEPT ![d] = @ + 1]
  <2>1. /\ obj[o].phase = "inserting" /\ obj[o].rest[d] > 0
        /\ obj' = [obj EXCEPT ![o] = x] /\ links' = [links EXCEPT ![o] = l]
        /\ mtx = "free" /\ UNCHANGED <<mtx, n_init, xkey_cb_handle, pg, bounds>>
    BY <1>0, <1>7 DEF xkey_cb_insert, Index!Linked
  <2>2. obj[o].rest \in [Digest -> Nat] /\ obj[o].tags \in [Digest -> Nat]
    BY <1>0 DEF ObjectType
  <2>3. /\ x.phase = "inserting" /\ x.tagged = obj[o].tagged /\ x.tags = obj[o].tags
        /\ x.rest = [obj[o].rest EXCEPT ![d] = @ - 1] /\ x.exp = obj[o].exp
        /\ x.busy = obj[o].busy
    BY <1>0, <2>1 DEF ObjectType
  <2>4. x \in ObjectType
    <3>1. [obj[o].rest EXCEPT ![d] = @ - 1] \in [Digest -> Nat]
      BY <2>1, <2>2
    <3> QED
      BY <1>0, <3>1 DEF ObjectType
  <2>5. l \in [Digest -> Nat]
    BY <1>0
  <2>6. \A f \in Digest : /\ x.rest[f] <= x.tags[f]
                          /\ l[f] = x.tags[f] - x.rest[f]
    BY <1>0, <1>2, <2>1, <2>2, <2>3 DEF Fits
  <2>7. pg = NoPurge
    BY <2>1 DEF XkeyInv, PurgeInv
  <2> HIDE DEF x, l
  <2>8. Fits(x, l) /\ Replaces(x, obj[o])
    BY <1>2, <2>1, <2>3, <2>6, <2>7 DEF Fits, Replaces
  <2> QED
    BY <2>1, <2>4, <2>5, <2>8, ObjectStep
<1>8. CASE xkey_cb_insert_end(o)
  <2> DEFINE x == [obj[o] EXCEPT !.phase = "cached"]
  <2>1. /\ obj' = [obj EXCEPT ![o] = x]
        /\ obj[o].phase = "inserting" /\ obj[o].rest = Index!NoLinks
        /\ UNCHANGED <<links, mtx, n_init, xkey_cb_handle, pg, bounds>>
    BY <1>0, <1>8 DEF xkey_cb_insert_end, module
  <2>2. /\ x.phase = "cached" /\ x.rest = obj[o].rest /\ x.tagged = obj[o].tagged
        /\ x.busy = obj[o].busy
        /\ x.tags = obj[o].tags /\ x.exp = obj[o].exp /\ x \in ObjectType
    BY <1>0 DEF ObjectType
  <2> HIDE DEF x
  <2>3. Fits(x, links[o]) /\ Replaces(x, obj[o])
    BY <1>2, <2>1, <2>2 DEF Fits, Replaces
  <2> QED
    BY <1>0, <2>1, <2>2, <2>3, ObjectStep
<1>9. CASE xkey_cb_remove(o)
  <2>1. /\ obj' = [obj EXCEPT ![o] = Unused]
        /\ links' = [links EXCEPT ![o] = Index!NoLinks]
        /\ mtx = "free" /\ UNCHANGED <<mtx, n_init, xkey_cb_handle, pg, bounds>>
    BY <1>9 DEF xkey_cb_remove, Index!Unlinked
  <2>2. /\ Index!NoLinks \in [Digest -> Nat]
        /\ \A d \in Digest : Index!NoLinks[d] = 0
    BY DEF Index!NoLinks
  <2>3. pg = NoPurge
    BY <2>1 DEF XkeyInv, PurgeInv
  <2>4. Fits(Unused, Index!NoLinks) /\ Replaces(Unused, obj[o])
    BY <1>0, <1>1, <2>2, <2>3 DEF Fits, Replaces
  <2> QED
    BY <1>1, <2>1, <2>2, <2>4, ObjectStep
<1> QED
  BY <1>3, <1>4, <1>5, <1>6, <1>7, <1>8, <1>9

-----------------------------------------------------------------------------
\* Starting a purge keeps the invariant: everything due is still to be found.
LEMMA PurgeStartInv ==
  ASSUME XkeyInv, NEW k \in Keys, NEW soft \in BOOLEAN, NEW t \in 0..MaxTime,
         purge_start(k, soft, t)
  PROVE  XkeyInv'
<1>1. /\ UNCHANGED <<links, n_init, xkey_cb_handle, obj, clock, ndiscard>>
      /\ mtx' = "purge" /\ npurge' = npurge + 1 /\ t <= clock
      /\ pg' = [NoPurge EXCEPT !.key = k, !.do_soft = soft, !.now = t, !.due = Due(k)]
  BY DEF purge_start
<1>2. /\ pg'.key = k /\ pg'.do_soft = soft /\ pg'.now = t /\ pg'.i = 0
      /\ pg'.todo = NoTodo /\ pg'.purged = {} /\ pg'.due = Due(k)
  BY <1>1 DEF NoPurge
<1>3. pg' \in PurgeType
  <2>1. k \in Seq(Digest) /\ t \in Nat
    BY XkeyAssumption
  <2>2. NoTodo \in [ObjCore -> Nat] /\ Due(k) \subseteq ObjCore
    BY DEF NoTodo, Due
  <2> QED
    BY <1>1, <2>1, <2>2 DEF PurgeType, NoPurge
<1>4. TypeOK'
  BY <1>1, <1>3 DEF XkeyInv, TypeOK
<1>5. IndexExact' /\ ObjInv'
  BY <1>1 DEF XkeyInv, IndexExact, ObjInv
<1>6. PurgeInv'
  <2>1. Cardinality({}) = 0 /\ IsFiniteSet({})
    BY FS_EmptySet
  <2>2. \A o \in Due(k) : /\ o \in ObjCore /\ obj[o].tagged
                          /\ obj[o].phase = "cached" /\ ~obj[o].busy /\ Names(o, k)
    BY DEF Due
  <2>3. \A o \in pg'.due : /\ obj'[o].phase # "inserting" /\ ~obj'[o].busy
                           /\ Names(o, pg.key)'
    BY <1>1, <1>2, <2>2 DEF Names
  <2>4. \A o \in ObjCore :
          pg'.todo[o] > 0 \/ o \in pg'.purged \/ o \in pg'.due => obj'[o].tagged
    BY <1>1, <1>2, <2>2 DEF NoTodo
  <2> QED
    BY <1>1, <1>2, <2>1, <2>3, <2>4 DEF PurgeInv
<1> QED
  BY <1>4, <1>5, <1>6 DEF XkeyInv

\* Going on to the next key keeps the invariant: an object that is due by that
\* key has a record on the key's list.
LEMMA PurgeKeyInv ==
  ASSUME XkeyInv, purge_key
  PROVE  XkeyInv'
<1>1. /\ mtx = "purge" /\ pg.todo = NoTodo /\ pg.key # <<>>
      /\ UNCHANGED <<links, mtx, n_init, xkey_cb_handle, obj, bounds>>
      /\ pg' = [pg EXCEPT !.key = Tail(@),
                          !.todo = [o \in ObjCore |-> links[o][Head(pg.key)]]]
  BY DEF purge_key, module
<1>2. pg \in PurgeType /\ pg.key \in Seq(Digest)
  BY DEF XkeyInv, TypeOK, PurgeType
<1>3. Head(pg.key) \in Digest /\ Tail(pg.key) \in Seq(Digest)
  BY <1>1, <1>2
<1>4. /\ pg'.key = Tail(pg.key) /\ pg'.do_soft = pg.do_soft /\ pg'.now = pg.now
      /\ pg'.i = pg.i /\ pg'.purged = pg.purged /\ pg'.due = pg.due
      /\ pg'.todo = [o \in ObjCore |-> links[o][Head(pg.key)]]
  BY <1>1, <1>2 DEF PurgeType
<1>5. pg' \in PurgeType
  <2>1. [o \in ObjCore |-> links[o][Head(pg.key)]] \in [ObjCore -> Nat]
    BY <1>3 DEF XkeyInv, TypeOK
  <2> QED
    BY <1>1, <1>2, <1>3, <2>1 DEF PurgeType
<1>6. TypeOK' /\ IndexExact' /\ ObjInv'
  BY <1>1, <1>5 DEF XkeyInv, TypeOK, IndexExact, ObjInv, bounds
<1>7. \A o \in ObjCore : Hit(o) => Hit(o)'
  BY <1>1, <1>4 DEF Hit
<1>8. \A o \in ObjCore : pg'.todo[o] > 0 => obj[o].tagged
  BY <1>3, <1>4 DEF XkeyInv, IndexExact
<1>9. ASSUME NEW o \in pg.due
      PROVE  Hit(o)' \/ pg'.todo[o] > 0 \/ Names(o, pg.key)'
  <2>1. /\ o \in ObjCore /\ obj[o].tagged /\ obj[o].phase # "inserting"
        /\ Hit(o) \/ Names(o, pg.key)
    BY <1>1, <1>2 DEF XkeyInv, PurgeInv, PurgeType, NoTodo
  <2>2. obj[o].tags \in [Digest -> Nat] /\ obj[o].rest = Index!NoLinks
    BY <2>1 DEF XkeyInv, TypeOK, ObjectType, ObjInv
  <2>3. links[o][Head(pg.key)] = obj[o].tags[Head(pg.key)]
    BY <1>3, <2>1, <2>2 DEF XkeyInv, IndexExact, Index!NoLinks
  <2>4. CASE Hit(o)
    BY <1>7, <2>1, <2>4
  <2>5. CASE Names(o, pg.key)
    <3>1. \/ obj[o].tags[Head(pg.key)] > 0
          \/ \E j \in 1..Len(Tail(pg.key)) : obj[o].tags[Tail(pg.key)[j]] > 0
      BY <1>1, <1>2, <2>2, <2>5, NamesTail DEF Names
    <3> QED
      BY <1>1, <1>4, <2>1, <2>3, <3>1 DEF Names
  <2> QED
    BY <2>1, <2>4, <2>5
<1>10. PurgeInv'
  <2>1. /\ mtx' # "purge" => pg' = NoPurge
        /\ pg'.now <= clock'
        /\ IsFiniteSet(pg'.purged)
        /\ \A o \in ObjCore :
             pg'.todo[o] > 0 \/ o \in pg'.purged \/ o \in pg'.due => obj'[o].tagged
    BY <1>1, <1>4, <1>8 DEF XkeyInv, PurgeInv, bounds
  <2>2. \A o \in pg'.due : obj'[o].phase # "inserting" /\ ~obj'[o].busy
    BY <1>1, <1>4 DEF XkeyInv, PurgeInv
  <2>3. pg'.do_soft => /\ pg'.i = Cardinality(pg'.purged)
                       /\ \A o \in pg'.purged : Hit(o)'
    BY <1>2, <1>4, <1>7 DEF XkeyInv, PurgeInv, PurgeType
  <2> QED
    BY <1>4, <1>9, <2>1, <2>2, <2>3 DEF PurgeInv
<1> QED
  BY <1>6, <1>10 DEF XkeyInv

\* What rearming does to the lifetime of an object.
LEMMA RearmedLifetime ==
  ASSUME XkeyInv, NEW o \in ObjCore
  PROVE  LET e == obj[o].exp
             f == Rearmed(e)
         IN /\ f \in [t_origin : Nat, ttl : Int, grace : Nat]
            /\ f.t_origin = e.t_origin
            /\ pg.do_soft => FreshUntil(f) = pg.now /\ f.grace = e.grace
            /\ ~pg.do_soft => FreshUntil(f) = e.t_origin /\ ServedUntil(f) = e.t_origin
<1> DEFINE e == obj[o].exp
<1>1. e \in [t_origin : Nat, ttl : Int, grace : Nat] /\ pg.now \in Nat
  BY DEF XkeyInv, TypeOK, ObjectType, PurgeType
<1> HIDE DEF e
<1>2. CASE pg.do_soft
  <2>1. Rearmed(e) = [t_origin |-> e.t_origin, ttl |-> pg.now - e.t_origin,
                      grace |-> e.grace]
    <3>1. Rearmed(e) = [e EXCEPT !.ttl = pg.now + 0 - e.t_origin, !.grace = e.grace]
      BY <1>2 DEF Rearmed, EXP_Rearm
    <3>2. pg.now + 0 - e.t_origin = pg.now - e.t_origin
      BY <1>1
    <3> QED
      BY <1>1, <3>1, <3>2
  <2>2. e.t_origin + (pg.now - e.t_origin) = pg.now
    BY <1>1
  <2> QED
    BY <1>1, <1>2, <2>1, <2>2 DEF FreshUntil, e
<1>3. CASE ~pg.do_soft
  <2>1. Rearmed(e) = [t_origin |-> e.t_origin, ttl |-> 0, grace |-> 0]
    <3>1. Rearmed(e) = [e EXCEPT !.ttl = e.t_origin + 0 - e.t_origin, !.grace = 0]
      BY <1>3 DEF Rearmed, EXP_Rearm
    <3>2. e.t_origin + 0 - e.t_origin = 0
      BY <1>1
    <3> QED
      BY <1>1, <3>1, <3>2
  <2> QED
    BY <1>1, <1>3, <2>1 DEF FreshUntil, ServedUntil, e
<1> QED
  BY <1>2, <1>3

\* Visiting a record keeps the invariant: the object is hit afterwards, and a
\* softpurge has not counted it before.
LEMMA PurgeVisitInv ==
  ASSUME XkeyInv, NEW o \in ObjCore, purge_visit(o)
  PROVE  XkeyInv'
<1>1. /\ mtx = "purge" /\ pg.todo[o] > 0
      /\ UNCHANGED <<links, mtx, n_init, xkey_cb_handle, bounds>>
  BY DEF purge_visit, module
<1>2. /\ pg \in PurgeType /\ pg.todo \in [ObjCore -> Nat] /\ pg.i \in Nat
      /\ pg.due \subseteq ObjCore /\ pg.purged \subseteq ObjCore /\ pg.now \in Nat
      /\ obj \in [ObjCore -> ObjectType] /\ obj[o] \in ObjectType
      /\ obj[o].exp \in [t_origin : Nat, ttl : Int, grace : Nat]
  BY DEF XkeyInv, TypeOK, PurgeType, ObjectType
<1>3. obj[o].tagged
  BY <1>1 DEF XkeyInv, PurgeInv
<1>4. CASE Skips(o)
  <2>1. pg' = [pg EXCEPT !.todo[o] = @ - 1] /\ obj' = obj
    BY <1>4 DEF purge_visit
  <2>2. /\ pg'.key = pg.key /\ pg'.do_soft = pg.do_soft /\ pg'.now = pg.now
        /\ pg'.i = pg.i /\ pg'.purged = pg.purged /\ pg'.due = pg.due
        /\ pg'.todo = [pg.todo EXCEPT ![o] = @ - 1]
    BY <1>2, <2>1 DEF PurgeType
  <2>3. [pg.todo EXCEPT ![o] = @ - 1] \in [ObjCore -> Nat]
    BY <1>1, <1>2
  <2>4. pg' \in PurgeType
    BY <1>2, <2>1, <2>3 DEF PurgeType
  <2>5. TypeOK' /\ IndexExact' /\ ObjInv'
    BY <1>1, <2>1, <2>4 DEF XkeyInv, TypeOK, IndexExact, ObjInv, bounds
  <2>6. \A p \in ObjCore : (Hit(p) => Hit(p)') /\ (Names(p, pg.key) => Names(p, pg.key)')
    BY <2>1, <2>2 DEF Hit, Names
  <2>7. o \in pg.due => Hit(o)
    <3>1. o \in pg.due => ~obj[o].busy
      BY DEF XkeyInv, PurgeInv
    <3> QED
      BY <1>2, <1>4, <3>1 DEF Skips, Hit, FreshUntil
  <2>8. /\ mtx' # "purge" => pg' = NoPurge
        /\ pg'.now <= clock'
        /\ IsFiniteSet(pg'.purged)
        /\ \A p \in ObjCore :
             pg'.todo[p] > 0 \/ p \in pg'.purged \/ p \in pg'.due => obj'[p].tagged
    BY <1>1, <1>2, <1>3, <2>1, <2>2 DEF XkeyInv, PurgeInv, bounds
  <2>9. \A p \in pg'.due : /\ obj'[p].phase # "inserting" /\ ~obj'[p].busy
                           /\ Hit(p)' \/ pg'.todo[p] > 0 \/ Names(p, pg.key)'
    BY <1>2, <2>1, <2>2, <2>6, <2>7 DEF XkeyInv, PurgeInv
  <2>10. pg'.do_soft => /\ pg'.i = Cardinality(pg'.purged)
                        /\ \A p \in pg'.purged : Hit(p)'
    BY <1>2, <2>2, <2>6 DEF XkeyInv, PurgeInv
  <2> QED
    BY <2>5, <2>8, <2>9, <2>10 DEF XkeyInv, PurgeInv
<1>5. CASE ~Skips(o)
  <2> DEFINE e == Rearmed(obj[o].exp)
  <2>1. /\ pg' = [pg EXCEPT !.todo[o] = @ - 1, !.i = @ + 1, !.purged = @ \cup {o}]
        /\ obj' = [obj EXCEPT ![o].exp = e]
    BY <1>5 DEF purge_visit
  <2>2. /\ pg'.key = pg.key /\ pg'.do_soft = pg.do_soft /\ pg'.now = pg.now
        /\ pg'.i = pg.i + 1 /\ pg'.purged = pg.purged \cup {o} /\ pg'.due = pg.due
        /\ pg'.todo = [pg.todo EXCEPT ![o] = @ - 1]
    BY <1>2, <2>1 DEF PurgeType
  <2>3. [pg.todo EXCEPT ![o] = @ - 1] \in [ObjCore -> Nat]
    BY <1>1, <1>2
  <2>4. pg' \in PurgeType
    <3>1. pg.i + 1 \in Nat /\ pg.purged \cup {o} \in SUBSET ObjCore
      BY <1>2
    <3>2. pg' = [key |-> pg.key, do_soft |-> pg.do_soft, now |-> pg.now, i |-> pg.i + 1,
                 todo |-> [pg.todo EXCEPT ![o] = @ - 1], purged |-> pg.purged \cup {o},
                 due |-> pg.due]
      BY <1>2, <2>1 DEF PurgeType
    <3> QED
      BY <1>2, <2>3, <3>1, <3>2 DEF PurgeType
  <2>5. /\ e \in [t_origin : Nat, ttl : Int, grace : Nat]
        /\ e.t_origin = obj[o].exp.t_origin
        /\ pg.do_soft => FreshUntil(e) = pg.now
        /\ ~pg.do_soft => FreshUntil(e) = e.t_origin /\ ServedUntil(e) = e.t_origin
    BY RearmedLifetime
  <2> HIDE DEF e
  <2>6. /\ obj'[o].exp = e /\ obj'[o].phase = obj[o].phase
        /\ obj'[o].busy = obj[o].busy /\ obj'[o].tags = obj[o].tags
        /\ obj'[o].rest = obj[o].rest /\ obj'[o].tagged = obj[o].tagged
        /\ obj'[o] \in ObjectType
        /\ \A p \in ObjCore \ {o} : obj'[p] = obj[p]
        /\ obj' \in [ObjCore -> ObjectType]
    BY <1>2, <2>1, <2>5 DEF ObjectType
  <2>7. TypeOK'
    BY <1>1, <2>4, <2>6 DEF XkeyInv, TypeOK, bounds
  <2>8. IndexExact'
    BY <1>1, <2>6 DEF XkeyInv, IndexExact
  <2>9. ObjInv'
    BY <1>1, <2>5, <2>6 DEF XkeyInv, ObjInv, bounds
  <2>10. Hit(o)'
    BY <1>2, <2>2, <2>5, <2>6 DEF Hit
  <2>11. \A p \in ObjCore : (Hit(p) => Hit(p)') /\ (Names(p, pg.key) => Names(p, pg.key)')
    BY <2>2, <2>6, <2>10 DEF Hit, Names
  <2>12. /\ mtx' # "purge" => pg' = NoPurge
         /\ pg'.now <= clock'
         /\ \A p \in ObjCore :
              pg'.todo[p] > 0 \/ p \in pg'.purged \/ p \in pg'.due => obj'[p].tagged
    <3>1. \A p \in ObjCore : pg'.todo[p] > 0 => pg.todo[p] > 0
      BY <1>1, <1>2, <2>2
    <3>2. \A p \in ObjCore : obj[p].tagged => obj'[p].tagged
      BY <2>6
    <3> QED
      BY <1>1, <1>3, <2>2, <3>1, <3>2 DEF XkeyInv, PurgeInv, bounds
  <2>13. \A p \in pg'.due : /\ obj'[p].phase # "inserting" /\ ~obj'[p].busy
                            /\ Hit(p)' \/ pg'.todo[p] > 0 \/ Names(p, pg.key)'
    BY <1>2, <2>2, <2>6, <2>10, <2>11 DEF XkeyInv, PurgeInv
  <2>14. IsFiniteSet(pg'.purged)
    BY <2>2, FS_AddElement DEF XkeyInv, PurgeInv
  <2>15. pg'.do_soft => /\ pg'.i = Cardinality(pg'.purged)
                        /\ \A p \in pg'.purged : Hit(p)'
    <3> SUFFICES ASSUME pg.do_soft
                 PROVE  /\ pg'.i = Cardinality(pg'.purged)
                        /\ \A p \in pg'.purged : Hit(p)'
      BY <2>2
    <3>1. ~Hit(o)
      BY <1>2, <1>5 DEF Skips, Hit, FreshUntil
    <3>2. o \notin pg.purged
      BY <3>1 DEF XkeyInv, PurgeInv
    <3>3. Cardinality(pg.purged \cup {o}) = Cardinality(pg.purged) + 1
      BY <3>2, FS_AddElement DEF XkeyInv, PurgeInv
    <3> QED
      BY <1>2, <2>2, <2>10, <2>11, <3>3 DEF XkeyInv, PurgeInv
  <2> QED
    BY <2>7, <2>8, <2>9, <2>12, <2>13, <2>14, <2>15 DEF XkeyInv, PurgeInv
<1> QED
  BY <1>4, <1>5

-----------------------------------------------------------------------------
\* The end of a purge, and the events of the CLI thread, keep the invariant.
LEMMA ModuleStepInv ==
  ASSUME XkeyInv, purge_end \/ Load \/ Discard \/ DiscardEnd \/ Tick
  PROVE  XkeyInv'
<1>0. NoPurge \in PurgeType /\ IsFiniteSet({}) /\ Cardinality({}) = 0
  BY FS_EmptySet DEF NoPurge, PurgeType, NoTodo
<1>1. /\ NoPurge.todo = NoTodo /\ NoPurge.due = {} /\ NoPurge.purged = {}
      /\ NoPurge.now = 0 /\ NoPurge.i = 0
      /\ \A o \in ObjCore : ~(NoPurge.todo[o] > 0)
  BY DEF NoPurge, NoTodo
<1>2. CASE purge_end
  <2>1. /\ mtx' = "free" /\ pg' = NoPurge
        /\ UNCHANGED <<links, n_init, xkey_cb_handle, obj, bounds>>
    BY <1>2 DEF purge_end
  <2>2. TypeOK' /\ IndexExact' /\ ObjInv'
    BY <1>0, <2>1 DEF XkeyInv, TypeOK, IndexExact, ObjInv, bounds
  <2>3. clock' \in Nat
    BY <2>2 DEF TypeOK
  <2>4. PurgeInv'
    BY <1>0, <1>1, <2>1, <2>3 DEF PurgeInv
  <2> QED
    BY <2>2, <2>4 DEF XkeyInv
<1>3. CASE Load
  <2>1. /\ mtx = "free" /\ n_init' = n_init + 1
        /\ xkey_cb_handle' = (n_init = 0 \/ xkey_cb_handle)
        /\ UNCHANGED <<links, mtx, obj, pg, bounds>>
    BY <1>3 DEF Load
  <2>2. xkey_cb_handle => xkey_cb_handle'
    BY <2>1
  <2>3. xkey_cb_handle' \in BOOLEAN
    BY <2>1
  <2>4. TypeOK'
    BY <2>1, <2>3 DEF XkeyInv, TypeOK, bounds
  <2>5. IndexExact' /\ ObjInv'
    BY <2>1, <2>2 DEF XkeyInv, IndexExact, ObjInv, bounds
  <2>6. PurgeInv'
    BY <2>1 DEF XkeyInv, PurgeInv, Hit, Names, bounds
  <2> QED
    BY <2>4, <2>5, <2>6 DEF XkeyInv
<1>4. CASE Discard
  <2>1. /\ mtx = "free" /\ n_init > 0 /\ n_init' = n_init - 1
        /\ mtx' \in {"free", "discard"} /\ ndiscard' = ndiscard + 1
        /\ UNCHANGED <<links, xkey_cb_handle, obj, pg, clock, npurge>>
    BY <1>4 DEF Discard
  <2>2. TypeOK' /\ IndexExact' /\ ObjInv'
    BY <2>1 DEF XkeyInv, TypeOK, IndexExact, ObjInv
  <2>3. PurgeInv'
    BY <2>1 DEF XkeyInv, PurgeInv, Hit, Names
  <2> QED
    BY <2>2, <2>3 DEF XkeyInv
<1>5. CASE DiscardEnd
  <2>1. /\ mtx = "discard" /\ NoCallback /\ mtx' = "free"
        /\ xkey_cb_handle' = FALSE /\ links' = Index!NoTags
        /\ obj' = [o \in ObjCore |-> [obj[o] EXCEPT !.tagged = FALSE]]
        /\ UNCHANGED <<n_init, pg, bounds>>
    BY <1>5 DEF DiscardEnd
  <2>2. \A o \in ObjCore :
          /\ obj'[o] \in ObjectType /\ ~obj'[o].tagged
          /\ obj'[o].phase = obj[o].phase /\ obj'[o].rest = obj[o].rest
          /\ obj'[o].tags = obj[o].tags /\ obj'[o].exp = obj[o].exp
    BY <2>1 DEF XkeyInv, TypeOK, ObjectType
  <2>3. Index!NoTags \in [ObjCore -> [Digest -> Nat]]
        /\ \A o \in ObjCore, d \in Digest : Index!NoTags[o][d] = 0
    BY DEF Index!NoTags, Index!NoLinks
  <2>4. TypeOK'
    BY <2>1, <2>2, <2>3 DEF XkeyInv, TypeOK, bounds
  <2>5. IndexExact'
    BY <2>1, <2>2, <2>3 DEF IndexExact
  <2>6. ObjInv'
    BY <2>1, <2>2 DEF XkeyInv, ObjInv, NoCallback, bounds
  <2>7. pg' = NoPurge /\ clock' \in Nat
    BY <2>1, <2>4 DEF XkeyInv, PurgeInv, TypeOK
  <2>8. PurgeInv'
    BY <1>0, <1>1, <2>7 DEF PurgeInv
  <2> QED
    BY <2>4, <2>5, <2>6, <2>8 DEF XkeyInv
<1>6. CASE Tick
  <2>1. /\ clock' = clock + 1 /\ clock \in Nat
        /\ UNCHANGED <<links, mtx, n_init, xkey_cb_handle, obj, pg, npurge, ndiscard>>
    BY <1>6 DEF Tick, module, XkeyInv, TypeOK
  <2>2. TypeOK' /\ IndexExact'
    BY <2>1 DEF XkeyInv, TypeOK, IndexExact
  <2>3. \A o \in ObjCore : obj[o].exp.t_origin \in Nat
    BY DEF XkeyInv, TypeOK, ObjectType
  <2>4. ObjInv'
    BY <2>1, <2>3 DEF XkeyInv, ObjInv
  <2>5. pg.now \in Nat
    BY DEF XkeyInv, TypeOK, PurgeType
  <2>6. PurgeInv'
    BY <2>1, <2>5 DEF XkeyInv, PurgeInv, Hit, Names
  <2> QED
    BY <2>2, <2>4, <2>6 DEF XkeyInv
<1> QED
  BY <1>2, <1>3, <1>4, <1>5, <1>6

\* Every step keeps the invariant.
LEMMA NextInv == XkeyInv /\ [Next]_vars => XkeyInv'
<1> SUFFICES ASSUME XkeyInv, [Next]_vars PROVE XkeyInv'
  OBVIOUS
<1>1. ASSUME NEW o \in ObjCore,
             \/ \E h \in Headers, e \in Lifetimes : Fetch(o, h, e)
             \/ InsertEvent(o) \/ Unbusy(o) \/ Kill(o)
             \/ \E d \in Digest : xkey_cb_insert(o, d)
             \/ xkey_cb_insert_end(o) \/ xkey_cb_remove(o)
      PROVE  XkeyInv'
  BY <1>1, ObjectStepInv
<1>2. ASSUME NEW o \in ObjCore, purge_visit(o) PROVE XkeyInv'
  BY <1>2, PurgeVisitInv
<1>3. ASSUME NEW k \in Keys, NEW soft \in BOOLEAN, NEW t \in 0..MaxTime,
             purge_start(k, soft, t)
      PROVE  XkeyInv'
  BY <1>3, PurgeStartInv
<1>4. CASE purge_key
  BY <1>4, PurgeKeyInv
<1>5. CASE purge_end \/ Load \/ Discard \/ DiscardEnd \/ Tick
  BY <1>5, ModuleStepInv
<1>6. CASE UNCHANGED vars
  BY <1>6 DEF vars, module, bounds, XkeyInv, TypeOK, IndexExact, ObjInv, PurgeInv, Hit, Names
<1> QED
  BY <1>1, <1>2, <1>3, <1>4, <1>5, <1>6 DEF Next

\* The invariant contains what the runs check.
LEMMA InvImplies ==
  XkeyInv => /\ TypeOK /\ IndexExact /\ PurgeTouchesLive /\ PurgeComplete
             /\ SoftCountsObjects
<1> SUFFICES ASSUME XkeyInv
             PROVE  PurgeTouchesLive /\ PurgeComplete /\ SoftCountsObjects
  BY DEF XkeyInv
<1>1. PurgeTouchesLive
  BY DEF PurgeTouchesLive, XkeyInv, PurgeInv, ObjInv
<1>2. PurgeComplete
  <2> SUFFICES ASSUME Finished, NEW o \in pg.due
               PROVE  /\ FreshUntil(obj[o].exp) <= clock
                      /\ ~pg.do_soft => ServedUntil(obj[o].exp) <= clock
    BY DEF PurgeComplete
  <2>1. o \in ObjCore /\ Hit(o)
    BY DEF XkeyInv, PurgeInv, TypeOK, PurgeType, Finished, NoTodo, Names
  <2>2. /\ obj[o].exp \in [t_origin : Nat, ttl : Int, grace : Nat]
        /\ pg.now \in Nat /\ clock \in Nat /\ pg.now <= clock
        /\ obj[o].exp.t_origin <= clock
    BY <2>1 DEF XkeyInv, TypeOK, PurgeType, ObjectType, PurgeInv, ObjInv
  <2> QED
    BY <2>1, <2>2 DEF Hit, FreshUntil, ServedUntil
<1>3. SoftCountsObjects
  BY DEF SoftCountsObjects, CountsObjects, XkeyInv, PurgeInv
<1> QED
  BY <1>1, <1>2, <1>3

\* The index of vmod_xkey.c says exactly what the headers of the objects in the
\* cache say, through every interleaving of callbacks, purges and VCL events.
THEOREM XkeyIndexExact == Spec => [](TypeOK /\ IndexExact)
  BY InitInv, NextInv, InvImplies, PTL DEF Spec

\* Everything that the object callbacks, purges and VCL events of vmod_xkey.c
\* share keeps its type.
THEOREM XkeyType == Spec => []TypeOK
  BY XkeyIndexExact, PTL

\* No purge follows a record to an object that varnishd has freed.
THEOREM XkeyPurgeTouchesLive == Spec => []PurgeTouchesLive
  BY InitInv, NextInv, InvImplies, PTL DEF Spec

\* No purge misses an object that was indexed under one of its keys.
THEOREM XkeyPurgeComplete == Spec => []PurgeComplete
  BY InitInv, NextInv, InvImplies, PTL DEF Spec

\* The result of softpurge is the number of distinct objects it purged.
THEOREM XkeySoftCounts == Spec => []SoftCountsObjects
  BY InitInv, NextInv, InvImplies, PTL DEF Spec

\* No purge extends the life of an object.
THEOREM XkeyNeverRevives == Spec => NeverRevives
<1> DEFINE Kept == \A o \in ObjCore : obj[o].phase # "free" =>
                     /\ NoLonger(FreshUntil(obj[o].exp), FreshUntil(obj'[o].exp))
                     /\ NoLonger(ServedUntil(obj[o].exp), ServedUntil(obj'[o].exp))
<1>1. XkeyInv /\ [Next]_vars => [Kept]_vars
  <2> SUFFICES ASSUME XkeyInv, Next, NEW o \in ObjCore, obj[o].phase # "free"
               PROVE  /\ NoLonger(FreshUntil(obj[o].exp), FreshUntil(obj'[o].exp))
                      /\ NoLonger(ServedUntil(obj[o].exp), ServedUntil(obj'[o].exp))
    OBVIOUS
  <2>1. /\ obj \in [ObjCore -> ObjectType] /\ clock \in Nat /\ pg.now \in Nat
        /\ obj[o].exp \in [t_origin : Nat, ttl : Int, grace : Nat]
        /\ obj[o].exp.t_origin <= clock /\ pg.now <= clock
    BY DEF XkeyInv, TypeOK, ObjectType, PurgeType, ObjInv, PurgeInv
  <2>2. /\ FreshUntil(obj[o].exp) \in Int /\ ServedUntil(obj[o].exp) \in Int
    BY <2>1 DEF FreshUntil, ServedUntil
  <2>3. CASE obj'[o].exp = obj[o].exp
    BY <2>2, <2>3 DEF NoLonger
  <2>4. CASE obj'[o] = Unused
    BY <2>1, <2>4 DEF NoLonger, Unused, FreshUntil, ServedUntil
  <2>5. CASE purge_visit(o) /\ ~Skips(o)
    <3> DEFINE f == Rearmed(obj[o].exp)
    <3>1. obj'[o].exp = f
      BY <2>1, <2>5 DEF purge_visit, ObjectType
    <3>2. /\ f \in [t_origin : Nat, ttl : Int, grace : Nat]
          /\ f.t_origin = obj[o].exp.t_origin
          /\ pg.do_soft => FreshUntil(f) = pg.now /\ f.grace = obj[o].exp.grace
          /\ ~pg.do_soft => /\ FreshUntil(f) = obj[o].exp.t_origin
                            /\ ServedUntil(f) = obj[o].exp.t_origin
      BY RearmedLifetime
    <3> HIDE DEF f
    <3>3. CASE pg.do_soft
      <4>1. pg.now < FreshUntil(obj[o].exp)
        BY <2>1, <2>5, <3>3 DEF Skips, FreshUntil
      <4>2. /\ ServedUntil(f) = pg.now + obj[o].exp.grace
            /\ ServedUntil(obj[o].exp) = FreshUntil(obj[o].exp) + obj[o].exp.grace
        BY <2>1, <3>2, <3>3 DEF FreshUntil, ServedUntil
      <4> QED
        BY <2>1, <2>2, <3>1, <3>2, <3>3, <4>1, <4>2 DEF NoLonger
    <3>4. CASE ~pg.do_soft
      BY <2>1, <3>1, <3>2, <3>4 DEF NoLonger
    <3> QED
      BY <3>3, <3>4
  <2>6. obj'[o].exp = obj[o].exp \/ obj'[o] = Unused \/ (purge_visit(o) /\ ~Skips(o))
    <3>1. ASSUME NEW p \in ObjCore, \E h \in Headers, e \in Lifetimes : Fetch(p, h, e)
          PROVE  obj'[o].exp = obj[o].exp
      BY <2>1, <3>1 DEF Fetch
    <3>2. ASSUME NEW p \in ObjCore,
                 \/ InsertEvent(p) \/ Unbusy(p) \/ xkey_cb_insert_end(p)
                 \/ \E d \in Digest : xkey_cb_insert(p, d)
          PROVE  obj'[o].exp = obj[o].exp
      BY <2>1, <3>2 DEF InsertEvent, Unbusy, xkey_cb_insert_end, xkey_cb_insert, ObjectType
    <3>3. ASSUME NEW p \in ObjCore, Kill(p) \/ xkey_cb_remove(p)
          PROVE  obj'[o].exp = obj[o].exp \/ obj'[o] = Unused
      <4>1. \/ obj' = [obj EXCEPT ![p] = Unused]
            \/ obj' = [obj EXCEPT ![p].phase = "removing"]
        BY <3>3 DEF Kill, xkey_cb_remove
      <4>2. CASE obj' = [obj EXCEPT ![p] = Unused]
        BY <2>1, <4>2
      <4>3. CASE obj' = [obj EXCEPT ![p].phase = "removing"]
        BY <2>1, <4>3 DEF ObjectType
      <4> QED
        BY <4>1, <4>2, <4>3
    <3>4. ASSUME NEW p \in ObjCore, purge_visit(p)
          PROVE  obj'[o].exp = obj[o].exp \/ (purge_visit(o) /\ ~Skips(o))
      BY <2>1, <3>4 DEF purge_visit
    <3>5. ASSUME \/ \E k \in Keys, soft \in BOOLEAN, t \in 0..MaxTime : purge_start(k, soft, t)
                 \/ purge_key \/ purge_end \/ Load \/ Discard \/ Tick
          PROVE  obj' = obj
      BY <3>5 DEF purge_start, purge_key, purge_end, Load, Discard, Tick
    <3>6. CASE DiscardEnd
      BY <2>1, <3>6 DEF DiscardEnd, ObjectType
    <3> QED
      BY <3>1, <3>2, <3>3, <3>4, <3>5, <3>6 DEF Next
  <2> QED
    BY <2>3, <2>4, <2>5, <2>6
<1> QED
  BY <1>1, InitInv, NextInv, PTL DEF Spec, NeverRevives
=============================================================================
