----------------------------- MODULE XkeyIndex ------------------------------
(***************************************************************************)
(* The index of vmod_xkey.c: the tree of key heads, the tree of object     *)
(* heads, the xkey_oc records that hang on one list of each, and the three *)
(* free pools.  Memory blocks have an identity, because the hazards here   *)
(* are about identity: a record on one list and not on the other, a head   *)
(* that is in a tree and in a pool, a pooled head reused with a stale      *)
(* list, a block neither linked nor pooled nor freed.                      *)
(*                                                                         *)
(* Everything happens under the module's mutex.  xkey_insert is one step;  *)
(* the loop of xkey_remove is one step per record, with the mutex held     *)
(* (removing # NULL) from the first step to the last.  Lists and pools are *)
(* sets: no result depends on the order of their elements.  Module         *)
(* XkeyLists has the pointers, and xkey_cleanup, which ends the life of    *)
(* the index.                                                              *)
(***************************************************************************)
EXTENDS Naturals, FiniteSets

CONSTANTS
  ObjCore, Digest,       \* as in XkeyTags
  HashHead, OcHead, Oc,  \* blocks for the three record types
  POOL_MAX,              \* the bound of each pool (5 in the code)
  NULL

ASSUME IndexAssumption ==
  /\ POOL_MAX \in Nat
  /\ IsFiniteSet(HashHead) /\ IsFiniteSet(OcHead) /\ IsFiniteSet(Oc)
  /\ NULL \notin ObjCore \cup Digest \cup HashHead \cup OcHead

VARIABLES
  hashtree,  \* the xkey_hashhead blocks linked into xkey_hashtree
  hkey,      \* their key.digest, NULL when zeroed
  hocs,      \* their list of records (list_hashhead)
  octree,    \* the xkey_ochead blocks linked into xkey_octree
  okey,      \* their key.ptr, NULL when zeroed
  oocs,      \* their list of records (list_ochead)
  objcore,   \* xkey_oc.objcore
  hashhead,  \* xkey_oc.hashhead
  hpool, opool, cpool,  \* allocation state of the three record types
  removing   \* the object head xkey_remove is emptying, or NULL

vars == <<hashtree, hkey, hocs, octree, okey, oocs, objcore, hashhead,
          hpool, opool, cpool, removing>>

-----------------------------------------------------------------------------
(***************************************************************************)
(* Pools.  heap: the allocated blocks; list: those waiting in the pool; n: *)
(* the counter the code keeps beside the list and tests instead of it.     *)
(***************************************************************************)
EmptyPool == [heap |-> {}, list |-> {}, n |-> 0]

\* The block *_new may return: one from the pool, else one malloc returns.
CanTake(p, b) == IF p.n > 0 THEN b \in p.list ELSE b \notin p.heap

\* Mutant: takes from the pool when it is empty.
TakeAtZero(p, b) ==
  IF p.n >= 0 THEN [p EXCEPT !.list = @ \ {b}, !.n = @ - 1]
              ELSE [p EXCEPT !.heap = @ \cup {b}]

\* xkey_hashhead_new, xkey_ochead_new, xkey_oc_new.
Take(p, b) ==
  IF p.n > 0 THEN [p EXCEPT !.list = @ \ {b}, !.n = @ - 1]
             ELSE [p EXCEPT !.heap = @ \cup {b}]

\* Mutant: the pool grows one too far.
GiveOneMore(p, b) ==
  IF p.n <= POOL_MAX THEN [p EXCEPT !.list = @ \cup {b}, !.n = @ + 1]
                     ELSE [p EXCEPT !.heap = @ \ {b}]

\* xkey_hashhead_delete, xkey_ochead_delete, xkey_oc_delete.
Give(p, b) ==
  IF p.n < POOL_MAX THEN [p EXCEPT !.list = @ \cup {b}, !.n = @ + 1]
                    ELSE [p EXCEPT !.heap = @ \ {b}]

-----------------------------------------------------------------------------
Init ==
  /\ hashtree = {} /\ hkey = [h \in HashHead |-> NULL]
  /\ hocs = [h \in HashHead |-> {}]
  /\ octree = {} /\ okey = [h \in OcHead |-> NULL]
  /\ oocs = [h \in OcHead |-> {}]
  /\ objcore = [c \in Oc |-> NULL] /\ hashhead = [c \in Oc |-> NULL]
  /\ hpool = EmptyPool /\ opool = EmptyPool /\ cpool = EmptyPool
  /\ removing = NULL

\* Mutants: a new head is linked although the tree has one for the key.
octree_insert_twice(o, h) ==
  /\ CanTake(opool, h)
  /\ opool' = Take(opool, h)
  /\ octree' = octree \cup {h}
  /\ okey' = [okey EXCEPT ![h] = o]

hashtree_insert_twice(d, h) ==
  /\ CanTake(hpool, h)
  /\ hpool' = Take(hpool, h)
  /\ hashtree' = hashtree \cup {h}
  /\ hkey' = [hkey EXCEPT ![h] = d]

(***************************************************************************)
(* The head for object o, which is h afterwards.  The code takes a block   *)
(* first and gives it back when VRB_INSERT finds the key present.          *)
(***************************************************************************)
xkey_octree_insert(o, h) ==
  \E new \in OcHead :
    /\ CanTake(opool, new)
    /\ \/ /\ h \in octree /\ okey[h] = o
          /\ opool' = Give(Take(opool, new), new)
          /\ UNCHANGED <<octree, okey>>
       \/ /\ \A x \in octree : okey[x] # o
          /\ h = new
          /\ opool' = Take(opool, new)
          /\ octree' = octree \cup {new}
          /\ okey' = [okey EXCEPT ![new] = o]

\* The same for the key head of digest d.
xkey_hashtree_insert(d, h) ==
  \E new \in HashHead :
    /\ CanTake(hpool, new)
    /\ \/ /\ h \in hashtree /\ hkey[h] = d
          /\ hpool' = Give(Take(hpool, new), new)
          /\ UNCHANGED <<hashtree, hkey>>
       \/ /\ \A x \in hashtree : hkey[x] # d
          /\ h = new
          /\ hpool' = Take(hpool, new)
          /\ hashtree' = hashtree \cup {new}
          /\ hkey' = [hkey EXCEPT ![new] = d]

\* Record c ties the heads oh of object o and hh of key d.
Tie(o, d, oh, hh, c) ==
  /\ xkey_octree_insert(o, oh)
  /\ xkey_hashtree_insert(d, hh)
  /\ CanTake(cpool, c)
  /\ cpool' = Take(cpool, c)
  /\ oocs' = [oocs EXCEPT ![oh] = @ \cup {c}]
  /\ hocs' = [hocs EXCEPT ![hh] = @ \cup {c}]
  /\ objcore' = [objcore EXCEPT ![c] = o]
  /\ hashhead' = [hashhead EXCEPT ![c] = hh]

xkey_insert(o, d) ==
  /\ removing = NULL
  /\ \E oh \in OcHead, hh \in HashHead, c \in Oc : Tie(o, d, oh, hh, c)
  /\ UNCHANGED removing

\* xkey_cb_remove: the mutex is taken and the lookup finds a head.
xkey_remove_start(o) ==
  /\ removing = NULL
  /\ \E h \in octree : okey[h] = o /\ removing' = h
  /\ UNCHANGED <<hashtree, hkey, hocs, octree, okey, oocs, objcore, hashhead,
                 hpool, opool, cpool>>

\* Record c of the head that is being emptied goes.
Untie(c) ==
  LET hh == hashhead[c] IN
  /\ hocs' = [hocs EXCEPT ![hh] = @ \ {c}]
  /\ \/ /\ hocs[hh] = {c}  \* VTAILQ_EMPTY: the key head goes too
        /\ hashtree' = hashtree \ {hh}
        /\ hkey' = [hkey EXCEPT ![hh] = NULL]
        /\ hpool' = Give(hpool, hh)
     \/ /\ hocs[hh] # {c}
        /\ UNCHANGED <<hashtree, hkey, hpool>>
  /\ hashhead' = [hashhead EXCEPT ![c] = NULL]
  /\ objcore' = [objcore EXCEPT ![c] = NULL]
  /\ oocs' = [oocs EXCEPT ![removing] = @ \ {c}]
  /\ cpool' = Give(cpool, c)

\* One turn of the loop of xkey_remove.
xkey_remove_step ==
  /\ removing # NULL
  /\ \E c \in oocs[removing] : Untie(c)
  /\ UNCHANGED <<octree, okey, opool, removing>>

\* After the loop: the object head leaves the tree and the mutex is released.
xkey_remove_end ==
  /\ removing # NULL
  /\ oocs[removing] = {}
  /\ octree' = octree \ {removing}
  /\ okey' = [okey EXCEPT ![removing] = NULL]
  /\ opool' = Give(opool, removing)
  /\ removing' = NULL
  /\ UNCHANGED <<hashtree, hkey, hocs, oocs, objcore, hashhead, hpool, cpool>>

Next ==
  \/ \E o \in ObjCore, d \in Digest : xkey_insert(o, d)
  \/ \E o \in ObjCore : xkey_remove_start(o)
  \/ xkey_remove_step
  \/ xkey_remove_end

Spec == Init /\ [][Next]_vars

-----------------------------------------------------------------------------
PoolType(Block) == [heap : SUBSET Block, list : SUBSET Block, n : Nat]

\* Every variable has its type, of the trees, lists and pools of vmod_xkey.c.
TypeOK ==
  /\ hashtree \subseteq HashHead /\ hkey \in [HashHead -> Digest \cup {NULL}]
  /\ hocs \in [HashHead -> SUBSET Oc]
  /\ octree \subseteq OcHead /\ okey \in [OcHead -> ObjCore \cup {NULL}]
  /\ oocs \in [OcHead -> SUBSET Oc]
  /\ objcore \in [Oc -> ObjCore \cup {NULL}]
  /\ hashhead \in [Oc -> HashHead \cup {NULL}]
  /\ hpool \in PoolType(HashHead) /\ opool \in PoolType(OcHead)
  /\ cpool \in PoolType(Oc)
  /\ removing \in octree \cup {NULL}

(***************************************************************************)
(* The lists and the back pointers agree: a record is on the list of       *)
(* exactly the key head its hashhead points to and of the head of exactly  *)
(* the object its objcore points to, and it has both pointers or neither.  *)
(* purge follows a key's list and dereferences objcore; xkey_remove        *)
(* follows an object's list and dereferences hashhead.                     *)
(***************************************************************************)
ListsAgree ==
  /\ \A c \in Oc, h \in HashHead : c \in hocs[h] <=> hashhead[c] = h
  /\ \A c \in Oc, h \in OcHead :
       c \in oocs[h] <=> objcore[c] # NULL /\ objcore[c] = okey[h]
  /\ \A c \in Oc : /\ objcore[c] = NULL <=> hashhead[c] = NULL
                   /\ \A h \in HashHead : hashhead[c] = h => h \in hashtree
                   /\ objcore[c] # NULL => \E h \in octree : okey[h] = objcore[c]

(***************************************************************************)
(* A head is in its tree exactly while it has a key, no two heads of a     *)
(* tree share a key (the tree comparison decides identity), a key head in  *)
(* the tree has records, and so has an object head unless xkey_remove is   *)
(* emptying it.  A pooled or freed head has an empty list (the assertions  *)
(* of xkey_hashhead_delete and xkey_ochead_delete), so reusing it is safe. *)
(***************************************************************************)
HeadsLive ==
  /\ \A h \in HashHead : h \in hashtree <=> hkey[h] # NULL
  /\ \A h \in OcHead : h \in octree <=> okey[h] # NULL
  /\ \A h, i \in hashtree : hkey[h] = hkey[i] => h = i
  /\ \A h, i \in octree : okey[h] = okey[i] => h = i
  /\ \A h \in HashHead : h \in hashtree <=> hocs[h] # {}
  /\ \A h \in OcHead : oocs[h] # {} => h \in octree
  /\ \A h \in octree \ {removing} : oocs[h] # {}

\* A pool holds allocated blocks, and the counter is the length of the list.
PoolSound(p) ==
  /\ p.list \subseteq p.heap
  /\ p.n = Cardinality(p.list)
  /\ p.n <= POOL_MAX

(***************************************************************************)
(* No block is lost and none is in two places: the allocated blocks of     *)
(* each type are the ones in use and, disjoint from them, the pooled ones. *)
(* The counters that *_new and *_delete test are the lengths of the pools, *)
(* which stay within POOL_MAX.                                             *)
(***************************************************************************)
NoLeak ==
  /\ PoolSound(hpool) /\ PoolSound(opool) /\ PoolSound(cpool)
  /\ hpool.heap \ hpool.list = hashtree
  /\ opool.heap \ opool.list = octree
  /\ cpool.heap \ cpool.list = {c \in Oc : objcore[c] # NULL}

-----------------------------------------------------------------------------
(***************************************************************************)
(* The records that tie object o to key d, as purge would find them from   *)
(* the key's list.  An object loses its tags when xkey_remove starts on    *)
(* it: until the mutex is released nobody can see the difference.          *)
(***************************************************************************)
Records(o, d) ==
  {c \in Oc : /\ objcore[c] = o
              /\ \E h \in hashtree : hkey[h] = d /\ c \in hocs[h]
              /\ \A h \in octree : h = removing => okey[h] # o}

Tags == INSTANCE XkeyTags
          WITH links <- [o \in ObjCore |->
                          [d \in Digest |-> Cardinality(Records(o, d))]]

\* The index of vmod_xkey.c implements the abstract map from objects to tags:
\* xkey_insert adds one tag, xkey_remove drops those of one object, no more.
ImplementsTags == Tags!Spec
=============================================================================
