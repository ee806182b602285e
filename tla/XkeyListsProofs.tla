-------------------------- MODULE XkeyListsProofs ---------------------------
(***************************************************************************)
(* Proofs about XkeyIndex and XkeyLists for every number of objects, keys  *)
(* and blocks and every POOL_MAX: the invariant of the index; that the     *)
(* index implements XkeyTags; and that the pointers make up the lists, and *)
(* so the steps on them are those of the index.                            *)
(***************************************************************************)
EXTENDS XkeyLists, FiniteSetTheorems, WellFoundedInduction, TLAPS

\* What the code's assertions rely on, in one inductive invariant.
IndexInv == TypeOK /\ ListsAgree /\ HeadsLive /\ NoLeak

InUse(p) == p.heap \ p.list

-----------------------------------------------------------------------------
\* A block that a *_new function of vmod_xkey.c returns was not in use, and is
\* afterwards; the pool stays sound.
LEMMA TakeSound ==
  ASSUME NEW Block, IsFiniteSet(Block), NEW p \in PoolType(Block), PoolSound(p),
         NEW b \in Block, CanTake(p, b)
  PROVE  /\ b \notin InUse(p)
         /\ Take(p, b) \in PoolType(Block)
         /\ PoolSound(Take(p, b))
         /\ InUse(Take(p, b)) = InUse(p) \cup {b}
<1>1. IsFiniteSet(p.list)
  BY FS_Subset DEF PoolType
<1>2. CASE p.n > 0
  <2>1. b \in p.list /\ Take(p, b) = [p EXCEPT !.list = @ \ {b}, !.n = @ - 1]
    BY <1>2 DEF CanTake, Take
  <2>2. Cardinality(p.list \ {b}) = Cardinality(p.list) - 1
    BY <1>1, <2>1, FS_RemoveElement
  <2>3. p.heap \subseteq Block /\ p.list \subseteq p.heap /\ p.n \in Nat
        /\ p.n = Cardinality(p.list) /\ p.n <= POOL_MAX
    BY DEF PoolType, PoolSound
  <2>4. Take(p, b) = [heap |-> p.heap, list |-> p.list \ {b}, n |-> p.n - 1]
    BY <2>1 DEF PoolType
  <2>5. p.n - 1 \in Nat /\ p.n - 1 <= POOL_MAX
    BY <1>2, <2>3, IndexAssumption
  <2> QED
    BY <2>1, <2>2, <2>3, <2>4, <2>5 DEF PoolType, PoolSound, InUse
<1>3. CASE ~(p.n > 0)
  <2>1. b \notin p.heap
        /\ Take(p, b) = [heap |-> p.heap \cup {b}, list |-> p.list, n |-> p.n]
    BY <1>3 DEF CanTake, Take, PoolType
  <2> QED
    BY <2>1 DEF PoolType, PoolSound, InUse
<1> QED
  BY <1>2, <1>3

\* A block handed to a *_delete function is no longer in use; the pool stays
\* sound, whether it keeps the block or frees it.
LEMMA GiveSound ==
  ASSUME NEW Block, IsFiniteSet(Block), NEW p \in PoolType(Block), PoolSound(p),
         NEW b \in InUse(p)
  PROVE  /\ Give(p, b) \in PoolType(Block)
         /\ PoolSound(Give(p, b))
         /\ InUse(Give(p, b)) = InUse(p) \ {b}
<1>1. IsFiniteSet(p.list)
  BY FS_Subset DEF PoolType
<1>2. CASE p.n < POOL_MAX
  <2>1. Give(p, b) = [heap |-> p.heap, list |-> p.list \cup {b}, n |-> p.n + 1]
    BY <1>2 DEF Give, PoolType
  <2>2. Cardinality(p.list \cup {b}) = Cardinality(p.list) + 1
    BY <1>1, FS_AddElement DEF InUse
  <2>3. p.n + 1 \in Nat /\ p.n + 1 <= POOL_MAX
    BY <1>2, IndexAssumption DEF PoolType
  <2> QED
    BY <2>1, <2>2, <2>3 DEF PoolType, PoolSound, InUse
<1>3. CASE ~(p.n < POOL_MAX)
  <2>1. Give(p, b) = [heap |-> p.heap \ {b}, list |-> p.list, n |-> p.n]
    BY <1>3 DEF Give, PoolType
  <2> QED
    BY <2>1 DEF PoolType, PoolSound, InUse
<1> QED
  BY <1>2, <1>3

\* Taking a block and giving it back, as the tree inserts do when they find
\* the key present, leaves the blocks in use as they were.
LEMMA TakeGiveSound ==
  ASSUME NEW Block, IsFiniteSet(Block), NEW p \in PoolType(Block), PoolSound(p),
         NEW b \in Block, CanTake(p, b)
  PROVE  /\ Give(Take(p, b), b) \in PoolType(Block)
         /\ PoolSound(Give(Take(p, b), b))
         /\ InUse(Give(Take(p, b), b)) = InUse(p)
<1> DEFINE q == Take(p, b)
<1>1. /\ b \notin InUse(p) /\ q \in PoolType(Block) /\ PoolSound(q)
      /\ InUse(q) = InUse(p) \cup {b}
  BY TakeSound
<1> HIDE DEF q
<1>2. /\ Give(q, b) \in PoolType(Block) /\ PoolSound(Give(q, b))
      /\ InUse(Give(q, b)) = InUse(q) \ {b}
  BY <1>1, GiveSound
<1> QED
  BY <1>1, <1>2 DEF q

-----------------------------------------------------------------------------
\* What xkey_octree_insert guarantees about the head it returns and the tree.
LEMMA OctreeInsert ==
  ASSUME IndexInv, NEW o \in ObjCore, NEW h \in OcHead,
         xkey_octree_insert(o, h)
  PROVE  /\ opool' \in PoolType(OcHead) /\ PoolSound(opool')
         /\ InUse(opool') = octree'
         /\ octree' = octree \cup {h}
         /\ okey' = [okey EXCEPT ![h] = o]
         /\ \A x \in octree : okey[x] = o => x = h
         /\ h \in octree => okey[h] = o
         /\ h \notin octree => oocs[h] = {}
<1>1. PICK new \in OcHead :
        /\ CanTake(opool, new)
        /\ \/ /\ h \in octree /\ okey[h] = o
              /\ opool' = Give(Take(opool, new), new)
              /\ UNCHANGED <<octree, okey>>
           \/ /\ \A x \in octree : okey[x] # o
              /\ h = new
              /\ opool' = Take(opool, new)
              /\ octree' = octree \cup {new}
              /\ okey' = [okey EXCEPT ![new] = o]
  BY DEF xkey_octree_insert
<1>2. /\ opool \in PoolType(OcHead) /\ PoolSound(opool) /\ IsFiniteSet(OcHead)
      /\ InUse(opool) = octree
  BY IndexAssumption DEF IndexInv, TypeOK, NoLeak, InUse
<1>3. /\ new \notin octree
      /\ Take(opool, new) \in PoolType(OcHead) /\ PoolSound(Take(opool, new))
      /\ InUse(Take(opool, new)) = octree \cup {new}
  BY <1>1, <1>2, TakeSound
<1>4. /\ Give(Take(opool, new), new) \in PoolType(OcHead)
      /\ PoolSound(Give(Take(opool, new), new))
      /\ InUse(Give(Take(opool, new), new)) = octree
  BY <1>1, <1>2, TakeGiveSound
<1>5. CASE h \in octree
  <2>1. okey[h] = o /\ UNCHANGED <<octree, okey>> /\ opool' = Give(Take(opool, new), new)
    BY <1>1, <1>3, <1>5
  <2> QED
    BY <1>4, <1>5, <2>1 DEF IndexInv, TypeOK, HeadsLive
<1>6. CASE h \notin octree
  <2>1. /\ h = new /\ opool' = Take(opool, new) /\ octree' = octree \cup {new}
        /\ okey' = [okey EXCEPT ![new] = o] /\ \A x \in octree : okey[x] # o
    BY <1>1, <1>6
  <2> QED
    BY <1>3, <1>6, <2>1 DEF IndexInv, TypeOK, HeadsLive
<1> QED
  BY <1>5, <1>6

\* The same for xkey_hashtree_insert.
LEMMA HashtreeInsert ==
  ASSUME IndexInv, NEW d \in Digest, NEW h \in HashHead,
         xkey_hashtree_insert(d, h)
  PROVE  /\ hpool' \in PoolType(HashHead) /\ PoolSound(hpool')
         /\ InUse(hpool') = hashtree'
         /\ hashtree' = hashtree \cup {h}
         /\ hkey' = [hkey EXCEPT ![h] = d]
         /\ \A x \in hashtree : hkey[x] = d => x = h
         /\ h \in hashtree => hkey[h] = d
         /\ h \notin hashtree => hocs[h] = {}
<1>1. PICK new \in HashHead :
        /\ CanTake(hpool, new)
        /\ \/ /\ h \in hashtree /\ hkey[h] = d
              /\ hpool' = Give(Take(hpool, new), new)
              /\ UNCHANGED <<hashtree, hkey>>
           \/ /\ \A x \in hashtree : hkey[x] # d
              /\ h = new
              /\ hpool' = Take(hpool, new)
              /\ hashtree' = hashtree \cup {new}
              /\ hkey' = [hkey EXCEPT ![new] = d]
  BY DEF xkey_hashtree_insert
<1>2. /\ hpool \in PoolType(HashHead) /\ PoolSound(hpool) /\ IsFiniteSet(HashHead)
      /\ InUse(hpool) = hashtree
  BY IndexAssumption DEF IndexInv, TypeOK, NoLeak, InUse
<1>3. /\ new \notin hashtree
      /\ Take(hpool, new) \in PoolType(HashHead) /\ PoolSound(Take(hpool, new))
      /\ InUse(Take(hpool, new)) = hashtree \cup {new}
  BY <1>1, <1>2, TakeSound
<1>4. /\ Give(Take(hpool, new), new) \in PoolType(HashHead)
      /\ PoolSound(Give(Take(hpool, new), new))
      /\ InUse(Give(Take(hpool, new), new)) = hashtree
  BY <1>1, <1>2, TakeGiveSound
<1>5. CASE h \in hashtree
  <2>1. hkey[h] = d /\ UNCHANGED <<hashtree, hkey>> /\ hpool' = Give(Take(hpool, new), new)
    BY <1>1, <1>3, <1>5
  <2> QED
    BY <1>4, <1>5, <2>1 DEF IndexInv, TypeOK, HeadsLive
<1>6. CASE h \notin hashtree
  <2>1. /\ h = new /\ hpool' = Take(hpool, new) /\ hashtree' = hashtree \cup {new}
        /\ hkey' = [hkey EXCEPT ![new] = d] /\ \A x \in hashtree : hkey[x] # d
    BY <1>1, <1>6
  <2> QED
    BY <1>3, <1>6, <2>1 DEF IndexInv, TypeOK, HeadsLive
<1> QED
  BY <1>5, <1>6

-----------------------------------------------------------------------------
\* The index starts out empty, with empty pools.
LEMMA InitInv == Init => IndexInv
<1> SUFFICES ASSUME Init PROVE IndexInv
  OBVIOUS
<1>1. Cardinality({}) = 0
  BY FS_EmptySet
<1>2. TypeOK
  BY DEF Init, TypeOK, EmptyPool, PoolType
<1>3. ListsAgree
  BY IndexAssumption DEF Init, ListsAgree
<1>4. HeadsLive
  BY DEF Init, HeadsLive
<1>5. NoLeak
  BY <1>1, IndexAssumption DEF Init, NoLeak, PoolSound, EmptyPool
<1> QED
  BY <1>2, <1>3, <1>4, <1>5 DEF IndexInv

\* xkey_insert keeps the invariant.
LEMMA InsertInv ==
  ASSUME IndexInv, NEW o \in ObjCore, NEW d \in Digest, xkey_insert(o, d)
  PROVE  IndexInv'
<1>0. o # NULL /\ d # NULL /\ NULL \notin HashHead /\ NULL \notin OcHead
  BY IndexAssumption
<1>1. PICK oh \in OcHead, hh \in HashHead, c \in Oc :
        /\ xkey_octree_insert(o, oh)
        /\ xkey_hashtree_insert(d, hh)
        /\ CanTake(cpool, c)
        /\ cpool' = Take(cpool, c)
        /\ oocs' = [oocs EXCEPT ![oh] = @ \cup {c}]
        /\ hocs' = [hocs EXCEPT ![hh] = @ \cup {c}]
        /\ objcore' = [objcore EXCEPT ![c] = o]
        /\ hashhead' = [hashhead EXCEPT ![c] = hh]
  BY DEF xkey_insert, Tie
<1>2. removing = NULL /\ removing' = NULL
  BY DEF xkey_insert, Tie
<1>3. /\ opool' \in PoolType(OcHead) /\ PoolSound(opool')
      /\ InUse(opool') = octree'
      /\ octree' = octree \cup {oh}
      /\ okey' = [okey EXCEPT ![oh] = o]
      /\ \A x \in octree : okey[x] = o => x = oh
      /\ oh \in octree => okey[oh] = o
      /\ oh \notin octree => oocs[oh] = {}
  BY <1>1, OctreeInsert
<1>4. /\ hpool' \in PoolType(HashHead) /\ PoolSound(hpool')
      /\ InUse(hpool') = hashtree'
      /\ hashtree' = hashtree \cup {hh}
      /\ hkey' = [hkey EXCEPT ![hh] = d]
      /\ \A x \in hashtree : hkey[x] = d => x = hh
      /\ hh \in hashtree => hkey[hh] = d
      /\ hh \notin hashtree => hocs[hh] = {}
  BY <1>1, HashtreeInsert
<1>5. /\ c \notin InUse(cpool)
      /\ cpool' \in PoolType(Oc) /\ PoolSound(cpool')
      /\ InUse(cpool') = InUse(cpool) \cup {c}
  <2>1. cpool \in PoolType(Oc) /\ PoolSound(cpool) /\ IsFiniteSet(Oc)
    BY IndexAssumption DEF IndexInv, TypeOK, NoLeak
  <2> QED
    BY <1>1, <2>1, TakeSound
<1>6. objcore[c] = NULL /\ hashhead[c] = NULL
  BY <1>5 DEF IndexInv, NoLeak, InUse, ListsAgree
<1>7. TypeOK'
  BY <1>0, <1>1, <1>2, <1>3, <1>4, <1>5 DEF IndexInv, TypeOK
<1>8. ListsAgree'
  <2>1. \A x \in Oc, h \in HashHead : x \in hocs'[h] <=> hashhead'[x] = h
    BY <1>0, <1>1, <1>6 DEF IndexInv, TypeOK, ListsAgree
  <2>2. \A x \in Oc, h \in OcHead :
          x \in oocs'[h] <=> objcore'[x] # NULL /\ objcore'[x] = okey'[h]
    BY <1>0, <1>1, <1>3, <1>6 DEF IndexInv, TypeOK, ListsAgree, HeadsLive
  <2>3. \A x \in Oc : objcore'[x] = NULL <=> hashhead'[x] = NULL
    BY <1>0, <1>1, <1>6 DEF IndexInv, TypeOK, ListsAgree
  <2>4. \A x \in Oc : \A h \in HashHead : hashhead'[x] = h => h \in hashtree'
    BY <1>1, <1>4 DEF IndexInv, TypeOK, ListsAgree
  <2>5. \A x \in Oc : objcore'[x] # NULL => \E h \in octree' : okey'[h] = objcore'[x]
    <3> SUFFICES ASSUME NEW x \in Oc, objcore'[x] # NULL
                 PROVE  \E h \in octree' : okey'[h] = objcore'[x]
      OBVIOUS
    <3>1. okey'[oh] = o /\ oh \in octree'
      BY <1>3 DEF IndexInv, TypeOK
    <3>2. CASE x = c
      BY <1>1, <3>1, <3>2 DEF IndexInv, TypeOK
    <3>3. CASE x # c
      <4>1. PICK h \in octree : okey[h] = objcore[x]
        BY <1>1, <3>3 DEF IndexInv, TypeOK, ListsAgree
      <4>2. h \in octree' /\ okey'[h] = okey[h]
        BY <1>3, <4>1 DEF IndexInv, TypeOK
      <4> QED
        BY <1>1, <3>3, <4>1, <4>2 DEF IndexInv, TypeOK
    <3> QED
      BY <3>2, <3>3
  <2> QED
    BY <2>1, <2>2, <2>3, <2>4, <2>5 DEF ListsAgree
<1>9. HeadsLive'
  <2>1. /\ \A h \in HashHead : h \in hashtree' <=> hkey'[h] # NULL
        /\ \A h, i \in hashtree' : hkey'[h] = hkey'[i] => h = i
    BY <1>0, <1>4 DEF IndexInv, TypeOK, HeadsLive
  <2>2. /\ \A h \in OcHead : h \in octree' <=> okey'[h] # NULL
        /\ \A h, i \in octree' : okey'[h] = okey'[i] => h = i
    BY <1>0, <1>3 DEF IndexInv, TypeOK, HeadsLive
  <2>3. \A h \in HashHead : h \in hashtree' <=> hocs'[h] # {}
    BY <1>1, <1>4 DEF IndexInv, TypeOK, HeadsLive
  <2>4. /\ \A h \in OcHead : oocs'[h] # {} => h \in octree'
        /\ \A h \in octree' \ {removing'} : oocs'[h] # {}
    <3>1. /\ oocs \in [OcHead -> SUBSET Oc] /\ octree \subseteq OcHead
          /\ \A h \in OcHead : oocs[h] # {} => h \in octree
          /\ \A h \in octree \ {removing} : oocs[h] # {}
      BY DEF IndexInv, TypeOK, HeadsLive
    <3> QED
      BY <1>1, <1>2, <1>3, <3>1
  <2> QED
    BY <2>1, <2>2, <2>3, <2>4 DEF HeadsLive
<1>10. NoLeak'
  BY <1>0, <1>1, <1>3, <1>4, <1>5 DEF IndexInv, TypeOK, NoLeak, InUse
<1> QED
  BY <1>7, <1>8, <1>9, <1>10 DEF IndexInv

\* A step of the loop of xkey_remove keeps the invariant.
LEMMA RemoveStepInv ==
  ASSUME IndexInv, xkey_remove_step
  PROVE  IndexInv'
<1>0. NULL \notin HashHead /\ NULL \notin OcHead /\ removing \in octree
  BY IndexAssumption DEF IndexInv, TypeOK, xkey_remove_step
<1>1. PICK c \in oocs[removing] :
        LET hh == hashhead[c] IN
        /\ hocs' = [hocs EXCEPT ![hh] = @ \ {c}]
        /\ \/ /\ hocs[hh] = {c}
              /\ hashtree' = hashtree \ {hh}
              /\ hkey' = [hkey EXCEPT ![hh] = NULL]
              /\ hpool' = Give(hpool, hh)
           \/ /\ hocs[hh] # {c}
              /\ UNCHANGED <<hashtree, hkey, hpool>>
        /\ hashhead' = [hashhead EXCEPT ![c] = NULL]
        /\ objcore' = [objcore EXCEPT ![c] = NULL]
        /\ oocs' = [oocs EXCEPT ![removing] = @ \ {c}]
        /\ cpool' = Give(cpool, c)
  BY DEF xkey_remove_step, Untie
<1>2. UNCHANGED <<octree, okey, opool, removing>>
  BY DEF xkey_remove_step, Untie
<1> DEFINE hh == hashhead[c]
<1>3. c \in Oc /\ objcore[c] # NULL /\ objcore[c] = okey[removing]
  BY <1>0 DEF IndexInv, TypeOK, ListsAgree
<1>4. hh \in hashtree /\ hh \in HashHead /\ c \in hocs[hh]
  BY <1>3 DEF IndexInv, TypeOK, ListsAgree
<1>5. /\ cpool' \in PoolType(Oc) /\ PoolSound(cpool')
      /\ InUse(cpool') = InUse(cpool) \ {c}
  <2>1. /\ cpool \in PoolType(Oc) /\ PoolSound(cpool) /\ IsFiniteSet(Oc)
        /\ c \in InUse(cpool)
    BY <1>3, IndexAssumption DEF IndexInv, TypeOK, NoLeak, InUse
  <2> QED
    BY <1>1, <2>1, GiveSound
<1>6. /\ hpool' \in PoolType(HashHead) /\ PoolSound(hpool')
      /\ InUse(hpool') = hashtree'
  <2>1. /\ hpool \in PoolType(HashHead) /\ PoolSound(hpool)
        /\ IsFiniteSet(HashHead) /\ InUse(hpool) = hashtree
    BY IndexAssumption DEF IndexInv, TypeOK, NoLeak, InUse
  <2>2. CASE hocs[hh] = {c}
    <3>1. hpool' = Give(hpool, hh) /\ hashtree' = hashtree \ {hh}
      BY <1>1, <2>2
    <3> HIDE DEF hh
    <3> QED
      BY <1>4, <2>1, <3>1, GiveSound
  <2>3. CASE hocs[hh] # {c}
    BY <1>1, <2>1, <2>3
  <2> QED
    BY <2>2, <2>3
<1>7. /\ \A h \in HashHead : h \in hashtree' <=> hocs'[h] # {}
      /\ hkey' \in [HashHead -> Digest \cup {NULL}]
      /\ hashtree' \subseteq hashtree
      /\ \A h \in HashHead : hkey'[h] = IF h \in hashtree' THEN hkey[h] ELSE NULL
  <2>1. CASE hocs[hh] = {c}
    BY <1>1, <1>4, <2>1 DEF IndexInv, TypeOK, HeadsLive
  <2>2. CASE hocs[hh] # {c}
    BY <1>1, <1>4, <2>2 DEF IndexInv, TypeOK, HeadsLive
  <2> QED
    BY <2>1, <2>2
<1>8. /\ hocs' = [hocs EXCEPT ![hh] = @ \ {c}]
      /\ hashhead' = [hashhead EXCEPT ![c] = NULL]
      /\ objcore' = [objcore EXCEPT ![c] = NULL]
      /\ oocs' = [oocs EXCEPT ![removing] = @ \ {c}]
  BY <1>1
<1>9. TypeOK'
  <2>1. /\ hashtree' \subseteq HashHead /\ hocs' \in [HashHead -> SUBSET Oc]
        /\ oocs' \in [OcHead -> SUBSET Oc]
        /\ objcore' \in [Oc -> ObjCore \cup {NULL}]
        /\ hashhead' \in [Oc -> HashHead \cup {NULL}]
    BY <1>4, <1>7, <1>8 DEF IndexInv, TypeOK
  <2> QED
    BY <1>2, <1>5, <1>6, <1>7, <2>1 DEF IndexInv, TypeOK
<1>10. ListsAgree'
  <2>1. \A x \in Oc, h \in HashHead : x \in hocs'[h] <=> hashhead'[x] = h
    BY <1>0, <1>4, <1>8 DEF IndexInv, TypeOK, ListsAgree
  <2>2. \A x \in Oc, h \in OcHead :
          x \in oocs'[h] <=> objcore'[x] # NULL /\ objcore'[x] = okey'[h]
    BY <1>0, <1>2, <1>3, <1>8 DEF IndexInv, TypeOK, ListsAgree, HeadsLive
  <2>3. \A x \in Oc : objcore'[x] = NULL <=> hashhead'[x] = NULL
    BY <1>3, <1>8 DEF IndexInv, TypeOK, ListsAgree
  <2>4. \A x \in Oc : \A h \in HashHead : hashhead'[x] = h => h \in hashtree'
    BY <1>7, <2>1
  <2>5. \A x \in Oc : objcore'[x] # NULL => \E h \in octree' : okey'[h] = objcore'[x]
    BY <1>2, <1>8 DEF IndexInv, TypeOK, ListsAgree
  <2> QED
    BY <2>1, <2>2, <2>3, <2>4, <2>5 DEF ListsAgree
<1>11. HeadsLive'
  <2>1. /\ \A h \in HashHead : h \in hashtree' <=> hkey'[h] # NULL
        /\ \A h, i \in hashtree' : hkey'[h] = hkey'[i] => h = i
    BY <1>7 DEF IndexInv, TypeOK, HeadsLive
  <2>2. /\ \A h \in OcHead : oocs'[h] # {} => h \in octree'
        /\ \A h \in octree' \ {removing'} : oocs'[h] # {}
    BY <1>0, <1>2, <1>8 DEF IndexInv, TypeOK, HeadsLive
  <2> QED
    BY <1>2, <1>7, <2>1, <2>2 DEF IndexInv, HeadsLive
<1>12. NoLeak'
  <2>1. InUse(cpool') = {x \in Oc : objcore'[x] # NULL}
    BY <1>5, <1>8 DEF IndexInv, TypeOK, NoLeak, InUse
  <2> QED
    BY <1>2, <1>5, <1>6, <2>1 DEF IndexInv, NoLeak, InUse
<1> QED
  BY <1>9, <1>10, <1>11, <1>12 DEF IndexInv

\* The end of xkey_remove keeps the invariant.
LEMMA RemoveEndInv ==
  ASSUME IndexInv, xkey_remove_end
  PROVE  IndexInv'
<1>0. /\ removing \in octree /\ removing \in OcHead /\ oocs[removing] = {}
      /\ NULL \notin OcHead
  BY IndexAssumption DEF IndexInv, TypeOK, xkey_remove_end
<1>1. /\ octree' = octree \ {removing}
      /\ okey' = [okey EXCEPT ![removing] = NULL]
      /\ opool' = Give(opool, removing)
      /\ removing' = NULL
      /\ UNCHANGED <<hashtree, hkey, hocs, oocs, objcore, hashhead, hpool, cpool>>
  BY DEF xkey_remove_end
<1>2. /\ opool' \in PoolType(OcHead) /\ PoolSound(opool')
      /\ InUse(opool') = octree'
  <2>1. /\ opool \in PoolType(OcHead) /\ PoolSound(opool)
        /\ IsFiniteSet(OcHead) /\ InUse(opool) = octree
    BY IndexAssumption DEF IndexInv, TypeOK, NoLeak, InUse
  <2> QED
    BY <1>0, <1>1, <2>1, GiveSound
<1>3. TypeOK'
  BY <1>0, <1>1, <1>2 DEF IndexInv, TypeOK
<1>4. ListsAgree'
  <2>1. \A x \in Oc : objcore[x] = NULL \/ objcore[x] # okey[removing]
    BY <1>0 DEF IndexInv, ListsAgree
  <2>2. \A x \in Oc, h \in OcHead :
          x \in oocs[h] <=> objcore[x] # NULL /\ objcore[x] = okey'[h]
    BY <1>0, <1>1, <2>1 DEF IndexInv, TypeOK, ListsAgree
  <2>3. \A x \in Oc : objcore[x] # NULL => \E h \in octree' : okey'[h] = objcore[x]
    <3> SUFFICES ASSUME NEW x \in Oc, objcore[x] # NULL
                 PROVE  \E h \in octree' : okey'[h] = objcore[x]
      OBVIOUS
    <3>1. PICK h \in octree : okey[h] = objcore[x]
      BY DEF IndexInv, ListsAgree
    <3>2. h # removing
      BY <2>1, <3>1
    <3> QED
      BY <1>1, <3>1, <3>2 DEF IndexInv, TypeOK
  <2> QED
    BY <1>1, <2>2, <2>3 DEF IndexInv, ListsAgree
<1>5. HeadsLive'
  BY <1>0, <1>1 DEF IndexInv, TypeOK, HeadsLive
<1>6. NoLeak'
  BY <1>1, <1>2 DEF IndexInv, NoLeak, InUse
<1> QED
  BY <1>3, <1>4, <1>5, <1>6 DEF IndexInv

\* Every step keeps the invariant.
LEMMA NextInv == IndexInv /\ [Next]_vars => IndexInv'
<1> SUFFICES ASSUME IndexInv, [Next]_vars PROVE IndexInv'
  OBVIOUS
<1>1. ASSUME NEW o \in ObjCore, NEW d \in Digest, xkey_insert(o, d) PROVE IndexInv'
  BY <1>1, InsertInv
<1>2. ASSUME NEW o \in ObjCore, xkey_remove_start(o) PROVE IndexInv'
  <2>1. /\ removing' \in octree
        /\ UNCHANGED <<hashtree, hkey, hocs, octree, okey, oocs, objcore, hashhead,
                       hpool, opool, cpool>>
    BY <1>2 DEF xkey_remove_start
  <2>2. removing = NULL /\ NULL \notin OcHead
    BY <1>2, IndexAssumption DEF xkey_remove_start
  <2>3. TypeOK' /\ ListsAgree' /\ NoLeak'
    BY <2>1 DEF IndexInv, TypeOK, ListsAgree, NoLeak
  <2>4. HeadsLive'
    BY <2>1, <2>2 DEF IndexInv, TypeOK, HeadsLive
  <2> QED
    BY <2>3, <2>4 DEF IndexInv
<1>3. CASE xkey_remove_step
  BY <1>3, RemoveStepInv
<1>4. CASE xkey_remove_end
  BY <1>4, RemoveEndInv
<1>5. CASE UNCHANGED vars
  BY <1>5 DEF vars, IndexInv, TypeOK, ListsAgree, HeadsLive, NoLeak
<1> QED
  BY <1>1, <1>2, <1>3, <1>4, <1>5 DEF Next

\* In every state of the index of vmod_xkey.c the lists agree with the back
\* pointers, heads are in their tree exactly while they are needed, and no
\* block is lost: for any number of objects, keys and blocks, any POOL_MAX.
THEOREM IndexCorrect == Spec => [](TypeOK /\ ListsAgree /\ HeadsLive /\ NoLeak)
<1>1. IndexInv => TypeOK /\ ListsAgree /\ HeadsLive /\ NoLeak
  BY DEF IndexInv
<1> QED
  BY <1>1, InitInv, NextInv, PTL DEF Spec

\* The heads, records and pools of vmod_xkey.c keep their types; no pool has
\* more than POOL_MAX blocks.
THEOREM IndexType == Spec => []TypeOK
  BY IndexCorrect, PTL

\* A record of vmod_xkey.c is on the list of its key and on that of its object,
\* or on none, also in the middle of xkey_remove.
THEOREM IndexListsAgree == Spec => []ListsAgree
  BY IndexCorrect, PTL

\* xkey_remove drops the head of a key with its last record and not before; the
\* assertion that an object in the tree has records holds.
THEOREM IndexHeadsLive == Spec => []HeadsLive
  BY IndexCorrect, PTL

-----------------------------------------------------------------------------
\* The refinement mapping of XkeyIndex.
TagCount == [o \in ObjCore |-> [d \in Digest |-> Cardinality(Records(o, d))]]

\* An empty index has no tags.
LEMMA InitTags == Init => Tags!Init
<1> SUFFICES ASSUME Init PROVE Tags!Init
  OBVIOUS
<1>1. \A o \in ObjCore, d \in Digest : Records(o, d) = {}
  BY DEF Init, Records
<1>2. \A o \in ObjCore, d \in Digest : Cardinality(Records(o, d)) = 0
  BY <1>1, FS_EmptySet
<1> QED
  BY <1>2 DEF Tags!Init, Tags!NoTags, Tags!NoLinks

\* xkey_insert adds one record to the tags of one object and key.
LEMMA InsertTags ==
  ASSUME IndexInv, NEW o \in ObjCore, NEW d \in Digest, xkey_insert(o, d)
  PROVE  Tags!Insert(o, d)
<1>0. NULL \notin HashHead /\ NULL \notin OcHead /\ o # NULL
  BY IndexAssumption
<1>1. PICK oh \in OcHead, hh \in HashHead, c \in Oc :
        /\ xkey_octree_insert(o, oh)
        /\ xkey_hashtree_insert(d, hh)
        /\ CanTake(cpool, c)
        /\ hocs' = [hocs EXCEPT ![hh] = @ \cup {c}]
        /\ objcore' = [objcore EXCEPT ![c] = o]
  BY DEF xkey_insert, Tie
<1>2. removing = NULL /\ removing' = NULL
  BY DEF xkey_insert, Tie
<1>3. octree' \subseteq OcHead
  BY <1>1, OctreeInsert DEF IndexInv, TypeOK
<1>4. /\ hashtree' = hashtree \cup {hh}
      /\ hkey' = [hkey EXCEPT ![hh] = d]
      /\ hh \in hashtree => hkey[hh] = d
      /\ hh \notin hashtree => hocs[hh] = {}
  BY <1>1, HashtreeInsert
<1>5. objcore[c] = NULL
  <2>1. cpool \in PoolType(Oc) /\ PoolSound(cpool) /\ IsFiniteSet(Oc)
    BY IndexAssumption DEF IndexInv, TypeOK, NoLeak
  <2>2. c \notin InUse(cpool)
    BY <1>1, <2>1, TakeSound
  <2> QED
    BY <2>2 DEF IndexInv, NoLeak, InUse
<1>6. ASSUME NEW p \in ObjCore, NEW e \in Digest
      PROVE  Records(p, e)' = IF p = o /\ e = d THEN Records(p, e) \cup {c}
                                                ELSE Records(p, e)
  <2>1. p # NULL
    BY IndexAssumption
  <2>2. \A x \in Oc : (\E h \in hashtree' : hkey'[h] = e /\ x \in hocs'[h])
             <=> \/ \E h \in hashtree : hkey[h] = e /\ x \in hocs[h]
                 \/ x = c /\ e = d
    BY <1>1, <1>4 DEF IndexInv, TypeOK
  <2>3. \A h \in octree' : h # removing'
    BY <1>0, <1>2, <1>3
  <2>4. \A h \in octree : h # removing
    BY <1>0, <1>2 DEF IndexInv, TypeOK
  <2>5. \A x \in Oc : objcore'[x] = IF x = c THEN o ELSE objcore[x]
    BY <1>1 DEF IndexInv, TypeOK
  <2>6. Records(p, e) = {x \in Oc : objcore[x] = p
                           /\ \E h \in hashtree : hkey[h] = e /\ x \in hocs[h]}
    BY <2>4 DEF Records
  <2>7. Records(p, e)' = {x \in Oc : objcore'[x] = p
                           /\ \E h \in hashtree' : hkey'[h] = e /\ x \in hocs'[h]}
    BY <2>3 DEF Records
  <2>8. c \in Oc /\ \A x \in Oc : hocs \in [HashHead -> SUBSET Oc]
    BY <1>1 DEF IndexInv, TypeOK
  <2>9. \A h \in hashtree : c \notin hocs[h]
    BY <1>0, <1>5 DEF IndexInv, TypeOK, ListsAgree
  <2> QED
    BY <1>5, <2>1, <2>2, <2>5, <2>6, <2>7, <2>8, <2>9
<1>7. \A p \in ObjCore, e \in Digest :
        /\ IsFiniteSet(Records(p, e))
        /\ c \notin Records(p, e)
  BY <1>5, IndexAssumption, FS_Subset DEF Records
<1>8. ASSUME NEW p \in ObjCore, NEW e \in Digest
      PROVE  Cardinality(Records(p, e)') =
               IF p = o /\ e = d THEN Cardinality(Records(p, e)) + 1
                                 ELSE Cardinality(Records(p, e))
  <2>1. Cardinality(Records(p, e) \cup {c}) = Cardinality(Records(p, e)) + 1
    BY <1>7, FS_AddElement
  <2> QED
    BY <1>6, <2>1
<1>9. TagCount' = [TagCount EXCEPT ![o][d] = @ + 1]
  BY <1>8 DEF TagCount
<1> QED
  BY <1>9 DEF TagCount, Tags!Insert, Tags!Linked

\* Taking up the removal of an object drops all its tags and no other.
LEMMA RemoveStartTags ==
  ASSUME IndexInv, NEW o \in ObjCore, xkey_remove_start(o)
  PROVE  Tags!Remove(o)
<1>0. removing = NULL /\ NULL \notin OcHead
  BY IndexAssumption DEF xkey_remove_start
<1>1. PICK r \in octree : okey[r] = o /\ removing' = r
  BY DEF xkey_remove_start
<1>2. UNCHANGED <<hashtree, hkey, hocs, octree, okey, objcore>>
  BY DEF xkey_remove_start
<1>3. \A p \in ObjCore, e \in Digest :
        Records(p, e)' = IF p = o THEN {} ELSE Records(p, e)
  BY <1>0, <1>1, <1>2 DEF Records, IndexInv, TypeOK
<1>4. \A p \in ObjCore, e \in Digest :
        Cardinality(Records(p, e)') = IF p = o THEN 0 ELSE Cardinality(Records(p, e))
  BY <1>3, FS_EmptySet
<1>5. TagCount' = [TagCount EXCEPT ![o] = [d \in Digest |-> 0]]
  BY <1>4 DEF TagCount
<1> QED
  BY <1>5 DEF TagCount, Tags!Remove, Tags!Unlinked, Tags!NoLinks

\* The rest of the removal changes no tag that could be seen.
LEMMA RemoveRestTags ==
  ASSUME IndexInv, xkey_remove_step \/ xkey_remove_end
  PROVE  UNCHANGED TagCount
<1>0. removing \in octree /\ removing \in OcHead /\ NULL \notin OcHead
  BY IndexAssumption DEF IndexInv, TypeOK, xkey_remove_step, xkey_remove_end
<1> SUFFICES ASSUME NEW p \in ObjCore, NEW e \in Digest
             PROVE  Records(p, e)' = Records(p, e)
  BY DEF TagCount
<1>1. p # NULL /\ e # NULL
  BY IndexAssumption
<1>2. CASE xkey_remove_step
  <2>1. PICK c \in oocs[removing] :
          LET hh == hashhead[c] IN
          /\ hocs' = [hocs EXCEPT ![hh] = @ \ {c}]
          /\ \/ /\ hocs[hh] = {c}
                /\ hashtree' = hashtree \ {hh}
                /\ hkey' = [hkey EXCEPT ![hh] = NULL]
             \/ /\ hocs[hh] # {c}
                /\ UNCHANGED <<hashtree, hkey>>
          /\ objcore' = [objcore EXCEPT ![c] = NULL]
    BY <1>2 DEF xkey_remove_step, Untie
  <2>2. UNCHANGED <<octree, okey, removing>>
    BY <1>2 DEF xkey_remove_step, Untie
  <2>3. c \in Oc /\ objcore[c] = okey[removing] /\ hashhead[c] \in HashHead
    BY <1>0 DEF IndexInv, TypeOK, ListsAgree
  <2>4. CASE p = okey[removing]
    BY <1>0, <2>2, <2>4 DEF Records
  <2>5. CASE p # okey[removing]
    <3>1. objcore[c] # p
      BY <2>3, <2>5
    <3>2. \A x \in Oc : x # c =>
            ((\E h \in hashtree' : hkey'[h] = e /\ x \in hocs'[h])
               <=> \E h \in hashtree : hkey[h] = e /\ x \in hocs[h])
      BY <1>1, <2>1, <2>3 DEF IndexInv, TypeOK
    <3>3. \A x \in Oc : objcore'[x] = IF x = c THEN NULL ELSE objcore[x]
      BY <2>1, <2>3 DEF IndexInv, TypeOK
    <3> QED
      BY <1>1, <2>2, <2>3, <3>1, <3>2, <3>3 DEF Records
  <2> QED
    BY <2>4, <2>5
<1>3. CASE xkey_remove_end
  <2>1. /\ UNCHANGED <<hashtree, hkey, hocs, objcore>>
        /\ octree' \subseteq octree /\ removing' = NULL /\ oocs[removing] = {}
    BY <1>3 DEF xkey_remove_end
  <2>2. \A h \in octree' : h # removing'
    BY <1>0, <2>1 DEF IndexInv, TypeOK
  <2>3. CASE p = okey[removing]
    <3>1. \A x \in Oc : objcore[x] # p
      BY <1>0, <1>1, <2>1, <2>3 DEF IndexInv, TypeOK, ListsAgree
    <3> QED
      BY <2>1, <3>1 DEF Records
  <2>4. CASE p # okey[removing]
    BY <2>1, <2>2, <2>4 DEF Records
  <2> QED
    BY <2>3, <2>4
<1> QED
  BY <1>2, <1>3

\* The trees, lists and pools of vmod_xkey.c implement the abstract map from
\* objects to tags, for any number of objects, keys and blocks.
THEOREM IndexRefinesTags == Spec => ImplementsTags
<1>1. IndexInv /\ [Next]_vars => [Tags!Next]_TagCount
  <2> SUFFICES ASSUME IndexInv, [Next]_vars PROVE [Tags!Next]_TagCount
    OBVIOUS
  <2>1. ASSUME NEW o \in ObjCore, NEW d \in Digest, xkey_insert(o, d) PROVE Tags!Next
    BY <2>1, InsertTags DEF Tags!Next
  <2>2. ASSUME NEW o \in ObjCore, xkey_remove_start(o) PROVE Tags!Next
    BY <2>2, RemoveStartTags DEF Tags!Next
  <2>3. CASE xkey_remove_step \/ xkey_remove_end
    BY <2>3, RemoveRestTags
  <2>4. CASE UNCHANGED vars
    BY <2>4 DEF vars, TagCount, Records
  <2> QED
    BY <2>1, <2>2, <2>3, <2>4 DEF Next
<1> QED
  BY <1>1, InitInv, NextInv, InitTags, PTL DEF Spec, ImplementsTags, Tags!Spec, TagCount

-----------------------------------------------------------------------------
(***************************************************************************)
(* The pointers.                                                           *)
(***************************************************************************)
MemType == [ptr : [Cell -> Oc \cup {NULL}],
            prev : [Field \X Oc -> Cell \cup {NULL}],
            last : [List -> Cell]]

(***************************************************************************)
(* List l links records s[1], ..., s[n] by field f: s is what walking      *)
(* along the list finds.                                                   *)
(***************************************************************************)
At(l, f, s, k) == IF k = 0 THEN <<"first", l>> ELSE <<f, s[k]>>

Chain(m, l, f, n, s) ==
  /\ \A i, j \in 1..n : s[i] = s[j] => i = j
  /\ \A k \in 1..n : /\ m.ptr[At(l, f, s, k - 1)] = s[k]
                     /\ m.prev[<<f, s[k]>>] = At(l, f, s, k - 1)
  /\ m.ptr[At(l, f, s, n)] = NULL
  /\ m.last[l] = At(l, f, s, n)

\* List l links the records of set S by field f, in some order.
Linked(m, l, f, S) ==
  \E n \in Nat : \E s \in [1..n -> Oc] :
    /\ Chain(m, l, f, n, s)
    /\ S = {s[k] : k \in 1..n}

-----------------------------------------------------------------------------
\* Cells are what they look like.
LEMMA Cells ==
  /\ \A l \in List : <<"first", l>> \in Cell
  /\ \A f \in Field, c \in Oc : <<f, c>> \in Cell /\ <<f, c>> \in Field \X Oc
  /\ \A l \in List, f \in Field, c \in Oc : <<"first", l>> # <<f, c>>
  /\ \A x \in Cell : (\E l \in List : x = <<"first", l>>)
                     \/ (\E f \in Field, c \in Oc : x = <<f, c>>)
  BY DEF Cell, Field

LEMMA ChainLinked ==
  ASSUME NEW m, NEW l, NEW f, NEW n \in Nat, NEW s \in [1..n -> Oc], Chain(m, l, f, n, s),
         NEW S, S = {s[k] : k \in 1..n}
  PROVE  Linked(m, l, f, S)
  BY DEF Linked

\* What VTAILQ_INSERT_TAIL writes.
LEMMA TailWrites ==
  ASSUME NEW m \in MemType, NEW l \in List, NEW f \in Field, NEW c \in Oc
  PROVE  LET w == INSERT_TAIL(m, l, c, f) IN
         /\ w \in MemType
         /\ w.ptr = [m.ptr EXCEPT ![<<f, c>>] = NULL, ![m.last[l]] = c]
         /\ w.prev = [m.prev EXCEPT ![<<f, c>>] = m.last[l]]
         /\ w.last = [m.last EXCEPT ![l] = <<f, c>>]
<1>1. m.last[l] \in Cell /\ <<f, c>> \in Cell /\ <<f, c>> \in Field \X Oc
  BY Cells DEF MemType
<1> QED
  BY <1>1 DEF MemType, INSERT_TAIL

LEMMA TailLinked ==
  ASSUME NEW m \in MemType, NEW l \in List, NEW f \in Field, NEW S, NEW c \in Oc \ S,
         Linked(m, l, f, S)
  PROVE  Linked(INSERT_TAIL(m, l, c, f), l, f, S \cup {c})
<1> DEFINE w == INSERT_TAIL(m, l, c, f)
<1>0. PICK n \in Nat : \E s \in [1..n -> Oc] : Chain(m, l, f, n, s) /\ S = {s[k] : k \in 1..n}
  BY DEF Linked
<1>1. PICK s \in [1..n -> Oc] : Chain(m, l, f, n, s) /\ S = {s[k] : k \in 1..n}
  BY <1>0
<1> DEFINE t == [k \in 1..(n + 1) |-> IF k <= n THEN s[k] ELSE c]
<1>2. /\ w.ptr = [m.ptr EXCEPT ![<<f, c>>] = NULL, ![m.last[l]] = c]
      /\ w.prev = [m.prev EXCEPT ![<<f, c>>] = m.last[l]]
      /\ w.last = [m.last EXCEPT ![l] = <<f, c>>]
  BY TailWrites, SMTT(30)
<1> HIDE DEF w
<1>3. /\ t \in [1..(n + 1) -> Oc] /\ S \cup {c} = {t[k] : k \in 1..(n + 1)}
      /\ t[n + 1] = c /\ \A k \in 1..n : t[k] = s[k] /\ s[k] # c
  BY <1>1
<1>4. ASSUME NEW k \in 0..n
      PROVE  /\ At(l, f, t, k) = At(l, f, s, k) /\ At(l, f, s, k) \in Cell
             /\ At(l, f, s, k) # <<f, c>>
  <2>1. CASE k = 0
    BY <2>1, Cells DEF At
  <2>2. CASE k \in 1..n
    BY <2>2, <1>3, Cells DEF At
  <2> QED
    BY <2>1, <2>2
<1> HIDE DEF t
<1>5. m.last[l] = At(l, f, s, n)
  BY <1>1 DEF Chain
<1>6. \A k \in 0..(n - 1) : At(l, f, s, k) # At(l, f, s, n)
  BY <1>1, Cells DEF At, Chain
<1>7. At(l, f, t, n + 1) = <<f, c>>
  BY <1>3 DEF At
<1>8. ASSUME NEW k \in 1..(n + 1)
      PROVE  /\ w.ptr[At(l, f, t, k - 1)] = t[k]
             /\ w.prev[<<f, t[k]>>] = At(l, f, t, k - 1)
  <2>1. CASE k = n + 1
    BY <2>1, <1>2, <1>3, <1>4, <1>5, Cells DEF MemType
  <2>2. CASE k \in 1..n
    <3>1. m.ptr[At(l, f, s, k - 1)] = s[k] /\ m.prev[<<f, s[k]>>] = At(l, f, s, k - 1)
      BY <1>1, <2>2 DEF Chain
    <3>2. w.ptr[At(l, f, s, k - 1)] = m.ptr[At(l, f, s, k - 1)]
      BY <2>2, <1>2, <1>4, <1>5, <1>6 DEF MemType
    <3>3. w.prev[<<f, s[k]>>] = m.prev[<<f, s[k]>>]
      BY <2>2, <1>2, <1>3, Cells DEF MemType
    <3> QED
      BY <2>2, <3>1, <3>2, <3>3, <1>3, <1>4, SMTT(30)
  <2> QED
    BY <2>1, <2>2
<1>9. w.ptr[<<f, c>>] = NULL /\ w.last[l] = <<f, c>>
  BY <1>2, <1>4, <1>5, Cells DEF MemType
<1>10. \A i, j \in 1..(n + 1) : t[i] = t[j] => i = j
  BY <1>1, <1>3 DEF Chain
<1>11. Chain(w, l, f, n + 1, t)
  BY <1>7, <1>8, <1>9, <1>10 DEF Chain
<1> QED
  BY <1>3, <1>11, ChainLinked DEF w

-----------------------------------------------------------------------------
\* A list is what it was if nothing of it is written to.
LEMMA Frame ==
  ASSUME NEW m, NEW w, NEW l, NEW f, NEW S, Linked(m, l, f, S),
         w.ptr[<<"first", l>>] = m.ptr[<<"first", l>>], w.last[l] = m.last[l],
         \A c \in S : w.ptr[<<f, c>>] = m.ptr[<<f, c>>] /\ w.prev[<<f, c>>] = m.prev[<<f, c>>]
  PROVE  Linked(w, l, f, S)
<1>0. PICK n \in Nat : \E s \in [1..n -> Oc] : Chain(m, l, f, n, s) /\ S = {s[k] : k \in 1..n}
  BY DEF Linked
<1>1. PICK s \in [1..n -> Oc] : Chain(m, l, f, n, s) /\ S = {s[k] : k \in 1..n}
  BY <1>0
<1>2. \A k \in 0..n : w.ptr[At(l, f, s, k)] = m.ptr[At(l, f, s, k)]
  BY <1>1 DEF At
<1>3. \A k \in 1..n : w.prev[<<f, s[k]>>] = m.prev[<<f, s[k]>>]
  BY <1>1
<1>4. Chain(w, l, f, n, s)
  BY <1>1, <1>2, <1>3 DEF Chain
<1> QED
  BY <1>1, <1>4, ChainLinked

\* Where a list begins and ends.
LEMMA Ends ==
  ASSUME NEW m, NEW l, NEW f, NEW S, Linked(m, l, f, S)
  PROVE  /\ S \subseteq Oc
         /\ FIRST(m, l) = NULL <=> S = {}
         /\ S # {} => FIRST(m, l) \in S
         /\ m.last[l] = <<"first", l>> \/ \E x \in S : m.last[l] = <<f, x>>
<1>0. PICK n \in Nat : \E s \in [1..n -> Oc] : Chain(m, l, f, n, s) /\ S = {s[k] : k \in 1..n}
  BY DEF Linked
<1>1. PICK s \in [1..n -> Oc] : Chain(m, l, f, n, s) /\ S = {s[k] : k \in 1..n}
  BY <1>0
<1>2. CASE n = 0
  <2>1. S = {}
    BY <1>1, <1>2
  <2>2. m.ptr[<<"first", l>>] = NULL /\ m.last[l] = <<"first", l>>
    BY <1>1, <1>2 DEF Chain, At
  <2> QED
    BY <2>1, <2>2 DEF FIRST
<1>3. CASE n > 0
  <2>1. 1 \in 1..n /\ n \in 1..n
    BY <1>3
  <2>2. s[1] \in S /\ s[n] \in S /\ S \subseteq Oc
    BY <1>1, <2>1
  <2>3. m.ptr[At(l, f, s, 1 - 1)] = s[1] /\ m.last[l] = At(l, f, s, n)
    BY <1>1, <2>1 DEF Chain
  <2>4. m.ptr[<<"first", l>>] = s[1] /\ m.last[l] = <<f, s[n]>>
    BY <2>3, <1>3 DEF At
  <2> QED
    BY <2>2, <2>4, ListsAssumption DEF FIRST
<1> QED
  BY <1>2, <1>3

\* VTAILQ_INSERT_TAIL leaves other lists alone.
LEMMA TailFrame ==
  ASSUME NEW m \in MemType, NEW l \in List, NEW f \in Field, NEW S, NEW c \in Oc \ S,
         Linked(m, l, f, S),
         NEW k \in List, NEW g \in Field, NEW T, Linked(m, k, g, T), k # l,
         g = f => c \notin T /\ S \cap T = {}
  PROVE  Linked(INSERT_TAIL(m, l, c, f), k, g, T)
<1> DEFINE w == INSERT_TAIL(m, l, c, f)
<1>1. /\ w.ptr = [m.ptr EXCEPT ![<<f, c>>] = NULL, ![m.last[l]] = c]
      /\ w.prev = [m.prev EXCEPT ![<<f, c>>] = m.last[l]]
      /\ w.last = [m.last EXCEPT ![l] = <<f, c>>]
  BY TailWrites, SMTT(30)
<1> HIDE DEF w
<1>2. T \subseteq Oc /\ S \subseteq Oc
  BY Ends
<1>3. m.last[l] = <<"first", l>> \/ \E x \in S : m.last[l] = <<f, x>>
  BY Ends
<1>4. m.last[l] # <<"first", k>> /\ <<f, c>> # <<"first", k>>
  BY <1>2, <1>3, Cells
<1>5. \A x \in T : m.last[l] # <<g, x>> /\ <<f, c>> # <<g, x>>
  BY <1>2, <1>3, Cells
<1>6. w.ptr[<<"first", k>>] = m.ptr[<<"first", k>>] /\ w.last[k] = m.last[k]
  BY <1>1, <1>4, Cells DEF MemType
<1>7. \A x \in T : w.ptr[<<g, x>>] = m.ptr[<<g, x>>] /\ w.prev[<<g, x>>] = m.prev[<<g, x>>]
  BY <1>1, <1>2, <1>5, Cells DEF MemType
<1>8. Linked(w, k, g, T)
  BY <1>6, <1>7, Frame
<1> QED
  BY <1>8 DEF w

-----------------------------------------------------------------------------
\* What VTAILQ_INSERT_HEAD writes.
HeadWritten(m, w, l, c, f) ==
  LET n == FIRST(m, l) IN
  /\ w.ptr = [m.ptr EXCEPT ![<<f, c>>] = n, ![<<"first", l>>] = c]
  /\ \A x \in Field \X Oc :
       w.prev[x] = IF x = <<f, c>> THEN <<"first", l>>
                   ELSE IF n # NULL /\ x = <<f, n>> THEN <<f, c>> ELSE m.prev[x]
  /\ \A k \in List : w.last[k] = IF n = NULL /\ k = l THEN <<f, c>> ELSE m.last[k]

LEMMA HeadWrites ==
  ASSUME NEW m \in MemType, NEW l \in List, NEW f \in Field, NEW c \in Oc
  PROVE  /\ INSERT_HEAD(m, l, c, f) \in MemType
         /\ HeadWritten(m, INSERT_HEAD(m, l, c, f), l, c, f)
<1> DEFINE w == INSERT_HEAD(m, l, c, f)
           n == FIRST(m, l)
<1>1. /\ <<"first", l>> \in Cell /\ <<f, c>> \in Cell /\ <<f, c>> \in Field \X Oc
      /\ n \in Oc \cup {NULL}
  BY Cells DEF MemType, FIRST
<1>2. n # NULL => <<f, n>> \in Field \X Oc
  BY <1>1, Cells
<1>3. /\ w.ptr = [m.ptr EXCEPT ![<<f, c>>] = n, ![<<"first", l>>] = c]
      /\ w.prev = [IF n = NULL THEN m.prev ELSE [m.prev EXCEPT ![<<f, n>>] = <<f, c>>]
                   EXCEPT ![<<f, c>>] = <<"first", l>>]
      /\ w.last = IF n = NULL THEN [m.last EXCEPT ![l] = <<f, c>>] ELSE m.last
      /\ w = [ptr |-> w.ptr, prev |-> w.prev, last |-> w.last]
  BY DEF INSERT_HEAD
<1> HIDE DEF w, n
<1>4. w.ptr \in [Cell -> Oc \cup {NULL}]
  BY <1>1, <1>3 DEF MemType
<1>5. CASE n = NULL
  <2>1. w.prev = [m.prev EXCEPT ![<<f, c>>] = <<"first", l>>]
    BY <1>3, <1>5
  <2>2. w.prev \in [Field \X Oc -> Cell \cup {NULL}]
    BY <1>1, <2>1 DEF MemType
  <2>3. w.last \in [List -> Cell]
    BY <1>1, <1>3, <1>5 DEF MemType
  <2>4. w \in MemType
    BY <1>3, <1>4, <2>2, <2>3 DEF MemType
  <2> QED
    BY <1>1, <1>3, <1>5, <2>1, <2>4 DEF MemType, HeadWritten, w, n
<1>6. CASE n # NULL
  <2>1. w.prev = [[m.prev EXCEPT ![<<f, n>>] = <<f, c>>] EXCEPT ![<<f, c>>] = <<"first", l>>]
    BY <1>3, <1>6
  <2>2. w.prev \in [Field \X Oc -> Cell \cup {NULL}]
    BY <1>1, <1>2, <1>6, <2>1 DEF MemType
  <2>3. w.last = m.last /\ w.last \in [List -> Cell]
    BY <1>3, <1>6 DEF MemType
  <2>4. w \in MemType
    BY <1>3, <1>4, <2>2, <2>3 DEF MemType
  <2> QED
    BY <1>1, <1>2, <1>3, <1>6, <2>1, <2>3, <2>4 DEF MemType, HeadWritten, w, n
<1> QED
  BY <1>5, <1>6

LEMMA HeadLinked ==
  ASSUME NEW m \in MemType, NEW l \in List, NEW f \in Field, NEW S, NEW c \in Oc \ S,
         Linked(m, l, f, S)
  PROVE  Linked(INSERT_HEAD(m, l, c, f), l, f, S \cup {c})
<1> DEFINE w == INSERT_HEAD(m, l, c, f)
           first == FIRST(m, l)
<1>2. /\ w.ptr = [m.ptr EXCEPT ![<<f, c>>] = first, ![<<"first", l>>] = c]
      /\ \A x \in Field \X Oc :
           w.prev[x] = IF x = <<f, c>> THEN <<"first", l>>
                       ELSE IF first # NULL /\ x = <<f, first>> THEN <<f, c>> ELSE m.prev[x]
      /\ \A k \in List : w.last[k] = IF first = NULL /\ k = l THEN <<f, c>> ELSE m.last[k]
  <2>1. HeadWritten(m, w, l, c, f)
    BY HeadWrites
  <2> QED
    BY <2>1 DEF HeadWritten
<1>0. PICK n \in Nat : \E s \in [1..n -> Oc] : Chain(m, l, f, n, s) /\ S = {s[k] : k \in 1..n}
  BY DEF Linked
<1>1. PICK s \in [1..n -> Oc] : Chain(m, l, f, n, s) /\ S = {s[k] : k \in 1..n}
  BY <1>0
<1> DEFINE t == [k \in 1..(n + 1) |-> IF k = 1 THEN c ELSE s[k - 1]]
<1>3. /\ t \in [1..(n + 1) -> Oc] /\ t[1] = c
      /\ \A k \in 1..n : t[k + 1] = s[k] /\ s[k] # c
  BY <1>1
<1>4. S \cup {c} = {t[k] : k \in 1..(n + 1)}
  <2>1. \A k \in 1..(n + 1) : k = 1 \/ k - 1 \in 1..n
    OBVIOUS
  <2>2. 1 \in 1..(n + 1) /\ \A k \in 1..n : k + 1 \in 1..(n + 1)
    OBVIOUS
  <2> HIDE DEF t
  <2>3. \A x \in S \cup {c} : \E k \in 1..(n + 1) : x = t[k]
    BY <1>1, <1>3, <2>2
  <2>4. ASSUME NEW k \in 1..(n + 1) PROVE t[k] \in S \cup {c}
    <3>1. CASE k = 1
      BY <1>3, <3>1
    <3>2. CASE k - 1 \in 1..n
      BY <1>1, <1>3, <3>2
    <3> QED
      BY <2>1, <3>1, <3>2
  <2> QED
    BY <2>3, <2>4
<1> HIDE DEF t, w, first
<1>5. first = IF n = 0 THEN NULL ELSE s[1]
  <2>1. CASE n = 0
    BY <1>1, <2>1 DEF first, FIRST, Chain, At
  <2>2. CASE n # 0
    <3>0. 1 \in 1..n
      BY <2>2
    <3>1. m.ptr[At(l, f, s, 1 - 1)] = s[1]
      BY <1>1, <3>0 DEF Chain
    <3> QED
      BY <2>2, <3>1 DEF first, FIRST, At
  <2> QED
    BY <2>1, <2>2
<1>6. \A k \in 1..n : s[k] \in Oc /\ s[k] # NULL /\ <<f, s[k]>> \in Cell
  BY Cells, ListsAssumption
<1>7. \A k \in 1..n : At(l, f, t, k + 1) = <<f, s[k]>>
  BY <1>3 DEF At
<1>8. At(l, f, t, 0) = <<"first", l>> /\ At(l, f, t, 1) = <<f, c>>
  BY <1>3 DEF At
<1>9. w.ptr[<<"first", l>>] = c /\ w.ptr[<<f, c>>] = first
  BY <1>2, Cells DEF MemType
<1>10. \A k \in 1..n : w.ptr[<<f, s[k]>>] = m.ptr[<<f, s[k]>>]
  BY <1>2, <1>3, <1>6, Cells DEF MemType
<1>11. ASSUME NEW k \in 1..(n + 1)
       PROVE  /\ w.ptr[At(l, f, t, k - 1)] = t[k]
              /\ w.prev[<<f, t[k]>>] = At(l, f, t, k - 1)
  <2>1. CASE k = 1
    BY <2>1, <1>2, <1>3, <1>8, <1>9, Cells
  <2>2. CASE k = 2
    <3>0. n # 0 /\ 1 \in 1..n /\ k = 1 + 1
      BY <2>2
    <3>1. t[k] = s[1] /\ first = s[1] /\ first # NULL /\ first # c
      BY <3>0, <1>3, <1>5, <1>6
    <3>2. w.prev[<<f, s[1]>>] = <<f, c>>
      BY <3>0, <3>1, <1>2, Cells
    <3>3. k - 1 = 1
      BY <2>2
    <3> QED
      BY <3>1, <3>2, <3>3, <1>8, <1>9
  <2>3. CASE k > 2
    <3>1. k - 1 \in 1..n /\ k - 2 \in 1..n /\ 1 \in 1..n /\ k - 1 # 1
      BY <2>3
    <3>2. t[k] = s[k - 1] /\ At(l, f, t, k - 1) = <<f, s[k - 2]>>
      BY <3>1, <1>3, <1>7
    <3>3. m.ptr[At(l, f, s, k - 2)] = s[k - 1] /\ m.prev[<<f, s[k - 1]>>] = At(l, f, s, k - 2)
      <4>1. (k - 1) - 1 = k - 2
        BY <3>1
      <4> QED
        BY <1>1, <3>1, <4>1 DEF Chain
    <3>4. At(l, f, s, k - 2) = <<f, s[k - 2]>>
      BY <3>1 DEF At
    <3>5. s[k - 1] # s[1] /\ s[k - 1] # c /\ first = s[1]
      BY <1>1, <1>3, <1>5, <3>1 DEF Chain
    <3>6. w.prev[<<f, s[k - 1]>>] = m.prev[<<f, s[k - 1]>>]
      BY <1>2, <3>1, <3>5, <1>6, Cells
    <3> QED
      BY <3>1, <3>2, <3>3, <3>4, <3>6, <1>10
  <2> QED
    BY <2>1, <2>2, <2>3
<1>12. w.ptr[At(l, f, t, n + 1)] = NULL /\ w.last[l] = At(l, f, t, n + 1)
  <2>1. CASE n = 0
    BY <2>1, <1>2, <1>5, <1>8, <1>9
  <2>2. CASE n # 0
    <3>1. n \in 1..n /\ 1 \in 1..n
      BY <2>2
    <3>2. At(l, f, t, n + 1) = <<f, s[n]>> /\ At(l, f, s, n) = <<f, s[n]>>
      BY <3>1, <1>7 DEF At
    <3>3. m.ptr[<<f, s[n]>>] = NULL /\ m.last[l] = <<f, s[n]>>
      BY <1>1, <3>2 DEF Chain
    <3> QED
      BY <1>2, <1>5, <1>6, <1>10, <2>2, <3>1, <3>2, <3>3
  <2> QED
    BY <2>1, <2>2
<1>13. \A i, j \in 1..(n + 1) : t[i] = t[j] => i = j
  <2>1. \A k \in 1..(n + 1) : k = 1 \/ (k - 1 \in 1..n /\ t[k] = s[k - 1])
    BY DEF t
  <2> QED
    BY <1>1, <1>3, <2>1 DEF Chain
<1>14. Chain(w, l, f, n + 1, t)
  BY <1>11, <1>12, <1>13 DEF Chain
<1>15. Linked(w, l, f, S \cup {c})
  BY <1>3, <1>4, <1>14, ChainLinked
<1> QED
  BY <1>15 DEF w

\* VTAILQ_INSERT_HEAD leaves other lists alone.
LEMMA HeadFrame ==
  ASSUME NEW m \in MemType, NEW l \in List, NEW f \in Field, NEW S, NEW c \in Oc \ S,
         Linked(m, l, f, S),
         NEW k \in List, NEW g \in Field, NEW T, Linked(m, k, g, T), k # l,
         g = f => c \notin T /\ S \cap T = {}
  PROVE  Linked(INSERT_HEAD(m, l, c, f), k, g, T)
<1> DEFINE w == INSERT_HEAD(m, l, c, f)
           first == FIRST(m, l)
<1>1. /\ w.ptr = [m.ptr EXCEPT ![<<f, c>>] = first, ![<<"first", l>>] = c]
      /\ \A x \in Field \X Oc :
           w.prev[x] = IF x = <<f, c>> THEN <<"first", l>>
                       ELSE IF first # NULL /\ x = <<f, first>> THEN <<f, c>> ELSE m.prev[x]
      /\ w.last[k] = m.last[k]
  <2>1. HeadWritten(m, w, l, c, f)
    BY HeadWrites
  <2> QED
    BY <2>1 DEF HeadWritten
<1>2. T \subseteq Oc /\ S \subseteq Oc /\ (first = NULL \/ first \in S)
  BY Ends
<1> HIDE DEF w, first
<1>3. \A x \in T : /\ <<g, x>> # <<f, c>> /\ <<g, x>> # <<"first", l>>
                   /\ first # NULL => <<g, x>> # <<f, first>>
                   /\ <<g, x>> \in Cell /\ <<g, x>> \in Field \X Oc
  BY <1>2, Cells
<1>4. w.ptr[<<"first", k>>] = m.ptr[<<"first", k>>]
  BY <1>1, Cells DEF MemType
<1>5. \A x \in T : w.ptr[<<g, x>>] = m.ptr[<<g, x>>] /\ w.prev[<<g, x>>] = m.prev[<<g, x>>]
  BY <1>1, <1>3 DEF MemType
<1>6. Linked(w, k, g, T)
  BY <1>1, <1>4, <1>5, Frame
<1> QED
  BY <1>6 DEF w

-----------------------------------------------------------------------------
\* What VTAILQ_REMOVE writes, of a record between cell p and record n.
Removed(m, w, l, c, f) ==
  LET n == m.ptr[<<f, c>>]
      p == m.prev[<<f, c>>]
  IN /\ w.ptr = [m.ptr EXCEPT ![p] = n]
     /\ \A x \in Field \X Oc :
          w.prev[x] = IF n # NULL /\ x = <<f, n>> THEN p ELSE m.prev[x]
     /\ \A k \in List : w.last[k] = IF n = NULL /\ k = l THEN p ELSE m.last[k]

LEMMA RemoveWrites ==
  ASSUME NEW m \in MemType, NEW l \in List, NEW f \in Field, NEW c \in Oc,
         m.prev[<<f, c>>] # NULL
  PROVE  /\ REMOVE(m, l, c, f) \in MemType
         /\ Removed(m, REMOVE(m, l, c, f), l, c, f)
<1> DEFINE w == REMOVE(m, l, c, f)
           n == m.ptr[<<f, c>>]
           p == m.prev[<<f, c>>]
<1>1. n \in Oc \cup {NULL} /\ p \in Cell
  BY Cells DEF MemType
<1>2. n # NULL => <<f, n>> \in Field \X Oc
  BY <1>1, Cells
<1>3. /\ w.ptr = [m.ptr EXCEPT ![p] = n]
      /\ w.prev = IF n = NULL THEN m.prev ELSE [m.prev EXCEPT ![<<f, n>>] = p]
      /\ w.last = IF n = NULL THEN [m.last EXCEPT ![l] = p] ELSE m.last
      /\ w = [ptr |-> w.ptr, prev |-> w.prev, last |-> w.last]
  BY DEF REMOVE
<1> HIDE DEF w, n, p
<1>4. w.ptr \in [Cell -> Oc \cup {NULL}]
  BY <1>1, <1>3 DEF MemType
<1>5. CASE n = NULL
  <2>1. w.prev \in [Field \X Oc -> Cell \cup {NULL}] /\ w.last \in [List -> Cell]
    BY <1>1, <1>3, <1>5 DEF MemType
  <2>2. w \in MemType
    BY <1>3, <1>4, <2>1 DEF MemType
  <2> QED
    BY <1>1, <1>3, <1>5, <2>2 DEF MemType, Removed, w, n, p
<1>6. CASE n # NULL
  <2>1. w.prev = [m.prev EXCEPT ![<<f, n>>] = p] /\ w.last = m.last
    BY <1>3, <1>6
  <2>2. w.prev \in [Field \X Oc -> Cell \cup {NULL}] /\ w.last \in [List -> Cell]
    BY <1>1, <1>2, <1>6, <2>1 DEF MemType
  <2>3. w \in MemType
    BY <1>3, <1>4, <2>2 DEF MemType
  <2> QED
    BY <1>1, <1>2, <1>3, <1>6, <2>1, <2>3 DEF MemType, Removed, w, n, p
<1> QED
  BY <1>5, <1>6

\* The record before a record of a list, or its head, and the one after it.
LEMMA Neighbours ==
  ASSUME NEW m \in MemType, NEW l \in List, NEW f \in Field, NEW S, NEW c \in S,
         Linked(m, l, f, S)
  PROVE  /\ m.prev[<<f, c>>] # NULL
         /\ m.prev[<<f, c>>] = <<"first", l>> \/ \E x \in S : m.prev[<<f, c>>] = <<f, x>>
         /\ m.ptr[<<f, c>>] \in S \cup {NULL}
<1>0. PICK n \in Nat : \E s \in [1..n -> Oc] : Chain(m, l, f, n, s) /\ S = {s[k] : k \in 1..n}
  BY DEF Linked
<1>1. PICK s \in [1..n -> Oc] : Chain(m, l, f, n, s) /\ S = {s[k] : k \in 1..n}
  BY <1>0
<1>2. PICK k \in 1..n : c = s[k]
  BY <1>1
<1>3. m.prev[<<f, c>>] = At(l, f, s, k - 1)
  BY <1>1, <1>2 DEF Chain
<1>4. m.prev[<<f, c>>] = <<"first", l>> \/ \E x \in S : m.prev[<<f, c>>] = <<f, x>>
  <2>1. CASE k = 1
    BY <1>3, <2>1 DEF At
  <2>2. CASE k # 1
    <3>1. k - 1 \in 1..n /\ k - 1 # 0
      BY <2>2
    <3>2. m.prev[<<f, c>>] = <<f, s[k - 1]>> /\ s[k - 1] \in S
      BY <1>1, <1>3, <3>1 DEF At
    <3> QED
      BY <3>2
  <2> QED
    BY <2>1, <2>2
<1>5. m.ptr[<<f, c>>] \in S \cup {NULL}
  <2>0. At(l, f, s, k) = <<f, c>>
    BY <1>2 DEF At
  <2>1. CASE k = n
    BY <1>1, <2>0, <2>1 DEF Chain
  <2>2. CASE k # n
    <3>1. k + 1 \in 1..n /\ (k + 1) - 1 = k
      BY <2>2
    <3>2. m.ptr[At(l, f, s, (k + 1) - 1)] = s[k + 1]
      BY <1>1, <3>1 DEF Chain
    <3> QED
      BY <1>1, <2>0, <3>1, <3>2
  <2> QED
    BY <2>1, <2>2
<1>6. m.prev[<<f, c>>] # NULL
  <2>1. S \subseteq Oc
    BY <1>1
  <2> QED
    BY <1>4, <2>1, ListsAssumption, Cells
<1> QED
  BY <1>4, <1>5, <1>6

LEMMA RemoveLinked ==
  ASSUME NEW m \in MemType, NEW l \in List, NEW f \in Field, NEW S, NEW c \in S,
         Linked(m, l, f, S)
  PROVE  /\ REMOVE(m, l, c, f) \in MemType
         /\ Linked(REMOVE(m, l, c, f), l, f, S \ {c})
<1> DEFINE w == REMOVE(m, l, c, f)
           nx == m.ptr[<<f, c>>]
           p == m.prev[<<f, c>>]
<1>0. c \in Oc /\ p # NULL
  BY Ends, Neighbours
<1>1. w \in MemType /\ Removed(m, w, l, c, f)
  BY <1>0, RemoveWrites
<1>2. /\ w.ptr = [m.ptr EXCEPT ![p] = nx]
      /\ \A x \in Field \X Oc : w.prev[x] = IF nx # NULL /\ x = <<f, nx>> THEN p ELSE m.prev[x]
      /\ \A k \in List : w.last[k] = IF nx = NULL /\ k = l THEN p ELSE m.last[k]
  BY <1>1 DEF Removed
<1> HIDE DEF w
<1>3. PICK n \in Nat : \E s \in [1..n -> Oc] : Chain(m, l, f, n, s) /\ S = {s[k] : k \in 1..n}
  BY DEF Linked
<1>4. PICK s \in [1..n -> Oc] : Chain(m, l, f, n, s) /\ S = {s[k] : k \in 1..n}
  BY <1>3
<1>5. PICK j \in 1..n : c = s[j]
  BY <1>4
<1>6. /\ \A i, k \in 1..n : s[i] = s[k] => i = k
      /\ \A k \in 1..n : m.ptr[At(l, f, s, k - 1)] = s[k] /\ m.prev[<<f, s[k]>>] = At(l, f, s, k - 1)
      /\ m.ptr[At(l, f, s, n)] = NULL /\ m.last[l] = At(l, f, s, n)
  BY <1>4 DEF Chain
<1>7. ASSUME NEW k \in 0..(n - 1)
      PROVE  m.ptr[At(l, f, s, k)] = s[k + 1] /\ m.prev[<<f, s[k + 1]>>] = At(l, f, s, k)
  <2>1. k + 1 \in 1..n /\ (k + 1) - 1 = k
    OBVIOUS
  <2> QED
    BY <1>6, <2>1
<1>8. \A k \in 0..n : At(l, f, s, k) \in Cell
  BY Cells DEF At
<1>9. \A i, k \in 0..n : At(l, f, s, i) = At(l, f, s, k) => i = k
  <2>1. \A k \in 0..n : k = 0 \/ k \in 1..n
    OBVIOUS
  <2> QED
    BY <1>6, <2>1, Cells DEF At
<1>10. p = At(l, f, s, j - 1) /\ j - 1 \in 0..n /\ At(l, f, s, j) = <<f, c>>
  <2>1. p = At(l, f, s, j - 1)
    BY <1>5, <1>6
  <2>2. j # 0 /\ j - 1 \in 0..n
    OBVIOUS
  <2>3. At(l, f, s, j) = <<f, c>>
    BY <1>5, <2>2 DEF At
  <2> QED
    BY <2>1, <2>2, <2>3
<1>11. nx = IF j = n THEN NULL ELSE s[j + 1]
  <2>1. CASE j = n
    BY <1>6, <1>10, <2>1
  <2>2. CASE j # n
    <3>1. j \in 0..(n - 1)
      BY <2>2
    <3> QED
      BY <1>7, <1>10, <2>2, <3>1
  <2> QED
    BY <2>1, <2>2
<1> HIDE DEF p, nx
<1>12. w.ptr[p] = nx /\ \A k \in 0..n : k # j - 1 => w.ptr[At(l, f, s, k)] = m.ptr[At(l, f, s, k)]
  BY <1>2, <1>8, <1>9, <1>10 DEF MemType
<1>13. \A k \in 1..n : k # j + 1 => w.prev[<<f, s[k]>>] = m.prev[<<f, s[k]>>]
  <2>1. ASSUME NEW k \in 1..n, k # j + 1 PROVE nx # NULL => <<f, s[k]>> # <<f, nx>>
    <3>1. CASE j = n
      BY <1>11, <3>1
    <3>2. CASE j # n
      <4>1. j + 1 \in 1..n
        BY <3>2
      <4>2. s[k] # s[j + 1]
        BY <1>6, <2>1, <4>1
      <4> QED
        BY <1>11, <3>2, <4>2
    <3> QED
      BY <3>1, <3>2
  <2> QED
    BY <1>2, <2>1, Cells
<1> DEFINE t == [k \in 1..(n - 1) |-> IF k < j THEN s[k] ELSE s[k + 1]]
<1>14. n - 1 \in Nat /\ t \in [1..(n - 1) -> Oc]
  OBVIOUS
<1>15. \A k \in 1..(n - 1) : /\ k < j => t[k] = s[k] /\ k \in 1..n
                             /\ k >= j => t[k] = s[k + 1] /\ k + 1 \in 1..n
  OBVIOUS
<1> HIDE DEF t
<1>16. S \ {c} = {t[k] : k \in 1..(n - 1)}
  <2>1. ASSUME NEW k \in 1..(n - 1) PROVE t[k] \in S \ {c}
    BY <1>4, <1>5, <1>6, <1>15
  <2>2. ASSUME NEW x \in S \ {c} PROVE \E k \in 1..(n - 1) : x = t[k]
    <3>1. PICK k \in 1..n : x = s[k]
      BY <1>4
    <3>2. CASE k < j
      <4>1. k \in 1..(n - 1)
        BY <3>2
      <4> QED
        BY <1>15, <3>1, <3>2, <4>1
    <3>3. CASE k > j
      <4>1. k - 1 \in 1..(n - 1) /\ k - 1 >= j /\ (k - 1) + 1 = k
        BY <3>3
      <4>2. t[k - 1] = s[k]
        BY <1>15, <4>1
      <4> QED
        BY <3>1, <4>1, <4>2
    <3> QED
      BY <1>5, <3>1, <3>2, <3>3
  <2> QED
    BY <2>1, <2>2
<1>17. ASSUME NEW k \in 0..(n - 1)
       PROVE  At(l, f, t, k) = IF k < j THEN At(l, f, s, k) ELSE At(l, f, s, k + 1)
  <2>1. CASE k = 0
    BY <2>1 DEF At
  <2>2. CASE k \in 1..(n - 1)
    BY <1>15, <2>2 DEF At
  <2> QED
    BY <2>1, <2>2
<1>18. ASSUME NEW k \in 1..(n - 1)
       PROVE  /\ w.ptr[At(l, f, t, k - 1)] = t[k]
              /\ w.prev[<<f, t[k]>>] = At(l, f, t, k - 1)
  <2>0. k - 1 \in 0..(n - 1) /\ k - 1 \in 0..n /\ k \in 0..(n - 1) /\ k \in 0..n /\ (k - 1) + 1 = k
    OBVIOUS
  <2>1. CASE k < j
    <3>1. At(l, f, t, k - 1) = At(l, f, s, k - 1) /\ t[k] = s[k]
      BY <1>15, <1>17, <2>0, <2>1
    <3>2. m.ptr[At(l, f, s, k - 1)] = s[k] /\ m.prev[<<f, s[k]>>] = At(l, f, s, k - 1)
      BY <1>7, <2>0
    <3> QED
      BY <1>12, <1>13, <2>0, <2>1, <3>1, <3>2
  <2>2. CASE k = j
    <3>1. At(l, f, t, k - 1) = p /\ t[k] = s[j + 1] /\ nx = s[j + 1] /\ j + 1 \in 1..n
      BY <1>10, <1>11, <1>15, <1>17, <2>0, <2>2
    <3>2. nx # NULL /\ <<f, nx>> \in Field \X Oc
      BY <3>1, Cells, ListsAssumption
    <3> QED
      BY <1>2, <1>12, <3>1, <3>2
  <2>3. CASE k > j
    <3>1. At(l, f, t, k - 1) = At(l, f, s, k) /\ t[k] = s[k + 1] /\ k + 1 \in 1..n
      BY <1>15, <1>17, <2>0, <2>3
    <3>2. m.ptr[At(l, f, s, k)] = s[k + 1] /\ m.prev[<<f, s[k + 1]>>] = At(l, f, s, k)
      BY <1>7, <2>0
    <3> QED
      BY <1>12, <1>13, <2>0, <2>3, <3>1, <3>2
  <2> QED
    BY <2>1, <2>2, <2>3
<1>19. w.ptr[At(l, f, t, n - 1)] = NULL /\ w.last[l] = At(l, f, t, n - 1)
  <2>0. n - 1 \in 0..(n - 1) /\ (n - 1) + 1 = n /\ n \in 0..n
    OBVIOUS
  <2>1. CASE j = n
    <3>1. At(l, f, t, n - 1) = p /\ nx = NULL
      BY <1>10, <1>11, <1>17, <2>0, <2>1
    <3> QED
      BY <1>2, <1>12, <3>1
  <2>2. CASE j # n
    <3>1. At(l, f, t, n - 1) = At(l, f, s, n) /\ n # j - 1 /\ j + 1 \in 1..n
      BY <1>17, <2>0, <2>2
    <3>2. nx # NULL
      BY <1>11, <2>2, <3>1, ListsAssumption
    <3> QED
      BY <1>2, <1>6, <1>12, <2>0, <3>1, <3>2
  <2> QED
    BY <2>1, <2>2
<1>20. \A i, k \in 1..(n - 1) : t[i] = t[k] => i = k
  BY <1>6, <1>15
<1>21. Chain(w, l, f, n - 1, t)
  BY <1>18, <1>19, <1>20 DEF Chain
<1>22. Linked(w, l, f, S \ {c})
  BY <1>14, <1>16, <1>21, ChainLinked
<1> QED
  BY <1>1, <1>22 DEF w

\* VTAILQ_REMOVE leaves other lists alone.
LEMMA RemoveFrame ==
  ASSUME NEW m \in MemType, NEW l \in List, NEW f \in Field, NEW S, NEW c \in S,
         Linked(m, l, f, S),
         NEW k \in List, NEW g \in Field, NEW T, Linked(m, k, g, T), k # l,
         g = f => S \cap T = {}
  PROVE  Linked(REMOVE(m, l, c, f), k, g, T)
<1> DEFINE w == REMOVE(m, l, c, f)
           nx == m.ptr[<<f, c>>]
           p == m.prev[<<f, c>>]
<1>0. S \subseteq Oc /\ T \subseteq Oc /\ c \in Oc
  BY Ends
<1>1. /\ p # NULL /\ (p = <<"first", l>> \/ \E x \in S : p = <<f, x>>)
      /\ nx \in S \cup {NULL}
  BY Neighbours
<1>2. Removed(m, w, l, c, f)
  BY <1>0, <1>1, RemoveWrites
<1>3. /\ w.ptr = [m.ptr EXCEPT ![p] = nx]
      /\ \A x \in Field \X Oc : w.prev[x] = IF nx # NULL /\ x = <<f, nx>> THEN p ELSE m.prev[x]
      /\ w.last[k] = m.last[k]
  BY <1>2 DEF Removed
<1> HIDE DEF w, nx, p
<1>4. \A x \in T : /\ p # <<g, x>>
                   /\ nx # NULL => <<g, x>> # <<f, nx>>
                   /\ <<g, x>> \in Cell /\ <<g, x>> \in Field \X Oc
  BY <1>0, <1>1, Cells
<1>5. p # <<"first", k>> /\ <<"first", k>> \in Cell
  BY <1>0, <1>1, Cells
<1>6. w.ptr[<<"first", k>>] = m.ptr[<<"first", k>>]
  BY <1>3, <1>5 DEF MemType
<1>7. \A x \in T : w.ptr[<<g, x>>] = m.ptr[<<g, x>>] /\ w.prev[<<g, x>>] = m.prev[<<g, x>>]
  BY <1>3, <1>4 DEF MemType
<1>8. Linked(w, k, g, T)
  BY <1>3, <1>6, <1>7, Frame
<1> QED
  BY <1>8 DEF w

-----------------------------------------------------------------------------
(***************************************************************************)
(* All lists of the module: ho and oo give the records of each head, pl    *)
(* those of the pool.  Lists that use the same field share no record.      *)
(***************************************************************************)
Apart(ho, oo, pl) ==
  /\ ho \in [HashHead -> SUBSET Oc] /\ oo \in [OcHead -> SUBSET Oc] /\ pl \subseteq Oc
  /\ \A h, i \in HashHead : h # i => ho[h] \cap ho[i] = {}
  /\ \A h, i \in OcHead : h # i => oo[h] \cap oo[i] = {}
  /\ \A h \in HashHead : ho[h] \cap pl = {}

AllLinked(m, ho, oo, pl) ==
  /\ \A h \in HashHead : Linked(m, h, "list_hashhead", ho[h])
  /\ \A h \in OcHead : Linked(m, h, "list_ochead", oo[h])
  /\ Linked(m, "pool", "list_hashhead", pl)

Sound(m, ho, oo, pl) == m \in MemType /\ Apart(ho, oo, pl) /\ AllLinked(m, ho, oo, pl)

LEMMA ListNames ==
  /\ \A h \in HashHead : h \in List /\ h # "pool" /\ \A i \in OcHead : h # i
  /\ \A h \in OcHead : h \in List /\ h # "pool"
  /\ "pool" \in List /\ "list_hashhead" \in Field /\ "list_ochead" \in Field
  /\ "list_hashhead" # "list_ochead"
  BY ListsAssumption DEF List, Field

\* A record leaves the pool, in xkey_oc_new.
LEMMA PoolTakes ==
  ASSUME NEW m, NEW ho, NEW oo, NEW pl, Sound(m, ho, oo, pl), NEW c \in pl
  PROVE  Sound(REMOVE(m, "pool", c, "list_hashhead"), ho, oo, pl \ {c})
<1> DEFINE w == REMOVE(m, "pool", c, "list_hashhead")
<1>1. m \in MemType /\ Apart(ho, oo, pl) /\ Linked(m, "pool", "list_hashhead", pl)
  BY DEF Sound, AllLinked
<1>2. w \in MemType /\ Linked(w, "pool", "list_hashhead", pl \ {c})
  BY <1>1, RemoveLinked, ListNames
<1>3. ASSUME NEW h \in HashHead PROVE Linked(w, h, "list_hashhead", ho[h])
  <2>1. Linked(m, h, "list_hashhead", ho[h]) /\ pl \cap ho[h] = {}
    BY DEF Sound, AllLinked, Apart
  <2> QED
    BY <1>1, <2>1, RemoveFrame, ListNames
<1>4. ASSUME NEW h \in OcHead PROVE Linked(w, h, "list_ochead", oo[h])
  <2>1. Linked(m, h, "list_ochead", oo[h])
    BY DEF Sound, AllLinked
  <2> QED
    BY <1>1, <2>1, RemoveFrame, ListNames
<1>5. Apart(ho, oo, pl \ {c})
  BY <1>1 DEF Apart
<1> QED
  BY <1>2, <1>3, <1>4, <1>5 DEF Sound, AllLinked

\* A record goes to the pool, in xkey_oc_delete.
LEMMA PoolGets ==
  ASSUME NEW m, NEW ho, NEW oo, NEW pl, Sound(m, ho, oo, pl), NEW c \in Oc \ pl,
         \A h \in HashHead : c \notin ho[h]
  PROVE  Sound(INSERT_HEAD(m, "pool", c, "list_hashhead"), ho, oo, pl \cup {c})
<1> DEFINE w == INSERT_HEAD(m, "pool", c, "list_hashhead")
<1>1. m \in MemType /\ Apart(ho, oo, pl) /\ Linked(m, "pool", "list_hashhead", pl)
  BY DEF Sound, AllLinked
<1>2. w \in MemType /\ Linked(w, "pool", "list_hashhead", pl \cup {c})
  BY <1>1, HeadLinked, HeadWrites, ListNames
<1>3. ASSUME NEW h \in HashHead PROVE Linked(w, h, "list_hashhead", ho[h])
  <2>1. Linked(m, h, "list_hashhead", ho[h]) /\ pl \cap ho[h] = {} /\ c \notin ho[h]
    BY DEF Sound, AllLinked, Apart
  <2> QED
    BY <1>1, <2>1, HeadFrame, ListNames
<1>4. ASSUME NEW h \in OcHead PROVE Linked(w, h, "list_ochead", oo[h])
  <2>1. Linked(m, h, "list_ochead", oo[h])
    BY DEF Sound, AllLinked
  <2> QED
    BY <1>1, <2>1, HeadFrame, ListNames
<1>5. Apart(ho, oo, pl \cup {c})
  BY <1>1 DEF Apart
<1> QED
  BY <1>2, <1>3, <1>4, <1>5 DEF Sound, AllLinked

\* A record goes on the list of an object.
LEMMA OcGets ==
  ASSUME NEW m, NEW ho, NEW oo, NEW pl, Sound(m, ho, oo, pl), NEW c \in Oc, NEW i \in OcHead,
         \A h \in OcHead : c \notin oo[h]
  PROVE  Sound(INSERT_TAIL(m, i, c, "list_ochead"), ho, [oo EXCEPT ![i] = oo[i] \cup {c}], pl)
<1> DEFINE w == INSERT_TAIL(m, i, c, "list_ochead")
           o2 == [oo EXCEPT ![i] = oo[i] \cup {c}]
<1>1. m \in MemType /\ Apart(ho, oo, pl) /\ Linked(m, i, "list_ochead", oo[i]) /\ c \in Oc \ oo[i]
  BY DEF Sound, AllLinked
<1>2. w \in MemType /\ Linked(w, i, "list_ochead", oo[i] \cup {c})
  BY <1>1, TailLinked, TailWrites, ListNames
<1>3. ASSUME NEW h \in HashHead PROVE Linked(w, h, "list_hashhead", ho[h])
  <2>1. Linked(m, h, "list_hashhead", ho[h])
    BY DEF Sound, AllLinked
  <2> QED
    BY <1>1, <2>1, TailFrame, ListNames
<1>4. ASSUME NEW h \in OcHead PROVE Linked(w, h, "list_ochead", o2[h])
  <2>1. CASE h = i
    <3>1. o2[h] = oo[i] \cup {c}
      BY <1>1, <2>1 DEF Apart
    <3> QED
      BY <1>2, <2>1, <3>1
  <2>2. CASE h # i
    <3>1. o2[h] = oo[h] /\ oo[i] \cap oo[h] = {} /\ c \notin oo[h]
      BY <1>1, <2>2 DEF Apart
    <3>2. Linked(m, h, "list_ochead", oo[h])
      BY DEF Sound, AllLinked
    <3>3. Linked(w, h, "list_ochead", oo[h])
      BY <1>1, <2>2, <3>1, <3>2, TailFrame, ListNames
    <3> QED
      BY <3>1, <3>3
  <2> QED
    BY <2>1, <2>2
<1>5. Linked(w, "pool", "list_hashhead", pl)
  <2>1. Linked(m, "pool", "list_hashhead", pl)
    BY DEF Sound, AllLinked
  <2> QED
    BY <1>1, <2>1, TailFrame, ListNames
<1>6. Apart(ho, o2, pl)
  BY <1>1 DEF Apart
<1> QED
  BY <1>2, <1>3, <1>4, <1>5, <1>6 DEF Sound, AllLinked

\* A record goes on the list of a key.
LEMMA HashGets ==
  ASSUME NEW m, NEW ho, NEW oo, NEW pl, Sound(m, ho, oo, pl), NEW c \in Oc \ pl,
         NEW i \in HashHead, \A h \in HashHead : c \notin ho[h]
  PROVE  Sound(INSERT_TAIL(m, i, c, "list_hashhead"), [ho EXCEPT ![i] = ho[i] \cup {c}], oo, pl)
<1> DEFINE w == INSERT_TAIL(m, i, c, "list_hashhead")
           h2 == [ho EXCEPT ![i] = ho[i] \cup {c}]
<1>1. m \in MemType /\ Apart(ho, oo, pl) /\ Linked(m, i, "list_hashhead", ho[i]) /\ c \in Oc \ ho[i]
  BY DEF Sound, AllLinked
<1>2. w \in MemType /\ Linked(w, i, "list_hashhead", ho[i] \cup {c})
  BY <1>1, TailLinked, TailWrites, ListNames
<1>3. ASSUME NEW h \in OcHead PROVE Linked(w, h, "list_ochead", oo[h])
  <2>1. Linked(m, h, "list_ochead", oo[h])
    BY DEF Sound, AllLinked
  <2> QED
    BY <1>1, <2>1, TailFrame, ListNames
<1>4. ASSUME NEW h \in HashHead PROVE Linked(w, h, "list_hashhead", h2[h])
  <2>1. CASE h = i
    <3>1. h2[h] = ho[i] \cup {c}
      BY <1>1, <2>1 DEF Apart
    <3> QED
      BY <1>2, <2>1, <3>1
  <2>2. CASE h # i
    <3>1. h2[h] = ho[h] /\ ho[i] \cap ho[h] = {} /\ c \notin ho[h]
      BY <1>1, <2>2 DEF Apart
    <3>2. Linked(m, h, "list_hashhead", ho[h])
      BY DEF Sound, AllLinked
    <3>3. Linked(w, h, "list_hashhead", ho[h])
      BY <1>1, <2>2, <3>1, <3>2, TailFrame, ListNames
    <3> QED
      BY <3>1, <3>3
  <2> QED
    BY <2>1, <2>2
<1>5. Linked(w, "pool", "list_hashhead", pl)
  <2>1. Linked(m, "pool", "list_hashhead", pl) /\ ho[i] \cap pl = {}
    BY DEF Sound, AllLinked, Apart
  <2> QED
    BY <1>1, <2>1, TailFrame, ListNames
<1>6. Apart(h2, oo, pl)
  BY <1>1 DEF Apart
<1> QED
  BY <1>2, <1>3, <1>4, <1>5, <1>6 DEF Sound, AllLinked

\* A record leaves the list of its object.
LEMMA OcLoses ==
  ASSUME NEW m, NEW ho, NEW oo, NEW pl, Sound(m, ho, oo, pl), NEW i \in OcHead, NEW c \in oo[i]
  PROVE  Sound(REMOVE(m, i, c, "list_ochead"), ho, [oo EXCEPT ![i] = oo[i] \ {c}], pl)
<1> DEFINE w == REMOVE(m, i, c, "list_ochead")
           o2 == [oo EXCEPT ![i] = oo[i] \ {c}]
<1>1. m \in MemType /\ Apart(ho, oo, pl) /\ Linked(m, i, "list_ochead", oo[i])
  BY DEF Sound, AllLinked
<1>2. w \in MemType /\ Linked(w, i, "list_ochead", oo[i] \ {c})
  BY <1>1, RemoveLinked, ListNames
<1>3. ASSUME NEW h \in HashHead PROVE Linked(w, h, "list_hashhead", ho[h])
  <2>1. Linked(m, h, "list_hashhead", ho[h])
    BY DEF Sound, AllLinked
  <2> QED
    BY <1>1, <2>1, RemoveFrame, ListNames
<1>4. ASSUME NEW h \in OcHead PROVE Linked(w, h, "list_ochead", o2[h])
  <2>1. CASE h = i
    <3>1. o2[h] = oo[i] \ {c}
      BY <1>1, <2>1 DEF Apart
    <3> QED
      BY <1>2, <2>1, <3>1
  <2>2. CASE h # i
    <3>1. o2[h] = oo[h] /\ oo[i] \cap oo[h] = {}
      BY <1>1, <2>2 DEF Apart
    <3>2. Linked(m, h, "list_ochead", oo[h])
      BY DEF Sound, AllLinked
    <3>3. Linked(w, h, "list_ochead", oo[h])
      BY <1>1, <2>2, <3>1, <3>2, RemoveFrame, ListNames
    <3> QED
      BY <3>1, <3>3
  <2> QED
    BY <2>1, <2>2
<1>5. Linked(w, "pool", "list_hashhead", pl)
  <2>1. Linked(m, "pool", "list_hashhead", pl)
    BY DEF Sound, AllLinked
  <2> QED
    BY <1>1, <2>1, RemoveFrame, ListNames
<1>6. Apart(ho, o2, pl)
  BY <1>1 DEF Apart
<1> QED
  BY <1>2, <1>3, <1>4, <1>5, <1>6 DEF Sound, AllLinked

\* A record leaves the list of its key.
LEMMA HashLoses ==
  ASSUME NEW m, NEW ho, NEW oo, NEW pl, Sound(m, ho, oo, pl), NEW i \in HashHead, NEW c \in ho[i]
  PROVE  Sound(REMOVE(m, i, c, "list_hashhead"), [ho EXCEPT ![i] = ho[i] \ {c}], oo, pl)
<1> DEFINE w == REMOVE(m, i, c, "list_hashhead")
           h2 == [ho EXCEPT ![i] = ho[i] \ {c}]
<1>1. m \in MemType /\ Apart(ho, oo, pl) /\ Linked(m, i, "list_hashhead", ho[i])
  BY DEF Sound, AllLinked
<1>2. w \in MemType /\ Linked(w, i, "list_hashhead", ho[i] \ {c})
  BY <1>1, RemoveLinked, ListNames
<1>3. ASSUME NEW h \in OcHead PROVE Linked(w, h, "list_ochead", oo[h])
  <2>1. Linked(m, h, "list_ochead", oo[h])
    BY DEF Sound, AllLinked
  <2> QED
    BY <1>1, <2>1, RemoveFrame, ListNames
<1>4. ASSUME NEW h \in HashHead PROVE Linked(w, h, "list_hashhead", h2[h])
  <2>1. CASE h = i
    <3>1. h2[h] = ho[i] \ {c}
      BY <1>1, <2>1 DEF Apart
    <3> QED
      BY <1>2, <2>1, <3>1
  <2>2. CASE h # i
    <3>1. h2[h] = ho[h] /\ ho[i] \cap ho[h] = {}
      BY <1>1, <2>2 DEF Apart
    <3>2. Linked(m, h, "list_hashhead", ho[h])
      BY DEF Sound, AllLinked
    <3>3. Linked(w, h, "list_hashhead", ho[h])
      BY <1>1, <2>2, <3>1, <3>2, RemoveFrame, ListNames
    <3> QED
      BY <3>1, <3>3
  <2> QED
    BY <2>1, <2>2
<1>5. Linked(w, "pool", "list_hashhead", pl)
  <2>1. Linked(m, "pool", "list_hashhead", pl) /\ ho[i] \cap pl = {}
    BY DEF Sound, AllLinked, Apart
  <2> QED
    BY <1>1, <2>1, RemoveFrame, ListNames
<1>6. Apart(h2, oo, pl)
  BY <1>1 DEF Apart
<1> QED
  BY <1>2, <1>3, <1>4, <1>5, <1>6 DEF Sound, AllLinked

-----------------------------------------------------------------------------
(***************************************************************************)
(* The inductive invariant: that of XkeyIndex, and the lists are linked.   *)
(***************************************************************************)
ListsInv == IndexInv /\ Sound(mem, hocs, oocs, cpool.list)

\* What the lists of XkeyIndex have in common.
LEMMA IndexApart == IndexInv => Apart(hocs, oocs, cpool.list)
<1> SUFFICES ASSUME IndexInv PROVE Apart(hocs, oocs, cpool.list)
  OBVIOUS
<1>0. /\ hocs \in [HashHead -> SUBSET Oc] /\ oocs \in [OcHead -> SUBSET Oc]
      /\ cpool.list \subseteq Oc
  BY DEF IndexInv, TypeOK, PoolType
<1>1. \A h, i \in HashHead : h # i => hocs[h] \cap hocs[i] = {}
  BY <1>0 DEF IndexInv, ListsAgree
<1>2. ASSUME NEW h \in OcHead, NEW i \in OcHead, NEW c \in oocs[h] \cap oocs[i]
      PROVE  h = i
  <2>1. okey[h] # NULL /\ okey[h] = okey[i]
    BY <1>0, <1>2 DEF IndexInv, ListsAgree
  <2>2. h \in octree /\ i \in octree
    BY <2>1 DEF IndexInv, HeadsLive
  <2> QED
    BY <2>1, <2>2 DEF IndexInv, HeadsLive
<1>3. ASSUME NEW h \in HashHead, NEW c \in hocs[h] PROVE c \notin cpool.list
  <2>1. c \in Oc /\ hashhead[c] = h /\ h # NULL
    BY <1>0, IndexAssumption DEF IndexInv, ListsAgree
  <2>2. objcore[c] # NULL
    BY <2>1 DEF IndexInv, ListsAgree
  <2> QED
    BY <2>1, <2>2 DEF IndexInv, NoLeak
<1> QED
  BY <1>0, <1>1, <1>2, <1>3 DEF Apart

\* All lists are empty at first.
LEMMA ListsInitInv == ListsInit => ListsInv
<1> SUFFICES ASSUME ListsInit PROVE ListsInv
  OBVIOUS
<1>1. IndexInv
  BY InitInv DEF ListsInit
<1>2. mem \in MemType
  <2>1. \A l \in List : <<"first", l>> \in Cell
    BY Cells
  <2> QED
    BY <2>1 DEF ListsInit, MemType
<1>3. ASSUME NEW l \in List, NEW f \in Field PROVE Linked(mem, l, f, {})
  <2>1. mem.ptr[<<"first", l>>] = NULL /\ mem.last[l] = <<"first", l>>
    BY Cells DEF ListsInit
  <2> DEFINE s == [k \in 1..0 |-> NULL]
  <2>2. s \in [1..0 -> Oc] /\ {s[k] : k \in 1..0} = {}
    OBVIOUS
  <2>3. Chain(mem, l, f, 0, s)
    BY <2>1 DEF Chain, At
  <2> QED
    BY <2>2, <2>3, ChainLinked
<1>4. /\ \A h \in HashHead : hocs[h] = {}
      /\ \A h \in OcHead : oocs[h] = {}
      /\ cpool.list = {}
  BY DEF ListsInit, Init, EmptyPool
<1>5. AllLinked(mem, hocs, oocs, cpool.list)
  BY <1>3, <1>4, ListNames DEF AllLinked
<1> QED
  BY <1>1, <1>2, <1>5, IndexApart DEF ListsInv, Sound

\* A record that xkey_oc_new returns is on no list.
LEMMA Fresh ==
  ASSUME IndexInv, NEW c \in Oc, CanTake(cpool, c)
  PROVE  /\ \A h \in HashHead : c \notin hocs[h]
         /\ \A h \in OcHead : c \notin oocs[h]
         /\ cpool.n > 0 => c \in cpool.list
         /\ cpool.n = 0 => c \notin cpool.list
<1>1. cpool \in PoolType(Oc) /\ PoolSound(cpool) /\ IsFiniteSet(Oc) /\ cpool.n \in Nat
  BY IndexAssumption DEF IndexInv, TypeOK, NoLeak, PoolType
<1>2. c \notin InUse(cpool)
  BY <1>1, TakeSound
<1>3. objcore[c] = NULL /\ hashhead[c] = NULL
  BY <1>2 DEF IndexInv, NoLeak, InUse, ListsAgree
<1>4. NULL \notin HashHead
  BY IndexAssumption
<1>5. cpool.n = 0 => c \notin cpool.list
  BY <1>1 DEF CanTake, PoolSound
<1> QED
  BY <1>1, <1>3, <1>4, <1>5 DEF IndexInv, ListsAgree, CanTake

\* xkey_insert, with VTAILQ_REMOVE in xkey_oc_new and two VTAILQ_INSERT_TAIL.
LEMMA ListsInsertInv ==
  ASSUME ListsInv, NEW o \in ObjCore, NEW d \in Digest, lists_insert(o, d)
  PROVE  ListsInv'
<1>0. IndexInv /\ Sound(mem, hocs, oocs, cpool.list)
  BY DEF ListsInv
<1>1. IndexInv'
  BY <1>0, InsertInv DEF lists_insert, xkey_insert
<1>2. PICK oh \in OcHead, hh \in HashHead, c \in Oc :
        /\ OcNew(c) /\ CanTake(cpool, c)
        /\ cpool' = Take(cpool, c)
        /\ oocs' = [oocs EXCEPT ![oh] = oocs[oh] \cup {c}]
        /\ hocs' = [hocs EXCEPT ![hh] = hocs[hh] \cup {c}]
        /\ mem' = INSERT_TAIL(INSERT_TAIL(OcTaken(mem, c), oh, c, "list_ochead"),
                              hh, c, "list_hashhead")
  BY DEF lists_insert, Tie
<1>3. /\ \A h \in HashHead : c \notin hocs[h]
      /\ \A h \in OcHead : c \notin oocs[h]
      /\ cpool.n > 0 => c \in cpool.list
      /\ cpool.n = 0 => c \notin cpool.list
  BY <1>0, <1>2, Fresh
<1>4. cpool \in PoolType(Oc) /\ cpool.n \in Nat
  BY <1>0 DEF IndexInv, TypeOK, PoolType
<1>5. Sound(OcTaken(mem, c), hocs, oocs, cpool'.list) /\ c \notin cpool'.list
  <2>1. CASE cpool.n > 0
    <3>1. cpool'.list = cpool.list \ {c}
      BY <1>2, <1>4, <2>1 DEF Take, PoolType
    <3> QED
      BY <1>0, <1>3, <2>1, <3>1, PoolTakes DEF OcTaken
  <2>2. CASE cpool.n = 0
    <3>1. cpool'.list = cpool.list
      BY <1>2, <1>4, <2>2 DEF Take, PoolType
    <3> QED
      BY <1>0, <1>3, <2>2, <3>1 DEF OcTaken
  <2> QED
    BY <1>4, <2>1, <2>2
<1>6. Sound(INSERT_TAIL(OcTaken(mem, c), oh, c, "list_ochead"), hocs, oocs', cpool'.list)
  BY <1>2, <1>3, <1>5, OcGets
<1>7. Sound(mem', hocs', oocs', cpool'.list)
  BY <1>2, <1>3, <1>5, <1>6, HashGets
<1> QED
  BY <1>1, <1>7 DEF ListsInv

\* The first record of the object that xkey_remove is emptying is one of its records.
LEMMA ListsRemoves ==
  ASSUME ListsInv, lists_remove_step
  PROVE  /\ removing \in OcHead /\ FIRST(mem, removing) \in oocs[removing]
         /\ xkey_remove_step
<1>0. IndexInv /\ Sound(mem, hocs, oocs, cpool.list)
  BY DEF ListsInv
<1>1. removing \in OcHead
  BY <1>0 DEF IndexInv, TypeOK, lists_remove_step
<1>2. Linked(mem, removing, "list_ochead", oocs[removing])
  BY <1>0, <1>1 DEF Sound, AllLinked
<1>3. FIRST(mem, removing) # NULL
  BY DEF lists_remove_step, EMPTY
<1>4. FIRST(mem, removing) \in oocs[removing]
  BY <1>2, <1>3, Ends
<1> QED
  BY <1>1, <1>4 DEF lists_remove_step, xkey_remove_step

\* One turn of the loop of xkey_remove, with two VTAILQ_REMOVE and, in
\* xkey_oc_delete, a VTAILQ_INSERT_HEAD.
LEMMA ListsRemoveInv ==
  ASSUME ListsInv, lists_remove_step
  PROVE  ListsInv'
<1>0. IndexInv /\ Sound(mem, hocs, oocs, cpool.list)
  BY DEF ListsInv
<1> DEFINE c == FIRST(mem, removing)
           hh == hashhead[c]
<1>1. removing \in OcHead /\ c \in oocs[removing] /\ xkey_remove_step
  BY ListsRemoves
<1>2. IndexInv'
  BY <1>0, <1>1, RemoveStepInv
<1>3. /\ hocs' = [hocs EXCEPT ![hh] = hocs[hh] \ {c}]
      /\ oocs' = [oocs EXCEPT ![removing] = oocs[removing] \ {c}]
      /\ cpool' = Give(cpool, c)
      /\ mem' = OcGiven(REMOVE(REMOVE(mem, hh, c, "list_hashhead"),
                               removing, c, "list_ochead"), c)
  BY DEF lists_remove_step, Untie
<1> HIDE DEF c
<1>4. c \in Oc /\ objcore[c] # NULL /\ hh \in HashHead /\ c \in hocs[hh] /\ c \notin cpool.list
  <2>1. c \in Oc /\ objcore[c] # NULL
    BY <1>0, <1>1 DEF IndexInv, TypeOK, ListsAgree
  <2>2. hh \in HashHead
    BY <1>0, <2>1 DEF IndexInv, TypeOK, ListsAgree
  <2>3. c \in hocs[hh]
    BY <1>0, <2>1, <2>2 DEF IndexInv, ListsAgree
  <2>4. c \notin cpool.list
    BY <1>0, <2>1 DEF IndexInv, NoLeak
  <2> QED
    BY <2>1, <2>2, <2>3, <2>4
<1> HIDE DEF hh
<1>5. cpool \in PoolType(Oc) /\ cpool.n \in Nat /\ POOL_MAX \in Nat
  BY <1>0, IndexAssumption DEF IndexInv, TypeOK, PoolType
<1> DEFINE m1 == REMOVE(mem, hh, c, "list_hashhead")
           m2 == REMOVE(m1, removing, c, "list_ochead")
<1>6. Sound(m1, hocs', oocs, cpool.list)
  BY <1>0, <1>3, <1>4, HashLoses
<1>7. Sound(m2, hocs', oocs', cpool.list)
  BY <1>1, <1>3, <1>6, OcLoses
<1>8. \A h \in HashHead : c \notin hocs'[h]
  <2>1. Apart(hocs, oocs, cpool.list)
    BY <1>0 DEF Sound
  <2> QED
    BY <1>3, <1>4, <2>1 DEF Apart
<1> HIDE DEF m1, m2
<1>9. mem' = OcGiven(m2, c)
  BY <1>3 DEF m1, m2
<1>10. Sound(mem', hocs', oocs', cpool'.list)
  <2>1. CASE cpool.n < POOL_MAX
    <3>1. cpool'.list = cpool.list \cup {c}
      BY <1>3, <1>5, <2>1 DEF Give, PoolType
    <3> QED
      BY <1>4, <1>7, <1>8, <1>9, <2>1, <3>1, PoolGets DEF OcGiven
  <2>2. CASE ~(cpool.n < POOL_MAX)
    <3>1. cpool'.list = cpool.list
      BY <1>3, <1>5, <2>2 DEF Give, PoolType
    <3> QED
      BY <1>7, <1>9, <2>2, <3>1 DEF OcGiven
  <2> QED
    BY <2>1, <2>2
<1> QED
  BY <1>2, <1>10 DEF ListsInv

LEMMA ListsNextInv == ListsInv /\ [ListsNext]_lvars => ListsInv'
<1> SUFFICES ASSUME ListsInv, [ListsNext]_lvars PROVE ListsInv'
  OBVIOUS
<1>0. IndexInv /\ Sound(mem, hocs, oocs, cpool.list)
  BY DEF ListsInv
<1>1. ASSUME NEW o \in ObjCore, NEW d \in Digest, lists_insert(o, d) PROVE ListsInv'
  BY <1>1, ListsInsertInv
<1>2. ASSUME NEW o \in ObjCore, lists_remove_start(o) PROVE ListsInv'
  <2>1. IndexInv'
    BY <1>0, <1>2, NextInv DEF lists_remove_start, Next
  <2>2. UNCHANGED <<mem, hocs, oocs, cpool>>
    BY <1>2 DEF lists_remove_start, xkey_remove_start
  <2> QED
    BY <1>0, <2>1, <2>2 DEF ListsInv
<1>3. CASE lists_remove_step
  BY <1>3, ListsRemoveInv
<1>4. CASE lists_remove_end
  <2>1. IndexInv'
    BY <1>0, <1>4, NextInv DEF lists_remove_end, Next
  <2>2. UNCHANGED <<mem, hocs, oocs, cpool>>
    BY <1>4 DEF lists_remove_end, xkey_remove_end
  <2> QED
    BY <1>0, <2>1, <2>2 DEF ListsInv
<1>5. CASE UNCHANGED lvars
  <2>1. IndexInv'
    BY <1>0, <1>5, NextInv DEF lvars
  <2>2. UNCHANGED <<mem, hocs, oocs, cpool>>
    BY <1>5 DEF lvars, vars
  <2> QED
    BY <1>0, <2>1, <2>2 DEF ListsInv
<1> QED
  BY <1>1, <1>2, <1>3, <1>4, <1>5 DEF ListsNext

\* A step on the pointers is a step on the sets that they stand for.
LEMMA ListsStep == ListsInv /\ [ListsNext]_lvars => [Next]_vars
<1> SUFFICES ASSUME ListsInv, [ListsNext]_lvars PROVE [Next]_vars
  OBVIOUS
<1>1. ASSUME NEW o \in ObjCore, NEW d \in Digest, lists_insert(o, d) PROVE xkey_insert(o, d)
  BY <1>1 DEF lists_insert, xkey_insert
<1>2. ASSUME NEW o \in ObjCore, lists_remove_start(o) PROVE xkey_remove_start(o)
  BY <1>2 DEF lists_remove_start
<1>3. ASSUME lists_remove_step PROVE xkey_remove_step
  BY <1>3, ListsRemoves
<1>4. ASSUME lists_remove_end PROVE xkey_remove_end
  BY <1>4 DEF lists_remove_end
<1> QED
  BY <1>1, <1>2, <1>3, <1>4 DEF ListsNext, Next, lvars

\* The tail queues of vmod_xkey.c implement the sets of XkeyIndex: the loop of
\* xkey_remove goes from VTAILQ_FIRST to the end and takes each record of the
\* object once, and a record from the pool is one that no list holds.
THEOREM ListsImplementIndex == ListsSpec => Spec
<1>1. ListsInit => Init
  BY DEF ListsInit
<1> QED
  BY <1>1, ListsInitInv, ListsNextInv, ListsStep, PTL DEF ListsSpec, Spec

\* What holds of the sets holds of the queues, in every state of xkey_insert
\* and xkey_remove: no record is on the list of a wrong key or object, lost or
\* both in use and in the pool.
THEOREM ListsIndexCorrect == ListsSpec => [](TypeOK /\ ListsAgree /\ HeadsLive /\ NoLeak)
  BY ListsImplementIndex, IndexCorrect, PTL

\* xkey_insert and xkey_remove, as they work on pointers, implement the abstract
\* map from objects to tags.
THEOREM ListsRefineTags == ListsSpec => ImplementsTags
  BY ListsImplementIndex, IndexRefinesTags, PTL

-----------------------------------------------------------------------------
LEMMA LeastNat ==
  ASSUME NEW T \in SUBSET Nat, T # {}
  PROVE  \E x \in T : \A y \in T : x <= y
<1> DEFINE R == OpToRel(<, Nat)
<1>1. IsWellFoundedOn(R, Nat)
  BY NatLessThanWellFounded
<1>2. PICK x \in T : \A y \in T : <<y, x>> \notin R
  BY <1>1, WFMin
<1>3. x \in Nat /\ \A y \in T : y \in Nat /\ ~(y < x)
  BY <1>2 DEF OpToRel
<1> QED
  BY <1>3

\* Induction, for a set rather than a formula.
LEMMA SetInduction ==
  ASSUME NEW T \in SUBSET Nat, 0 \in T, \A k \in T : k + 1 \in T
  PROVE  T = Nat
<1>1. ASSUME Nat \ T # {} PROVE FALSE
  <2>1. PICK x \in Nat \ T : \A y \in Nat \ T : x <= y
    BY <1>1, LeastNat
  <2>2. x # 0 /\ x - 1 \in Nat /\ x - 1 \in T
    BY <2>1
  <2>3. (x - 1) + 1 = x
    BY <2>1
  <2> QED
    BY <2>1, <2>2, <2>3
<1> QED
  BY <1>1

\* What Walk finds on a list of n records.
LEMMA Walked ==
  ASSUME NEW l \in List, NEW f \in Field, NEW n \in Nat, NEW s \in [1..n -> Oc],
         Chain(mem, l, f, n, s), n <= Cardinality(Oc)
  PROVE  \A i \in 0..n : Walk(l, f)[i] = IF i < n THEN s[i + 1] ELSE NULL
<1> DEFINE N == Cardinality(Oc)
           e == [i \in 0..N |-> IF i < n THEN s[i + 1] ELSE NULL]
           Step(g, i) == IF i = 0 THEN FIRST(mem, l)
                         ELSE IF g[i - 1] = NULL THEN NULL ELSE mem.ptr[<<f, g[i - 1]>>]
           IsWalk(g) == g = [i \in 0..N |-> Step(g, i)]
<1>0. N \in Nat /\ n <= N
  BY IndexAssumption, FS_CardinalityType
<1> HIDE DEF N
<1>1. \A k \in 1..n : /\ s[k] # NULL
                      /\ mem.ptr[IF k - 1 = 0 THEN <<"first", l>> ELSE <<f, s[k - 1]>>] = s[k]
  BY ListsAssumption DEF Chain, At
<1>2. mem.ptr[IF n = 0 THEN <<"first", l>> ELSE <<f, s[n]>>] = NULL
  BY DEF Chain, At
<1>3. ASSUME NEW i \in 0..N PROVE e[i] = Step(e, i)
  <2>1. CASE i = 0
    <3>1. CASE n = 0
      BY <1>2, <2>1, <3>1 DEF FIRST
    <3>2. CASE n # 0
      <4>1. 1 \in 1..n /\ 1 - 1 = 0 /\ 0 + 1 = 1 /\ 0 < n
        BY <3>2
      <4>2. mem.ptr[<<"first", l>>] = s[1]
        BY <1>1, <4>1
      <4>3. e[0] = s[1]
        BY <1>0, <4>1
      <4> QED
        BY <2>1, <4>2, <4>3 DEF FIRST
    <3> QED
      BY <3>1, <3>2
  <2>2. CASE i # 0 /\ i - 1 < n
    <3>1. i \in 1..n /\ i - 1 \in 0..N /\ (i - 1) + 1 = i
      BY <1>0, <2>2
    <3>2. e[i - 1] = s[i] /\ s[i] # NULL
      BY <1>1, <2>2, <3>1
    <3>3. e[i] = mem.ptr[<<f, s[i]>>]
      <4>1. CASE i < n
        <5>1. i + 1 \in 1..n /\ (i + 1) - 1 = i
          BY <3>1, <4>1
        <5>2. mem.ptr[<<f, s[i]>>] = s[i + 1]
          BY <1>1, <2>2, <5>1
        <5> QED
          BY <4>1, <5>2
      <4>2. CASE i = n
        BY <1>2, <2>2, <4>2
      <4> QED
        BY <3>1, <4>1, <4>2
    <3> QED
      BY <2>2, <3>2, <3>3
  <2>3. CASE i # 0 /\ ~(i - 1 < n)
    <3>1. i - 1 \in 0..N /\ ~(i < n)
      BY <1>0, <2>3
    <3>2. e[i - 1] = NULL /\ e[i] = NULL
      BY <2>3, <3>1
    <3> QED
      BY <2>3, <3>2
  <2> QED
    BY <2>1, <2>2, <2>3
<1>4. IsWalk(e)
  <2> HIDE DEF Step
  <2> QED
    BY <1>3
<1>5. Walk(l, f) = CHOOSE g : IsWalk(g)
  BY DEF Walk, N
<1> DEFINE g == Walk(l, f)
<1>6. IsWalk(g)
  <2> HIDE DEF IsWalk
  <2> QED
    BY <1>4, <1>5
<1>7. \A i \in 0..N : g[i] = Step(g, i)
  <2> HIDE DEF Step, g
  <2> QED
    BY <1>6
<1> DEFINE T == {i \in Nat : i <= N => g[i] = e[i]}
<1>8. 0 \in T
  <2>1. 0 \in 0..N
    BY <1>0
  <2>2. Step(g, 0) = Step(e, 0)
    OBVIOUS
  <2> HIDE DEF g, e, Step
  <2>3. g[0] = e[0]
    BY <1>3, <1>7, <2>1, <2>2
  <2> QED
    BY <2>3
<1>9. ASSUME NEW k \in T PROVE k + 1 \in T
  <2> SUFFICES ASSUME k + 1 <= N PROVE g[k + 1] = e[k + 1]
    BY <1>9
  <2>1. k \in Nat /\ k + 1 \in 0..N /\ (k + 1) - 1 = k /\ k + 1 # 0 /\ k <= N
    BY <1>0
  <2>2. g[k] = e[k]
    BY <1>9, <2>1
  <2> HIDE DEF e, g
  <2> QED
    BY <1>3, <1>7, <2>1, <2>2, ZenonT(60)
<1>10. T = Nat
  <2> HIDE DEF g, e
  <2> QED
    BY <1>8, <1>9, SetInduction
<1>11. ASSUME NEW i \in 0..n PROVE g[i] = e[i] /\ e[i] = IF i < n THEN s[i + 1] ELSE NULL
  <2>1. i \in Nat /\ i <= N /\ i \in 0..N
    BY <1>0
  <2> HIDE DEF T
  <2>2. i \in T
    BY <1>10, <2>1
  <2> USE DEF T
  <2> HIDE DEF g
  <2> QED
    BY <2>1, <2>2
<1> HIDE DEF e
<1> QED
  BY <1>11

\* A chain of records is a list in the sense of LinksAgree.
LEMMA LinkedLinks ==
  ASSUME NEW l \in List, NEW f \in Field, NEW S, Linked(mem, l, f, S)
  PROVE  Links(l, f, S)
<1>0. PICK n \in Nat : \E s \in [1..n -> Oc] : Chain(mem, l, f, n, s) /\ S = {s[k] : k \in 1..n}
  BY DEF Linked
<1>1. PICK s \in [1..n -> Oc] : Chain(mem, l, f, n, s) /\ S = {s[k] : k \in 1..n}
  BY <1>0
<1>2. Cardinality(S) = n
  <2>1. s \in [1..n -> S] /\ \A x \in S : \E k \in 1..n : s[k] = x
    BY <1>1
  <2>2. \A i, j \in 1..n : s[i] = s[j] => i = j
    BY <1>1 DEF Chain
  <2>3. s \in Bijection(1..n, S)
    BY <2>1, <2>2 DEF Bijection, Injection, Surjection, IsInjective
  <2>4. ExistsBijection(1..n, S)
    BY <2>3 DEF ExistsBijection
  <2> QED
    BY <2>4, FS_CountingElements
<1>3. n <= Cardinality(Oc)
  <2>1. S \in SUBSET Oc
    BY <1>1
  <2> QED
    BY <1>2, <2>1, IndexAssumption, FS_Subset
<1> DEFINE g == Walk(l, f)
<1>4. \A i \in 0..n : g[i] = IF i < n THEN s[i + 1] ELSE NULL
  BY <1>1, <1>3, Walked
<1> HIDE DEF g
<1>5. \A i \in 0..(n - 1) : g[i] = s[i + 1] /\ i + 1 \in 1..n
  BY <1>4
<1>6. {g[i] : i \in 0..(n - 1)} = S
  <2>1. \A k \in 1..n : k - 1 \in 0..(n - 1) /\ g[k - 1] = s[k]
    BY <1>5
  <2> QED
    BY <1>1, <1>5, <2>1
<1>7. g[n] = NULL
  BY <1>4
<1>8. \A k \in 0..n : At(l, f, s, k) = IF k = 0 THEN <<"first", l>> ELSE <<f, g[k - 1]>>
  <2>1. \A k \in 1..n : g[k - 1] = s[k]
    BY <1>5
  <2> QED
    BY <2>1 DEF At
<1>9. ASSUME NEW i \in 0..(n - 1)
      PROVE  mem.prev[<<f, g[i]>>] = IF i = 0 THEN <<"first", l>> ELSE <<f, g[i - 1]>>
  <2>1. i + 1 \in 1..n /\ (i + 1) - 1 = i /\ i \in 0..n
    OBVIOUS
  <2>2. mem.prev[<<f, s[i + 1]>>] = At(l, f, s, i)
    BY <1>1, <2>1 DEF Chain
  <2> QED
    BY <1>5, <1>8, <2>1, <2>2
<1>10. mem.last[l] = IF n = 0 THEN <<"first", l>> ELSE <<f, g[n - 1]>>
  BY <1>1, <1>8 DEF Chain
<1> QED
  BY <1>2, <1>6, <1>7, <1>9, <1>10 DEF Links, g

\* The pointers of vmod_xkey.c make up the lists in every state: each VTAILQ
\* links its records once, forwards and backwards, up to its last pointer, and
\* the two fields of a record never take one list into another, although one of
\* them serves the lists of the keys and the pool.
THEOREM ListsLinksAgree == ListsSpec => []LinksAgree
<1>1. ListsInv => LinksAgree
  <2> SUFFICES ASSUME ListsInv PROVE LinksAgree
    OBVIOUS
  <2>1. AllLinked(mem, hocs, oocs, cpool.list)
    BY DEF ListsInv, Sound
  <2> QED
    BY <2>1, LinkedLinks, ListNames DEF AllLinked, LinksAgree
<1> QED
  BY <1>1, ListsInitInv, ListsNextInv, PTL DEF ListsSpec
=============================================================================
