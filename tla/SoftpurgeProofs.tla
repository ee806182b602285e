-------------------------- MODULE SoftpurgeProofs ---------------------------
(***************************************************************************)
(* Proofs about Softpurge for any finite sets of variants and requests,    *)
(* any lifetimes and room in the workspaces, and without the bound on      *)
(* time.                                                                   *)
(***************************************************************************)
EXTENDS Softpurge, FiniteSetTheorems, TLAPS

(***************************************************************************)
(* The inductive invariant.  A request that runs has an object; the time   *)
(* it noted is past; what it has rearmed is stale; what it has in its      *)
(* workspace, or must not miss, is neither free nor busy, so that no fetch *)
(* gives it a new lifetime.                                                *)
(***************************************************************************)
InStep ==
  \A r \in Req :
    /\ req[r].pc # "idle" => req[r].objcore \in ObjCore
    /\ req[r].t_prev <= clock
    /\ req[r].rearmed # NULL => Stale(req[r].rearmed)
    /\ \A o \in req[r].ocp \cup req[r].due : oc[o].phase \notin {"free", "busy"}

SoftpurgeInv == TypeOK /\ RefsExact /\ InStep /\ DuePurged

-----------------------------------------------------------------------------
\* Whoever may hold a reference.
AnyHolder == (Req \X {"lookup", "softpurge"}) \cup {<<NULL, "cache">>}

LEMMA HolderIs ==
  ASSUME NEW o \in ObjCore
  PROVE  /\ \A q \in Req : /\ <<q, "lookup">> \in Holders(o)
                                <=> req[q].pc # "idle" /\ req[q].objcore = o
                           /\ <<q, "softpurge">> \in Holders(o) <=> o \in req[q].ocp
         /\ <<NULL, "cache">> \in Holders(o) <=> oc[o].phase \in {"live", "dying"}
         /\ Holders(o) \subseteq AnyHolder
  BY DEF Holders, AnyHolder

\* The same, after a step.
LEMMA HolderWillBe ==
  ASSUME NEW o \in ObjCore
  PROVE  /\ \A q \in Req : /\ <<q, "lookup">> \in Holders(o)'
                                <=> req'[q].pc # "idle" /\ req'[q].objcore = o
                           /\ <<q, "softpurge">> \in Holders(o)' <=> o \in req'[q].ocp
         /\ <<NULL, "cache">> \in Holders(o)' <=> oc'[o].phase \in {"live", "dying"}
         /\ Holders(o)' \subseteq AnyHolder
  BY DEF Holders, AnyHolder

LEMMA LookupWillBe ==
  ASSUME NEW o \in ObjCore, NEW q \in Req
  PROVE  <<q, "lookup">> \in Holders(o)' <=> req'[q].pc # "idle" /\ req'[q].objcore = o
  BY HolderWillBe

LEMMA HoldersFinite ==
  ASSUME NEW o \in ObjCore
  PROVE  IsFiniteSet(Holders(o))
<1>1. IsFiniteSet({"lookup", "softpurge"})
  <2>1. IsFiniteSet({"lookup"})
    BY FS_Singleton
  <2>2. IsFiniteSet({"lookup"} \cup {"softpurge"})
    BY <2>1, FS_AddElement
  <2> QED
    BY <2>2, {"lookup", "softpurge"} = {"lookup"} \cup {"softpurge"}
<1>2. IsFiniteSet(AnyHolder)
  BY <1>1, FS_Product, FS_AddElement, SoftpurgeAssumption DEF AnyHolder
<1> QED
  BY <1>2, HolderIs, FS_Subset

\* Two sets of holders are the same if they agree on everyone.
LEMMA SameHolders ==
  ASSUME NEW S, NEW T, S \subseteq AnyHolder, T \subseteq AnyHolder,
         \A q \in Req : /\ <<q, "lookup">> \in S <=> <<q, "lookup">> \in T
                        /\ <<q, "softpurge">> \in S <=> <<q, "softpurge">> \in T,
         <<NULL, "cache">> \in S <=> <<NULL, "cache">> \in T
  PROVE  S = T
<1>1. ASSUME NEW y \in AnyHolder
      PROVE  y \in S <=> y \in T
  <2>1. CASE y = <<NULL, "cache">>
    BY <2>1
  <2>2. CASE y \in Req \X {"lookup", "softpurge"}
    <3>1. PICK q \in Req, k \in {"lookup", "softpurge"} : y = <<q, k>>
      BY <2>2
    <3> QED
      BY <3>1
  <2> QED
    BY <2>1, <2>2 DEF AnyHolder
<1> QED
  BY <1>1

\* Someone joins the holders, or leaves them; the others do not.
OtherReqs(o, x) ==
  \A q \in Req :
    /\ <<q, "lookup">> # x =>
         (<<q, "lookup">> \in Holders(o)' <=> <<q, "lookup">> \in Holders(o))
    /\ <<q, "softpurge">> # x =>
         (<<q, "softpurge">> \in Holders(o)' <=> <<q, "softpurge">> \in Holders(o))

Others(o, x) ==
  /\ OtherReqs(o, x)
  /\ <<NULL, "cache">> # x =>
       (<<NULL, "cache">> \in Holders(o)' <=> <<NULL, "cache">> \in Holders(o))

LEMMA ReqsStay ==
  ASSUME NEW o \in ObjCore, NEW x,
         \A q \in Req :
           /\ <<q, "lookup">> # x => (req'[q].pc # "idle" /\ req'[q].objcore = o
                                        <=> req[q].pc # "idle" /\ req[q].objcore = o)
           /\ <<q, "softpurge">> # x => (o \in req'[q].ocp <=> o \in req[q].ocp)
  PROVE  OtherReqs(o, x)
<1> SUFFICES ASSUME NEW q \in Req
             PROVE  /\ <<q, "lookup">> # x =>
                         (<<q, "lookup">> \in Holders(o)' <=> <<q, "lookup">> \in Holders(o))
                    /\ <<q, "softpurge">> # x =>
                         (<<q, "softpurge">> \in Holders(o)' <=> <<q, "softpurge">> \in Holders(o))
  BY DEF OtherReqs
<1>1. CASE <<q, "lookup">> # x
  BY <1>1, HolderIs, HolderWillBe
<1>2. CASE <<q, "softpurge">> # x
  BY <1>2, HolderIs, HolderWillBe
<1> QED
  BY <1>1, <1>2

LEMMA HoldersStay ==
  ASSUME NEW o \in ObjCore,
         \A q \in Req : /\ req'[q].pc # "idle" /\ req'[q].objcore = o
                             <=> req[q].pc # "idle" /\ req[q].objcore = o
                        /\ o \in req'[q].ocp <=> o \in req[q].ocp,
         oc'[o].phase \in {"live", "dying"} <=> oc[o].phase \in {"live", "dying"}
  PROVE  Holders(o)' = Holders(o)
<1>1. ASSUME NEW q \in Req
      PROVE  /\ <<q, "lookup">> \in Holders(o)' <=> <<q, "lookup">> \in Holders(o)
             /\ <<q, "softpurge">> \in Holders(o)' <=> <<q, "softpurge">> \in Holders(o)
  BY HolderIs, HolderWillBe
<1>2. <<NULL, "cache">> \in Holders(o)' <=> <<NULL, "cache">> \in Holders(o)
  BY HolderIs, HolderWillBe
<1>3. Holders(o) \subseteq AnyHolder /\ Holders(o)' \subseteq AnyHolder
  BY HolderIs, HolderWillBe
<1> QED
  BY <1>1, <1>2, <1>3, SameHolders

LEMMA Joined ==
  ASSUME NEW o \in ObjCore, NEW x \in AnyHolder, Others(o, x), x \in Holders(o)'
  PROVE  Holders(o)' = Holders(o) \cup {x}
<1> DEFINE T == Holders(o) \cup {x}
<1>1. Holders(o)' \subseteq AnyHolder /\ T \subseteq AnyHolder
  BY HolderIs, HolderWillBe
<1>2. \A q \in Req : <<q, "lookup">> \in Holders(o)' <=> <<q, "lookup">> \in T
  BY DEF Others, OtherReqs
<1>3. \A q \in Req : <<q, "softpurge">> \in Holders(o)' <=> <<q, "softpurge">> \in T
  BY DEF Others, OtherReqs
<1>4. <<NULL, "cache">> \in Holders(o)' <=> <<NULL, "cache">> \in T
  BY DEF Others, OtherReqs
<1> HIDE DEF T
<1>5. Holders(o)' = T
  BY <1>1, <1>2, <1>3, <1>4, SameHolders
<1> QED
  BY <1>5 DEF T

LEMMA Left ==
  ASSUME NEW o \in ObjCore, NEW x \in AnyHolder, Others(o, x), x \notin Holders(o)'
  PROVE  Holders(o)' = Holders(o) \ {x}
<1> DEFINE T == Holders(o) \ {x}
<1>1. Holders(o)' \subseteq AnyHolder /\ T \subseteq AnyHolder
  BY HolderIs, HolderWillBe
<1>2. \A q \in Req : <<q, "lookup">> \in Holders(o)' <=> <<q, "lookup">> \in T
  BY DEF Others, OtherReqs
<1>3. \A q \in Req : <<q, "softpurge">> \in Holders(o)' <=> <<q, "softpurge">> \in T
  BY DEF Others, OtherReqs
<1>4. <<NULL, "cache">> \in Holders(o)' <=> <<NULL, "cache">> \in T
  BY DEF Others, OtherReqs
<1> HIDE DEF T
<1>5. Holders(o)' = T
  BY <1>1, <1>2, <1>3, <1>4, SameHolders
<1> QED
  BY <1>5 DEF T

\* RefsExact of one objcore.
RefExact(o) ==
  /\ oc[o].refcnt = Cardinality(Holders(o))
  /\ oc[o].phase = "free" <=> oc[o].refcnt = 0

LEMMA Untouched ==
  ASSUME NEW o \in ObjCore, RefExact(o), oc'[o] = oc[o], Holders(o)' = Holders(o)
  PROVE  RefExact(o)'
  BY DEF RefExact

\* A reference is taken.
LEMMA Referenced ==
  ASSUME NEW o \in ObjCore, RefExact(o), NEW x, x \notin Holders(o),
         Holders(o)' = Holders(o) \cup {x},
         oc'[o].refcnt = oc[o].refcnt + 1, oc'[o].phase # "free"
  PROVE  RefExact(o)'
  BY HoldersFinite, FS_AddElement, FS_CardinalityType DEF RefExact

\* Whoever holds a reference has been counted.
LEMMA Counted ==
  ASSUME NEW o \in ObjCore, RefExact(o), NEW x \in Holders(o)
  PROVE  /\ oc[o].refcnt \in Nat \ {0}
         /\ oc[o].phase # "free"
         /\ oc[o].refcnt = 1 => Holders(o) = {x}
         /\ oc[o].refcnt - 1 = Cardinality(Holders(o) \ {x})
<1>1. IsFiniteSet(Holders(o)) /\ Cardinality(Holders(o)) \in Nat
  BY HoldersFinite, FS_CardinalityType
<1>2. Cardinality(Holders(o)) # 0
  BY <1>1, FS_EmptySet
<1>3. Cardinality(Holders(o)) = 1 => Holders(o) = {x}
  BY <1>1, FS_Singleton
<1>4. Cardinality(Holders(o) \ {x}) = Cardinality(Holders(o)) - 1
  BY <1>1, FS_RemoveElement
<1> QED
  BY <1>1, <1>2, <1>3, <1>4 DEF RefExact

\* A reference is given back; the last one frees the objcore.
LEMMA GivenBack ==
  ASSUME NEW o \in ObjCore, RefExact(o), NEW x \in Holders(o), x \notin Holders(o)',
         OtherReqs(o, x),
         IF oc[o].refcnt = 1 THEN oc'[o] = Free
         ELSE /\ oc'[o].refcnt = oc[o].refcnt - 1 /\ oc'[o].phase # "free"
              /\ <<NULL, "cache">> # x =>
                   (<<NULL, "cache">> \in Holders(o)' <=> <<NULL, "cache">> \in Holders(o))
  PROVE  RefExact(o)'
<1>1. x \in AnyHolder
  BY HolderIs
<1>2. CASE oc[o].refcnt = 1
  <2>1. Holders(o) = {x}
    BY <1>2, Counted
  <2>2. <<NULL, "cache">> \notin Holders(o)'
    BY <1>2, HolderWillBe DEF Free
  <2>3. Others(o, x)
    BY <2>1, <2>2 DEF Others
  <2>4. Holders(o)' = {}
    BY <1>1, <2>1, <2>3, Left
  <2> QED
    BY <1>2, <2>4, FS_EmptySet DEF RefExact, Free
<1>3. CASE oc[o].refcnt # 1
  <2>1. Others(o, x)
    BY <1>3 DEF Others
  <2>2. Holders(o)' = Holders(o) \ {x}
    BY <1>1, <2>1, Left
  <2>3. oc'[o].refcnt = Cardinality(Holders(o)') /\ oc'[o].refcnt # 0
    BY <1>3, <2>2, Counted
  <2> QED
    BY <1>3, <2>3 DEF RefExact
<1> QED
  BY <1>2, <1>3

\* The requests after an objcore has been given back.
LEMMA ForgetIs ==
  ASSUME NEW f \in [Req -> ReqType], NEW o \in ObjCore, req' = Forget(f, o)
  PROVE  /\ req' \in [Req -> ReqType]
         /\ \A q \in Req :
              /\ req'[q].pc = f[q].pc /\ req'[q].objcore = f[q].objcore
              /\ req'[q].t_prev = f[q].t_prev /\ req'[q].ocp = f[q].ocp
              /\ req'[q].rearmed = f[q].rearmed
              /\ req'[q].due \subseteq f[q].due
              /\ oc[o].refcnt = 1 => o \notin req'[q].due
<1>1. CASE oc[o].refcnt = 1
  <2>1. req' = [q \in Req |-> [f[q] EXCEPT !.due = f[q].due \ {o}]]
    BY <1>1 DEF Forget
  <2> QED
    BY <2>1 DEF ReqType
<1>2. CASE oc[o].refcnt # 1
  BY <1>2 DEF Forget, ReqType
<1> QED
  BY <1>1, <1>2

\* Request r ends.
Ended(r) == [req EXCEPT ![r] = Idle]

LEMMA ForgetIdle ==
  ASSUME req \in [Req -> ReqType], NEW r \in Req, NEW o \in ObjCore,
         req' = Forget(Ended(r), o)
  PROVE  /\ req' \in [Req -> ReqType]
         /\ \A q \in Req : q # r =>
              /\ req'[q].pc = req[q].pc /\ req'[q].objcore = req[q].objcore
              /\ req'[q].t_prev = req[q].t_prev /\ req'[q].ocp = req[q].ocp
              /\ req'[q].rearmed = req[q].rearmed
              /\ req'[q].due \subseteq req[q].due
         /\ req'[r].pc = "idle" /\ req'[r].t_prev = 0 /\ req'[r].ocp = {}
         /\ req'[r].rearmed = NULL /\ req'[r].due = {}
         /\ \A q \in Req : oc[o].refcnt = 1 => o \notin req'[q].due
<1> DEFINE f == Ended(r)
<1>1. Idle \in ReqType
  BY DEF Idle, ReqType
<1>2. f \in [Req -> ReqType] /\ f[r] = Idle /\ \A q \in Req : q # r => f[q] = req[q]
  BY <1>1 DEF Ended
<1>3. f[r].pc = "idle" /\ f[r].t_prev = 0 /\ f[r].ocp = {} /\ f[r].rearmed = NULL
      /\ f[r].due = {}
  BY <1>2 DEF Idle
<1> HIDE DEF f
<1>4. req' = Forget(f, o)
  BY DEF f
<1>5. /\ req' \in [Req -> ReqType]
      /\ \A q \in Req :
           /\ req'[q].pc = f[q].pc /\ req'[q].objcore = f[q].objcore
           /\ req'[q].t_prev = f[q].t_prev /\ req'[q].ocp = f[q].ocp
           /\ req'[q].rearmed = f[q].rearmed
           /\ req'[q].due \subseteq f[q].due
           /\ oc[o].refcnt = 1 => o \notin req'[q].due
  BY <1>2, <1>4, ForgetIs
<1> QED
  BY <1>2, <1>3, <1>5

-----------------------------------------------------------------------------
LEMMA HitStep ==
  ASSUME SoftpurgeInv, NEW r \in Req, NEW o \in ObjCore, Hit(r, o)
  PROVE  SoftpurgeInv'
<1>0. /\ oc \in [ObjCore -> OcType] /\ req \in [Req -> ReqType] /\ clock \in Nat
      /\ \A q \in Req : Noted(req[q])
      /\ RefsExact /\ InStep /\ DuePurged
  BY DEF SoftpurgeInv, TypeOK
<1>1. /\ req[r].pc = "idle" /\ oc[o].phase = "live"
      /\ oc' = [oc EXCEPT ![o] = [oc[o] EXCEPT !.refcnt = oc[o].refcnt + 1]]
      /\ req' = [req EXCEPT ![r] = [req[r] EXCEPT !.pc = "lookup", !.objcore = o,
                                                       !.t_prev = clock]]
      /\ clock' = clock
  BY <1>0 DEF Hit
<1>2. TypeOK'
  <2>1. oc' \in [ObjCore -> OcType]
    BY <1>0, <1>1 DEF OcType
  <2>2. req' \in [Req -> ReqType]
    <3>1. req[r] \in ReqType
      BY <1>0
    <3>2. [req[r] EXCEPT !.pc = "lookup", !.objcore = o, !.t_prev = clock] \in ReqType
      BY <1>0, <3>1 DEF ReqType
    <3> QED
      BY <1>0, <1>1, <3>2
  <2>3. \A q \in Req : Noted(req'[q])
    BY <1>0, <1>1 DEF ReqType, Noted
  <2> QED
    BY <1>0, <1>1, <2>1, <2>2, <2>3 DEF TypeOK
<1>3. RefsExact'
  <2> SUFFICES ASSUME NEW p \in ObjCore
               PROVE  RefExact(p)'
    BY DEF RefsExact, RefExact
  <2>1. RefExact(p)
    BY <1>0 DEF RefsExact, RefExact
  <2>2. \A q \in Req : req'[q].ocp = req[q].ocp
    BY <1>0, <1>1 DEF ReqType
  <2>3. \A q \in Req \ {r} : req'[q].pc = req[q].pc /\ req'[q].objcore = req[q].objcore
    BY <1>0, <1>1 DEF ReqType
  <2>4. req'[r].pc = "lookup" /\ req'[r].objcore = o
    BY <1>0, <1>1 DEF ReqType
  <2>5. oc'[p].phase = oc[p].phase
    BY <1>0, <1>1 DEF OcType
  <2>6. CASE p = o
    <3>1. <<r, "lookup">> \notin Holders(o)
      BY <1>1, HolderIs
    <3>2. Holders(o)' = Holders(o) \cup {<<r, "lookup">>}
      <4>1. Others(o, <<r, "lookup">>)
        BY <2>2, <2>3, <2>5, <2>6, HolderIs, HolderWillBe DEF Others, OtherReqs
      <4>2. <<r, "lookup">> \in Holders(o)' /\ <<r, "lookup">> \in AnyHolder
        BY <2>4, HolderWillBe DEF AnyHolder
      <4> QED
        BY <4>1, <4>2, Joined
    <3>3. oc'[o].refcnt = oc[o].refcnt + 1 /\ oc'[o].phase # "free"
      BY <1>0, <1>1 DEF OcType
    <3> QED
      BY <2>1, <2>6, <3>1, <3>2, <3>3, Referenced
  <2>7. CASE p # o
    <3>1. Holders(p)' = Holders(p)
      BY <1>1, <2>2, <2>3, <2>4, <2>5, <2>7, HolderIs, HolderWillBe, SameHolders
    <3> QED
      BY <1>0, <1>1, <2>1, <2>7, <3>1, Untouched
  <2> QED
    BY <2>6, <2>7
<1>4. InStep'
  BY <1>0, <1>1 DEF InStep, Stale, OcType, ReqType, Noted
<1>5. DuePurged'
  BY <1>0, <1>1 DEF DuePurged, Stale, OcType, ReqType, Noted
<1> QED
  BY <1>2, <1>3, <1>4, <1>5 DEF SoftpurgeInv

LEMMA MissStep ==
  ASSUME SoftpurgeInv, NEW r \in Req, NEW o \in ObjCore, Miss(r, o)
  PROVE  SoftpurgeInv'
<1>0. /\ oc \in [ObjCore -> OcType] /\ req \in [Req -> ReqType] /\ clock \in Nat
      /\ \A q \in Req : Noted(req[q])
      /\ RefsExact /\ InStep /\ DuePurged
  BY DEF SoftpurgeInv, TypeOK
<1>1. /\ req[r].pc = "idle" /\ oc[o].phase = "free"
      /\ oc' = [oc EXCEPT ![o] = [phase |-> "busy", refcnt |-> 1, t_origin |-> 0,
                                  ttl |-> 0, grace |-> 0]]
      /\ req' = [req EXCEPT ![r] = [req[r] EXCEPT !.pc = "lookup", !.objcore = o,
                                                       !.t_prev = clock]]
      /\ clock' = clock
  BY <1>0 DEF Miss, Busy
<1>2. TypeOK'
  <2>1. oc' \in [ObjCore -> OcType]
    BY <1>0, <1>1 DEF OcType
  <2>2. req' \in [Req -> ReqType]
    <3>1. req[r] \in ReqType
      BY <1>0
    <3>2. [req[r] EXCEPT !.pc = "lookup", !.objcore = o, !.t_prev = clock] \in ReqType
      BY <1>0, <3>1 DEF ReqType
    <3> QED
      BY <1>0, <1>1, <3>2
  <2>3. \A q \in Req : Noted(req'[q])
    BY <1>0, <1>1 DEF ReqType, Noted
  <2> QED
    BY <1>0, <1>1, <2>1, <2>2, <2>3 DEF TypeOK
<1>3. RefsExact'
  <2> SUFFICES ASSUME NEW p \in ObjCore
               PROVE  RefExact(p)'
    BY DEF RefsExact, RefExact
  <2>1. RefExact(p)
    BY <1>0 DEF RefsExact, RefExact
  <2>2. \A q \in Req : req'[q].ocp = req[q].ocp
    BY <1>0, <1>1 DEF ReqType
  <2>3. \A q \in Req \ {r} : req'[q].pc = req[q].pc /\ req'[q].objcore = req[q].objcore
    BY <1>0, <1>1 DEF ReqType
  <2>4. req'[r].pc = "lookup" /\ req'[r].objcore = o
    BY <1>0, <1>1 DEF ReqType
  <2>5. CASE p = o
    <3>1. <<r, "lookup">> \notin Holders(o)
      BY <1>1, HolderIs
    <3>2. oc'[o].refcnt = oc[o].refcnt + 1 /\ oc'[o].phase = "busy"
      BY <1>0, <1>1, <2>1, <2>5 DEF OcType, RefExact
    <3>3. Holders(o)' = Holders(o) \cup {<<r, "lookup">>}
      <4>1. Others(o, <<r, "lookup">>)
        BY <1>1, <2>2, <2>3, <3>2, HolderIs, HolderWillBe DEF Others, OtherReqs
      <4>2. <<r, "lookup">> \in Holders(o)' /\ <<r, "lookup">> \in AnyHolder
        BY <2>4, HolderWillBe DEF AnyHolder
      <4> QED
        BY <4>1, <4>2, Joined
    <3> QED
      BY <2>1, <2>5, <3>1, <3>2, <3>3, Referenced
  <2>6. CASE p # o
    <3>1. oc'[p] = oc[p]
      BY <1>0, <1>1, <2>6
    <3>2. Holders(p)' = Holders(p)
      BY <1>1, <2>2, <2>3, <2>4, <2>6, <3>1, HolderIs, HolderWillBe, SameHolders
    <3> QED
      BY <2>1, <3>1, <3>2, Untouched
  <2> QED
    BY <2>5, <2>6
<1>4. InStep'
  BY <1>0, <1>1 DEF InStep, Stale, OcType, ReqType, Noted
<1>5. DuePurged'
  BY <1>0, <1>1 DEF DuePurged, InStep, Stale, OcType, ReqType, Noted
<1> QED
  BY <1>2, <1>3, <1>4, <1>5 DEF SoftpurgeInv

LEMMA KillStep ==
  ASSUME SoftpurgeInv, NEW o \in ObjCore, Kill(o)
  PROVE  SoftpurgeInv'
<1>0. /\ oc \in [ObjCore -> OcType] /\ req \in [Req -> ReqType] /\ clock \in Nat
      /\ \A q \in Req : Noted(req[q])
      /\ RefsExact /\ InStep /\ DuePurged
  BY DEF SoftpurgeInv, TypeOK
<1>1. /\ oc[o].phase = "live"
      /\ oc' = [oc EXCEPT ![o] = [oc[o] EXCEPT !.phase = "dying"]]
      /\ req' = req /\ clock' = clock
  BY <1>0 DEF Kill
<1>2. TypeOK'
  BY <1>0, <1>1 DEF TypeOK, OcType
<1>3. RefsExact'
  <2> SUFFICES ASSUME NEW p \in ObjCore
               PROVE  RefExact(p)'
    BY DEF RefsExact, RefExact
  <2>1. RefExact(p)
    BY <1>0 DEF RefsExact, RefExact
  <2>2. /\ oc'[p].phase \in {"live", "dying"} <=> oc[p].phase \in {"live", "dying"}
        /\ oc'[p].phase = "free" <=> oc[p].phase = "free"
        /\ oc'[p].refcnt = oc[p].refcnt
    BY <1>0, <1>1 DEF OcType
  <2>3. Holders(p)' = Holders(p)
    BY <1>1, <2>2, HolderIs, HolderWillBe, SameHolders
  <2> QED
    BY <2>1, <2>2, <2>3 DEF RefExact
<1>4. InStep'
  BY <1>0, <1>1 DEF InStep, Stale, OcType, ReqType, Noted
<1>5. DuePurged'
  BY <1>0, <1>1 DEF DuePurged, Stale, OcType, ReqType, Noted
<1> QED
  BY <1>2, <1>3, <1>4, <1>5 DEF SoftpurgeInv

LEMMA TickStep ==
  ASSUME SoftpurgeInv, Tick
  PROVE  SoftpurgeInv'
<1>0. /\ oc \in [ObjCore -> OcType] /\ req \in [Req -> ReqType] /\ clock \in Nat
      /\ \A q \in Req : Noted(req[q])
      /\ RefsExact /\ InStep /\ DuePurged
  BY DEF SoftpurgeInv, TypeOK
<1>1. oc' = oc /\ req' = req /\ clock' = clock + 1
  BY DEF Tick
<1>2. TypeOK'
  BY <1>0, <1>1 DEF TypeOK
<1>3. RefsExact'
  BY <1>0, <1>1 DEF RefsExact, Holders
<1>4. InStep'
  BY <1>0, <1>1 DEF InStep, Stale, OcType, ReqType, Noted
<1>5. DuePurged'
  BY <1>0, <1>1 DEF DuePurged, Stale, OcType, ReqType, Noted
<1> QED
  BY <1>2, <1>3, <1>4, <1>5 DEF SoftpurgeInv

LEMMA DropStep ==
  ASSUME SoftpurgeInv, NEW o \in ObjCore, Drop(o)
  PROVE  SoftpurgeInv'
<1>0. /\ oc \in [ObjCore -> OcType] /\ req \in [Req -> ReqType] /\ clock \in Nat
      /\ \A q \in Req : Noted(req[q])
      /\ RefsExact /\ InStep /\ DuePurged
  BY DEF SoftpurgeInv, TypeOK
<1>1. /\ oc[o].phase = "dying"
      /\ oc' = [oc EXCEPT ![o] = IF oc[o].refcnt = 1 THEN Free
                                 ELSE [oc[o] EXCEPT !.phase = "dead",
                                                    !.refcnt = oc[o].refcnt - 1]]
      /\ req' = Forget(req, o) /\ clock' = clock
  BY <1>0 DEF Drop
<1>2. /\ <<NULL, "cache">> \in Holders(o)
      /\ oc[o].refcnt \in Nat \ {0}
      /\ oc[o].refcnt = 1 => Holders(o) = {<<NULL, "cache">>}
  BY <1>0, <1>1, HolderIs, Counted DEF RefsExact, RefExact
<1>3. /\ req' \in [Req -> ReqType]
      /\ \A q \in Req :
           /\ req'[q].pc = req[q].pc /\ req'[q].objcore = req[q].objcore
           /\ req'[q].t_prev = req[q].t_prev /\ req'[q].ocp = req[q].ocp
           /\ req'[q].rearmed = req[q].rearmed
           /\ req'[q].due \subseteq req[q].due
           /\ oc[o].refcnt = 1 => o \notin req'[q].due
  BY <1>0, <1>1, ForgetIs
<1>4. TypeOK'
  <2>1. oc' \in [ObjCore -> OcType]
    <3>1. Free \in OcType
      BY DEF OcType, Free
    <3>2. [oc[o] EXCEPT !.phase = "dead", !.refcnt = oc[o].refcnt - 1] \in OcType
      <4>1. oc[o] \in OcType /\ oc[o].refcnt - 1 \in Nat
        BY <1>0, <1>2
      <4> QED
        BY <4>1 DEF OcType
    <3> QED
      BY <1>0, <1>1, <3>1, <3>2
  <2> QED
    BY <1>0, <1>1, <1>3, <2>1 DEF TypeOK, Noted
<1>5. RefsExact'
  <2> SUFFICES ASSUME NEW p \in ObjCore
               PROVE  RefExact(p)'
    BY DEF RefsExact, RefExact
  <2>1. RefExact(p)
    BY <1>0 DEF RefsExact, RefExact
  <2>2. CASE p = o
    <3>1. OtherReqs(o, <<NULL, "cache">>)
      <4>1. \A q \in Req : /\ req'[q].pc = req[q].pc /\ req'[q].objcore = req[q].objcore
                           /\ req'[q].ocp = req[q].ocp
        BY <1>3
      <4> QED
        BY <4>1, ReqsStay
    <3>2. IF oc[o].refcnt = 1 THEN oc'[o] = Free
          ELSE oc'[o].refcnt = oc[o].refcnt - 1 /\ oc'[o].phase = "dead"
      BY <1>0, <1>1 DEF OcType
    <3>3. <<NULL, "cache">> \notin Holders(o)'
      BY <3>2, HolderWillBe DEF Free
    <3> QED
      BY <1>2, <2>1, <2>2, <3>1, <3>2, <3>3, GivenBack
  <2>3. CASE p # o
    <3>1. oc'[p] = oc[p]
      BY <1>0, <1>1, <2>3
    <3>2. Holders(p)' = Holders(p)
      BY <1>3, <3>1, HolderIs, HolderWillBe, SameHolders
    <3> QED
      BY <2>1, <3>1, <3>2, Untouched
  <2> QED
    BY <2>2, <2>3
<1>6. \A q \in Req : oc[o].refcnt = 1 => o \notin req[q].ocp
  BY <1>2, HolderIs
<1>7. \A p \in ObjCore : p # o \/ oc[o].refcnt # 1 =>
        /\ oc'[p].t_origin = oc[p].t_origin /\ oc'[p].ttl = oc[p].ttl
        /\ oc[p].phase \notin {"free", "busy"} => oc'[p].phase \notin {"free", "busy"}
  BY <1>0, <1>1 DEF OcType
<1>8. InStep'
  BY <1>0, <1>1, <1>3, <1>6, <1>7 DEF InStep, Stale, ReqType, Noted
<1>9. DuePurged'
  BY <1>0, <1>1, <1>3, <1>6, <1>7 DEF DuePurged, Stale, ReqType, Noted
<1> QED
  BY <1>4, <1>5, <1>8, <1>9 DEF SoftpurgeInv

\* The request ends and gives its object back.
LEMMA FinishDeref ==
  ASSUME SoftpurgeInv, NEW r \in Req, NEW o \in ObjCore, o = req[r].objcore,
         req[r].pc \in {"lookup", "called"},
         oc' = [oc EXCEPT ![o] = Deref(o)],
         req' = Forget(Ended(r), o), clock' = clock
  PROVE  SoftpurgeInv'
<1>0. /\ oc \in [ObjCore -> OcType] /\ req \in [Req -> ReqType] /\ clock \in Nat
      /\ \A q \in Req : Noted(req[q])
      /\ RefsExact /\ InStep /\ DuePurged
  BY DEF SoftpurgeInv, TypeOK
<1>1. oc' = [oc EXCEPT ![o] = IF oc[o].refcnt = 1 THEN Free
                              ELSE [oc[o] EXCEPT !.refcnt = oc[o].refcnt - 1]]
  BY <1>0 DEF Deref
<1>2. /\ <<r, "lookup">> \in Holders(o)
      /\ oc[o].refcnt \in Nat \ {0} /\ oc[o].phase # "free"
      /\ oc[o].refcnt = 1 => Holders(o) = {<<r, "lookup">>}
  <2>1. <<r, "lookup">> \in Holders(o)
    BY HolderIs
  <2>2. RefExact(o)
    BY <1>0 DEF RefsExact, RefExact
  <2> QED
    BY <2>1, <2>2, Counted
<1>3. /\ req' \in [Req -> ReqType]
      /\ \A q \in Req : q # r =>
           /\ req'[q].pc = req[q].pc /\ req'[q].objcore = req[q].objcore
           /\ req'[q].t_prev = req[q].t_prev /\ req'[q].ocp = req[q].ocp
           /\ req'[q].rearmed = req[q].rearmed
           /\ req'[q].due \subseteq req[q].due
      /\ req'[r].pc = "idle" /\ req'[r].t_prev = 0 /\ req'[r].ocp = {}
      /\ req'[r].rearmed = NULL /\ req'[r].due = {}
      /\ \A q \in Req : oc[o].refcnt = 1 => o \notin req'[q].due
  BY <1>0, ForgetIdle
<1>4. req[r].ocp = {}
  BY <1>0 DEF Noted, ReqType
<1>5. TypeOK'
  <2>1. oc' \in [ObjCore -> OcType]
    <3>1. Free \in OcType
      BY DEF OcType, Free
    <3>2. [oc[o] EXCEPT !.refcnt = oc[o].refcnt - 1] \in OcType
      BY <1>0, <1>2 DEF OcType
    <3> QED
      BY <1>0, <1>1, <3>1, <3>2
  <2>2. \A q \in Req : q # r => Noted(req'[q])
    BY <1>0, <1>3 DEF Noted
  <2>3. Noted(req'[r])
    BY <1>3 DEF Noted
  <2> QED
    BY <1>0, <1>3, <2>1, <2>2, <2>3 DEF TypeOK
<1>6. RefsExact'
  <2> SUFFICES ASSUME NEW p \in ObjCore
               PROVE  RefExact(p)'
    BY DEF RefsExact, RefExact
  <2>1. RefExact(p)
    BY <1>0 DEF RefsExact, RefExact
  <2>a. \A q \in Req : /\ req'[q].ocp = req[q].ocp
                       /\ q # r => /\ req'[q].pc = req[q].pc
                                   /\ req'[q].objcore = req[q].objcore
    BY <1>3, <1>4
  <2>2. CASE p = o
    <3>1. OtherReqs(o, <<r, "lookup">>)
      <4>1. \A q \in Req :
              /\ <<q, "lookup">> # <<r, "lookup">> =>
                   (req'[q].pc # "idle" /\ req'[q].objcore = o
                      <=> req[q].pc # "idle" /\ req[q].objcore = o)
              /\ <<q, "softpurge">> # <<r, "lookup">> =>
                   (o \in req'[q].ocp <=> o \in req[q].ocp)
        BY <2>a
      <4> QED
        BY <4>1, ReqsStay
    <3>2. IF oc[o].refcnt = 1 THEN oc'[o] = Free
          ELSE oc'[o].refcnt = oc[o].refcnt - 1 /\ oc'[o].phase = oc[o].phase
      BY <1>0, <1>1 DEF OcType
    <3>3. <<r, "lookup">> \notin Holders(o)'
      BY <1>3, HolderWillBe
    <3> QED
      BY <1>2, <2>1, <2>2, <3>1, <3>2, <3>3, GivenBack, HolderIs, HolderWillBe
  <2>3. CASE p # o
    <3>1. oc'[p] = oc[p]
      BY <1>0, <1>1, <2>3
    <3>2. Holders(p)' = Holders(p)
      <4>1. req'[r].pc = "idle"
        BY <1>3
      <4> QED
        BY <2>a, <2>3, <3>1, <4>1, HoldersStay
    <3> QED
      BY <2>1, <3>1, <3>2, Untouched
  <2> QED
    BY <2>2, <2>3
<1>7. \A q \in Req : oc[o].refcnt = 1 => o \notin req[q].ocp
  BY <1>2, HolderIs
<1>8. \A p \in ObjCore : p # o \/ oc[o].refcnt # 1 =>
        /\ oc'[p].t_origin = oc[p].t_origin /\ oc'[p].ttl = oc[p].ttl
        /\ oc'[p].phase = oc[p].phase
  BY <1>0, <1>1 DEF OcType
<1>a. \A q \in Req :
        /\ req[q].ocp \subseteq ObjCore /\ req[q].due \subseteq ObjCore
        /\ req[q].rearmed \in req[q].ocp \cup {NULL}
  BY <1>0 DEF ReqType, Noted
<1>b. \A q \in Req : q # r => \A p \in req'[q].ocp \cup req'[q].due :
        p \in ObjCore /\ (p # o \/ oc[o].refcnt # 1)
  BY <1>3, <1>7, <1>a
<1>9. InStep'
  BY <1>0, <1>3, <1>8, <1>a, <1>b DEF InStep, Stale
<1>10. DuePurged'
  BY <1>0, <1>3, <1>8, <1>a, <1>b DEF DuePurged, Stale
<1> QED
  BY <1>5, <1>6, <1>9, <1>10 DEF SoftpurgeInv

\* The request ends, and the cache keeps what it has fetched.
LEMMA FinishFetch ==
  ASSUME SoftpurgeInv, NEW r \in Req, NEW o \in ObjCore, o = req[r].objcore,
         req[r].pc \in {"lookup", "called"}, oc[o].phase = "busy",
         NEW ttl \in Nat, NEW grace \in Nat,
         oc' = [oc EXCEPT ![o] = [phase |-> "live", refcnt |-> oc[o].refcnt,
                                  t_origin |-> clock, ttl |-> ttl, grace |-> grace]],
         req' = Ended(r), clock' = clock
  PROVE  SoftpurgeInv'
<1>0. /\ oc \in [ObjCore -> OcType] /\ req \in [Req -> ReqType] /\ clock \in Nat
      /\ \A q \in Req : Noted(req[q])
      /\ RefsExact /\ InStep /\ DuePurged
  BY DEF SoftpurgeInv, TypeOK
<1>1. Idle \in ReqType
  BY DEF Idle, ReqType
<1>2. req' \in [Req -> ReqType] /\ req'[r] = Idle /\ \A q \in Req : q # r => req'[q] = req[q]
  BY <1>0, <1>1 DEF Ended
<1>3. req'[r].pc = "idle" /\ req'[r].t_prev = 0 /\ req'[r].ocp = {}
      /\ req'[r].rearmed = NULL /\ req'[r].due = {}
  BY <1>2 DEF Idle
<1>4. req[r].ocp = {}
  BY <1>0 DEF Noted, ReqType
<1>5. \A p \in ObjCore : p # o => oc'[p] = oc[p]
  BY <1>0
<1>6. oc'[o].phase = "live" /\ oc'[o].refcnt = oc[o].refcnt
  BY <1>0
<1>7. TypeOK'
  <2>1. oc' \in [ObjCore -> OcType]
    BY <1>0 DEF OcType
  <2>2. \A q \in Req : Noted(req'[q])
    BY <1>0, <1>2, <1>3 DEF Noted
  <2> QED
    BY <1>0, <1>2, <2>1, <2>2 DEF TypeOK
<1>8. RefsExact'
  <2> SUFFICES ASSUME NEW p \in ObjCore
               PROVE  RefExact(p)'
    BY DEF RefsExact, RefExact
  <2>1. RefExact(p)
    BY <1>0 DEF RefsExact, RefExact
  <2>2. \A q \in Req : req'[q].ocp = req[q].ocp
    BY <1>2, <1>3, <1>4
  <2>3. CASE p = o
    <3> DEFINE l == <<r, "lookup">>
               c == <<NULL, "cache">>
               T == (Holders(o) \ {l}) \cup {c}
    <3>1. l \in Holders(o) /\ c \notin Holders(o)
      BY HolderIs, <1>0
    <3>2. Holders(o)' \subseteq AnyHolder /\ T \subseteq AnyHolder
      BY HolderIs, HolderWillBe DEF AnyHolder
    <3>3. c \in Holders(o)'
      BY <1>6, HolderWillBe
    <3>4. ASSUME NEW q \in Req
          PROVE  /\ <<q, "lookup">> \in Holders(o)' <=> <<q, "lookup">> \in T
                 /\ <<q, "softpurge">> \in Holders(o)' <=> <<q, "softpurge">> \in T
      <4>1. <<q, "softpurge">> \in Holders(o)' <=> <<q, "softpurge">> \in Holders(o)
        BY <2>2, HolderIs, HolderWillBe
      <4>2. CASE q = r
        BY <1>3, <4>1, <4>2, HolderWillBe
      <4>3. CASE q # r
        <5>1. req'[q].pc = req[q].pc /\ req'[q].objcore = req[q].objcore
          BY <1>2, <4>3
        <5>2. <<q, "lookup">> \in Holders(o) <=> req[q].pc # "idle" /\ req[q].objcore = o
          BY HolderIs
        <5>3. <<q, "lookup">> \in Holders(o)' <=> req'[q].pc # "idle" /\ req'[q].objcore = o
          BY LookupWillBe
        <5> QED
          BY <4>1, <4>3, <5>1, <5>2, <5>3
      <4> QED
        BY <4>2, <4>3
    <3>5. Holders(o)' = T
      <4>1. c \in T
        OBVIOUS
      <4> HIDE DEF T
      <4>2. \A q \in Req : /\ <<q, "lookup">> \in Holders(o)' <=> <<q, "lookup">> \in T
                           /\ <<q, "softpurge">> \in Holders(o)' <=> <<q, "softpurge">> \in T
        BY <3>4
      <4> QED
        BY <3>2, <3>3, <4>1, <4>2, SameHolders
    <3>6. Cardinality(T) = Cardinality(Holders(o))
      <4>1. IsFiniteSet(Holders(o)) /\ Cardinality(Holders(o)) \in Nat
        BY HoldersFinite, FS_CardinalityType
      <4>2. /\ IsFiniteSet(Holders(o) \ {l})
            /\ Cardinality(Holders(o) \ {l}) = Cardinality(Holders(o)) - 1
        BY <3>1, <4>1, FS_RemoveElement
      <4>3. Cardinality(T) = Cardinality(Holders(o) \ {l}) + 1
        BY <3>1, <4>2, FS_AddElement
      <4> QED
        BY <4>1, <4>2, <4>3
    <3>7. oc[o].refcnt # 0
      BY <2>1, <2>3 DEF RefExact
    <3> QED
      BY <1>6, <2>1, <2>3, <3>5, <3>6, <3>7 DEF RefExact
  <2>4. CASE p # o
    <3>1. Holders(p)' = Holders(p)
      <4>1. \A q \in Req : /\ req'[q].pc # "idle" /\ req'[q].objcore = p
                                <=> req[q].pc # "idle" /\ req[q].objcore = p
                           /\ p \in req'[q].ocp <=> p \in req[q].ocp
        BY <1>2, <1>3, <2>2, <2>4
      <4> QED
        BY <1>5, <2>4, <4>1, HoldersStay
    <3> QED
      BY <1>5, <2>1, <2>4, <3>1, Untouched
  <2> QED
    BY <2>3, <2>4
<1>9. \A q \in Req :
        /\ req[q].ocp \subseteq ObjCore /\ req[q].due \subseteq ObjCore
        /\ req[q].rearmed \in req[q].ocp \cup {NULL}
        /\ o \notin req[q].ocp \cup req[q].due
  BY <1>0 DEF ReqType, Noted, InStep
<1>10. InStep'
  BY <1>0, <1>2, <1>3, <1>5, <1>9 DEF InStep, Stale
<1>11. DuePurged'
  BY <1>0, <1>2, <1>3, <1>5, <1>9 DEF DuePurged, Stale
<1> QED
  BY <1>7, <1>8, <1>10, <1>11 DEF SoftpurgeInv

LEMMA FinishStep ==
  ASSUME SoftpurgeInv, NEW r \in Req, Finish(r)
  PROVE  SoftpurgeInv'
<1>1. req[r].objcore \in ObjCore /\ oc \in [ObjCore -> OcType]
  BY DEF SoftpurgeInv, InStep, Finish, TypeOK
<1> DEFINE o == req[r].objcore
<1>2. CASE /\ oc[o].phase = "busy"
           /\ \E ttl \in TTL, grace \in GRACE :
                oc' = [oc EXCEPT ![o] = [phase |-> "live", refcnt |-> oc[o].refcnt,
                                         t_origin |-> clock, ttl |-> ttl, grace |-> grace]]
           /\ req' = Ended(r)
  <2>1. PICK ttl \in TTL, grace \in GRACE :
          oc' = [oc EXCEPT ![o] = [phase |-> "live", refcnt |-> oc[o].refcnt,
                                   t_origin |-> clock, ttl |-> ttl, grace |-> grace]]
    BY <1>2
  <2>2. req[r].pc \in {"lookup", "called"} /\ clock' = clock
    BY DEF Finish
  <2> QED
    BY <1>1, <1>2, <2>1, <2>2, FinishFetch, SoftpurgeAssumption
<1>3. CASE oc' = [oc EXCEPT ![o] = Deref(o)] /\ req' = Forget(Ended(r), o)
  BY <1>1, <1>3, FinishDeref DEF Finish
<1> QED
  BY <1>1, <1>2, <1>3 DEF Finish, Ended

\* The first pass.
LEMMA CollectStep ==
  ASSUME SoftpurgeInv, NEW r \in Req, NEW spc \in Space, NEW s \in SUBSET Variants,
         softpurge(r, spc, s)
  PROVE  SoftpurgeInv'
<1>0. /\ oc \in [ObjCore -> OcType] /\ req \in [Req -> ReqType] /\ clock \in Nat
      /\ \A q \in Req : Noted(req[q])
      /\ RefsExact /\ InStep /\ DuePurged
  BY DEF SoftpurgeInv, TypeOK
<1> DEFINE d == IF Cardinality(Variants) <= spc THEN Variants ELSE s
<1>1. /\ req[r].pc = "lookup" /\ Fits(s, spc)
      /\ oc' = [o \in ObjCore |-> IF o \in s THEN [oc[o] EXCEPT !.refcnt = oc[o].refcnt + 1]
                                  ELSE oc[o]]
      /\ req' = [req EXCEPT ![r] = [req[r] EXCEPT !.pc = "rearm", !.ocp = s, !.due = d]]
      /\ clock' = clock
  BY <1>0 DEF softpurge
\* If there is room for all of the variants, all of them have been noted.
<1>2. d = s
  <2>1. CASE Cardinality(Variants) <= spc
    <3>1. IsFiniteSet(Variants)
      BY SoftpurgeAssumption, FS_Subset DEF Variants
    <3>2. IsFiniteSet(s) /\ Cardinality(s) \in Nat /\ Cardinality(Variants) \in Nat
          /\ Cardinality(s) <= Cardinality(Variants)
          /\ (Cardinality(s) = Cardinality(Variants) => s = Variants)
      BY <3>1, FS_Subset, FS_CardinalityType
    <3>3. spc \in Nat
      BY SoftpurgeAssumption
    <3> QED
      BY <1>1, <2>1, <3>2, <3>3 DEF Fits
  <2> QED
    BY <2>1
<1> HIDE DEF d
<1>3. \A o \in s : o \in ObjCore /\ oc[o].phase = "live"
  BY DEF Variants
<1>4. req[r].ocp = {} /\ req[r].rearmed = NULL
  BY <1>0, <1>1 DEF Noted
<1>5. /\ \A q \in Req : q # r => req'[q] = req[q]
      /\ req'[r].pc = "rearm" /\ req'[r].objcore = req[r].objcore
      /\ req'[r].t_prev = req[r].t_prev /\ req'[r].ocp = s
      /\ req'[r].rearmed = NULL /\ req'[r].due = s
  BY <1>0, <1>1, <1>2, <1>4 DEF ReqType
<1>6. \A o \in ObjCore : /\ oc'[o].phase = oc[o].phase /\ oc'[o].ttl = oc[o].ttl
                         /\ oc'[o].t_origin = oc[o].t_origin
                         /\ o \in s => oc'[o].refcnt = oc[o].refcnt + 1
                         /\ o \notin s => oc'[o] = oc[o]
  BY <1>0, <1>1 DEF OcType
<1>7. TypeOK'
  <2>1. oc' \in [ObjCore -> OcType]
    BY <1>0, <1>1 DEF OcType
  <2>2. s \subseteq ObjCore
    BY <1>3
  <2>3. req' \in [Req -> ReqType]
    <3>1. req[r] \in ReqType
      BY <1>0
    <3>2. [req[r] EXCEPT !.pc = "rearm", !.ocp = s, !.due = s] \in ReqType
      BY <2>2, <3>1 DEF ReqType
    <3> QED
      BY <1>0, <1>1, <1>2, <3>2
  <2>4. \A q \in Req : Noted(req'[q])
    BY <1>0, <1>5 DEF Noted
  <2> QED
    BY <1>0, <1>1, <2>1, <2>3, <2>4 DEF TypeOK
<1>8. RefsExact'
  <2> SUFFICES ASSUME NEW p \in ObjCore
               PROVE  RefExact(p)'
    BY DEF RefsExact, RefExact
  <2>1. RefExact(p)
    BY <1>0 DEF RefsExact, RefExact
  <2>2. \A q \in Req : /\ req'[q].pc # "idle" /\ req'[q].objcore = p
                            <=> req[q].pc # "idle" /\ req[q].objcore = p
                       /\ q # r => req'[q].ocp = req[q].ocp
    BY <1>1, <1>5
  <2>3. CASE p \in s
    <3> DEFINE x == <<r, "softpurge">>
    <3>1. x \in AnyHolder /\ x \notin Holders(p) /\ x \in Holders(p)'
      <4>1. x \in Holders(p) <=> p \in req[r].ocp
        BY HolderIs
      <4>2. x \in Holders(p)' <=> p \in req'[r].ocp
        BY HolderWillBe
      <4> QED
        BY <1>4, <1>5, <2>3, <4>1, <4>2 DEF AnyHolder
    <3>2. OtherReqs(p, x)
      <4>1. \A q \in Req :
              /\ <<q, "lookup">> # x =>
                   (req'[q].pc # "idle" /\ req'[q].objcore = p
                      <=> req[q].pc # "idle" /\ req[q].objcore = p)
              /\ <<q, "softpurge">> # x => (p \in req'[q].ocp <=> p \in req[q].ocp)
        BY <2>2
      <4> QED
        BY <4>1, ReqsStay
    <3>3. Others(p, x)
      BY <1>6, <3>2, HolderIs, HolderWillBe DEF Others
    <3>4. Holders(p)' = Holders(p) \cup {x}
      BY <3>1, <3>3, Joined
    <3>5. oc'[p].refcnt = oc[p].refcnt + 1 /\ oc'[p].phase # "free"
      BY <1>3, <1>6, <2>3
    <3> QED
      BY <2>1, <3>1, <3>4, <3>5, Referenced
  <2>4. CASE p \notin s
    <3>1. \A q \in Req : p \in req'[q].ocp <=> p \in req[q].ocp
      BY <1>4, <1>5, <2>4
    <3>2. oc'[p] = oc[p]
      BY <1>6, <2>4
    <3>3. Holders(p)' = Holders(p)
      BY <2>2, <3>1, <3>2, HoldersStay
    <3> QED
      BY <2>1, <3>2, <3>3, Untouched
  <2> QED
    BY <2>3, <2>4
<1>9. \A q \in Req :
        /\ req[q].ocp \subseteq ObjCore /\ req[q].due \subseteq ObjCore
        /\ req[q].rearmed \in req[q].ocp \cup {NULL}
  BY <1>0 DEF ReqType, Noted
<1>10. InStep'
  BY <1>0, <1>1, <1>3, <1>5, <1>6, <1>9 DEF InStep, Stale
<1>11. DuePurged'
  BY <1>0, <1>1, <1>5, <1>6, <1>9 DEF DuePurged, Stale
<1> QED
  BY <1>7, <1>8, <1>10, <1>11 DEF SoftpurgeInv

\* One variant is rearmed.
LEMMA RearmStep ==
  ASSUME SoftpurgeInv, NEW r \in Req, NEW o \in ObjCore, softpurge_rearm(r, o)
  PROVE  SoftpurgeInv'
<1>0. /\ oc \in [ObjCore -> OcType] /\ req \in [Req -> ReqType] /\ clock \in Nat
      /\ \A q \in Req : Noted(req[q])
      /\ RefsExact /\ InStep /\ DuePurged
  BY DEF SoftpurgeInv, TypeOK
<1>1. /\ req[r].pc = "rearm" /\ o \in req[r].ocp /\ req[r].rearmed = NULL
      /\ oc' = [oc EXCEPT ![o] = [oc[o] EXCEPT
                                    !.ttl = req[r].t_prev + 0 - oc[o].t_origin,
                                    !.grace = oc[o].grace]]
      /\ req' = [req EXCEPT ![r] = [req[r] EXCEPT !.rearmed = o]]
      /\ clock' = clock
  BY <1>0 DEF softpurge_rearm, EXP_Rearm
<1>2. \A q \in Req : /\ req'[q].pc = req[q].pc /\ req'[q].objcore = req[q].objcore
                     /\ req'[q].t_prev = req[q].t_prev /\ req'[q].ocp = req[q].ocp
                     /\ req'[q].due = req[q].due
                     /\ req'[q].rearmed = IF q = r THEN o ELSE req[q].rearmed
  BY <1>0, <1>1 DEF ReqType
<1>3. req[r].t_prev \in Nat /\ oc[o].t_origin \in Nat /\ req[r].t_prev <= clock
  BY <1>0 DEF ReqType, OcType, InStep
<1>4. \A p \in ObjCore : /\ oc'[p].phase = oc[p].phase /\ oc'[p].refcnt = oc[p].refcnt
                         /\ p # o => oc'[p] = oc[p]
  BY <1>0, <1>1 DEF OcType
<1>5. Stale(o)'
  <2>1. /\ oc'[o].t_origin = oc[o].t_origin
        /\ oc'[o].ttl = req[r].t_prev - oc[o].t_origin
    BY <1>0, <1>1, <1>3 DEF OcType
  <2> QED
    BY <1>0, <1>1, <1>3, <2>1 DEF Stale
<1>6. TypeOK'
  <2>1. oc' \in [ObjCore -> OcType]
    <3>1. req[r].t_prev + 0 - oc[o].t_origin \in Int
      BY <1>3
    <3> QED
      BY <1>0, <1>1, <3>1 DEF OcType
  <2>2. req' \in [Req -> ReqType]
    BY <1>0, <1>1 DEF ReqType
  <2>3. \A q \in Req : Noted(req'[q])
    BY <1>0, <1>1, <1>2 DEF Noted
  <2> QED
    BY <1>0, <1>1, <2>1, <2>2, <2>3 DEF TypeOK
<1>7. RefsExact'
  <2> SUFFICES ASSUME NEW p \in ObjCore
               PROVE  RefExact(p)'
    BY DEF RefsExact, RefExact
  <2>1. RefExact(p)
    BY <1>0 DEF RefsExact, RefExact
  <2>2. Holders(p)' = Holders(p)
    BY <1>2, <1>4, HoldersStay
  <2> QED
    BY <1>4, <2>1, <2>2 DEF RefExact
<1>8. \A q \in Req :
        /\ req[q].ocp \subseteq ObjCore /\ req[q].due \subseteq ObjCore
        /\ req[q].rearmed \in req[q].ocp \cup {NULL}
  BY <1>0 DEF ReqType, Noted
\* What was stale is.
<1>9. \A p \in ObjCore : Stale(p) => Stale(p)'
  BY <1>1, <1>4, <1>5 DEF Stale
<1>10. InStep'
  <2> SUFFICES ASSUME NEW q \in Req
               PROVE  /\ req'[q].pc # "idle" => req'[q].objcore \in ObjCore
                      /\ req'[q].t_prev <= clock'
                      /\ req'[q].rearmed # NULL => Stale(req[q].rearmed)'
                      /\ \A p \in req'[q].ocp \cup req'[q].due :
                           oc'[p].phase \notin {"free", "busy"}
    BY DEF InStep, Stale
  <2>1. /\ req'[q].pc # "idle" => req'[q].objcore \in ObjCore
        /\ req'[q].t_prev <= clock'
        /\ \A p \in req'[q].ocp \cup req'[q].due : oc'[p].phase \notin {"free", "busy"}
    BY <1>0, <1>1, <1>2, <1>4, <1>8 DEF InStep
  <2>2. req'[q].rearmed # NULL => Stale(req[q].rearmed)'
    <3>1. CASE q = r
      BY <1>2, <1>5, <3>1 DEF Stale
    <3>2. CASE q # r /\ req[q].rearmed # NULL
      <4>1. req[q].rearmed \in ObjCore /\ Stale(req[q].rearmed)
        BY <1>0, <1>8, <3>2 DEF InStep
      <4>2. req'[q].rearmed = req[q].rearmed
        BY <1>2, <3>2
      <4> QED
        BY <1>9, <4>1, <4>2 DEF Stale
    <3> QED
      BY <1>2, <3>1, <3>2
  <2> QED
    BY <2>1, <2>2
<1>11. DuePurged'
  <2> SUFFICES ASSUME NEW q \in Req, req'[q].pc \in {"rearm", "called"},
                      NEW p \in req'[q].due
               PROVE  p \in req'[q].ocp \/ Stale(p)'
    BY DEF DuePurged, Stale
  <2>1. p \in ObjCore /\ (p \in req[q].ocp \/ Stale(p))
    BY <1>0, <1>2, <1>8 DEF DuePurged
  <2> QED
    BY <1>2, <1>9, <2>1
<1> QED
  BY <1>6, <1>7, <1>10, <1>11 DEF SoftpurgeInv

\* Request r is through with the variant it has rearmed.
Through(r) ==
  [req EXCEPT ![r] = [req[r] EXCEPT !.rearmed = NULL, !.ocp = req[r].ocp \ {req[r].rearmed}]]

LEMMA DerefStep ==
  ASSUME SoftpurgeInv, NEW r \in Req, softpurge_deref(r)
  PROVE  SoftpurgeInv'
<1>0. /\ oc \in [ObjCore -> OcType] /\ req \in [Req -> ReqType] /\ clock \in Nat
      /\ \A q \in Req : Noted(req[q])
      /\ RefsExact /\ InStep /\ DuePurged
  BY DEF SoftpurgeInv, TypeOK
<1>1. PICK o \in ObjCore : o = req[r].rearmed /\ o \in req[r].ocp
  BY <1>0 DEF softpurge_deref, Noted, ReqType
<1>2. oc' = [oc EXCEPT ![o] = IF oc[o].refcnt = 1 THEN Free
                              ELSE [oc[o] EXCEPT !.refcnt = oc[o].refcnt - 1]]
  BY <1>0, <1>1 DEF softpurge_deref, Deref
<1>3. req' = Forget(Through(r), o) /\ clock' = clock
  <2>1. Through(r) = [req EXCEPT ![r].rearmed = NULL, ![r].ocp = @ \ {req[r].rearmed}]
    BY <1>0 DEF Through, ReqType
  <2> QED
    BY <1>1, <2>1 DEF softpurge_deref
<1>4. /\ req' \in [Req -> ReqType]
      /\ \A q \in Req :
           /\ req'[q].pc = req[q].pc /\ req'[q].objcore = req[q].objcore
           /\ req'[q].t_prev = req[q].t_prev
           /\ req'[q].due \subseteq req[q].due
           /\ oc[o].refcnt = 1 => o \notin req'[q].due
           /\ q # r => req'[q].ocp = req[q].ocp /\ req'[q].rearmed = req[q].rearmed
      /\ req'[r].ocp = req[r].ocp \ {o} /\ req'[r].rearmed = NULL
  <2> DEFINE f == Through(r)
  <2>1. f \in [Req -> ReqType]
    BY <1>0 DEF Through, ReqType
  <2>2. \A q \in Req :
          /\ f[q].pc = req[q].pc /\ f[q].objcore = req[q].objcore
          /\ f[q].t_prev = req[q].t_prev /\ f[q].due = req[q].due
          /\ q # r => f[q].ocp = req[q].ocp /\ f[q].rearmed = req[q].rearmed
    BY <1>0 DEF Through, ReqType
  <2>3. f[r].ocp = req[r].ocp \ {o} /\ f[r].rearmed = NULL
    BY <1>0, <1>1 DEF Through, ReqType
  <2> HIDE DEF f
  <2>4. req' = Forget(f, o)
    BY <1>3 DEF f
  <2>5. /\ req' \in [Req -> ReqType]
        /\ \A q \in Req :
             /\ req'[q].pc = f[q].pc /\ req'[q].objcore = f[q].objcore
             /\ req'[q].t_prev = f[q].t_prev /\ req'[q].ocp = f[q].ocp
             /\ req'[q].rearmed = f[q].rearmed
             /\ req'[q].due \subseteq f[q].due
             /\ oc[o].refcnt = 1 => o \notin req'[q].due
    BY <2>1, <2>4, ForgetIs
  <2> QED
    BY <2>2, <2>3, <2>5
<1> DEFINE x == <<r, "softpurge">>
<1>5. /\ x \in Holders(o) /\ x \in AnyHolder
      /\ oc[o].refcnt \in Nat \ {0} /\ oc[o].phase # "free"
      /\ oc[o].refcnt = 1 => Holders(o) = {x}
  <2>1. x \in Holders(o) /\ x \in AnyHolder
    BY <1>1, HolderIs DEF AnyHolder
  <2>2. RefExact(o)
    BY <1>0 DEF RefsExact, RefExact
  <2> QED
    BY <2>1, <2>2, Counted
<1>6. TypeOK'
  <2>1. oc' \in [ObjCore -> OcType]
    <3>1. Free \in OcType
      BY DEF OcType, Free
    <3>2. [oc[o] EXCEPT !.refcnt = oc[o].refcnt - 1] \in OcType
      BY <1>0, <1>5 DEF OcType
    <3> QED
      BY <1>0, <1>2, <3>1, <3>2
  <2>2. \A q \in Req : q # r => Noted(req'[q])
    BY <1>0, <1>4 DEF Noted
  <2>3. Noted(req'[r])
    BY <1>0, <1>1, <1>4 DEF Noted
  <2> QED
    BY <1>0, <1>3, <1>4, <2>1, <2>2, <2>3 DEF TypeOK
<1>7. RefsExact'
  <2> SUFFICES ASSUME NEW p \in ObjCore
               PROVE  RefExact(p)'
    BY DEF RefsExact, RefExact
  <2>1. RefExact(p)
    BY <1>0 DEF RefsExact, RefExact
  <2>2. \A q \in Req :
          /\ req'[q].pc # "idle" /\ req'[q].objcore = p
               <=> req[q].pc # "idle" /\ req[q].objcore = p
          /\ q # r \/ p # o => (p \in req'[q].ocp <=> p \in req[q].ocp)
    BY <1>4
  <2>3. CASE p = o
    <3>1. OtherReqs(o, x)
      <4>1. \A q \in Req :
              /\ <<q, "lookup">> # x =>
                   (req'[q].pc # "idle" /\ req'[q].objcore = o
                      <=> req[q].pc # "idle" /\ req[q].objcore = o)
              /\ <<q, "softpurge">> # x => (o \in req'[q].ocp <=> o \in req[q].ocp)
        BY <2>2, <2>3
      <4> QED
        BY <4>1, ReqsStay
    <3>2. IF oc[o].refcnt = 1 THEN oc'[o] = Free
          ELSE oc'[o].refcnt = oc[o].refcnt - 1 /\ oc'[o].phase = oc[o].phase
      BY <1>0, <1>2 DEF OcType
    <3>3. x \notin Holders(o)'
      <4>1. x \in Holders(o)' <=> o \in req'[r].ocp
        BY HolderWillBe
      <4> QED
        BY <1>4, <4>1
    <3>4. oc'[o].phase = oc[o].phase =>
            (<<NULL, "cache">> \in Holders(o)' <=> <<NULL, "cache">> \in Holders(o))
      BY HolderIs, HolderWillBe
    <3> QED
      BY <1>5, <2>1, <2>3, <3>1, <3>2, <3>3, <3>4, GivenBack
  <2>4. CASE p # o
    <3>1. oc'[p] = oc[p]
      BY <1>0, <1>2, <2>4
    <3>2. Holders(p)' = Holders(p)
      BY <2>2, <2>4, <3>1, HoldersStay
    <3> QED
      BY <2>1, <3>1, <3>2, Untouched
  <2> QED
    BY <2>3, <2>4
<1>8. \A q \in Req : q # r /\ oc[o].refcnt = 1 => o \notin req[q].ocp
  <2> SUFFICES ASSUME NEW q \in Req, q # r, oc[o].refcnt = 1
               PROVE  o \notin req[q].ocp
    OBVIOUS
  <2>1. <<q, "softpurge">> \in Holders(o) <=> o \in req[q].ocp
    BY HolderIs
  <2> QED
    BY <1>5, <2>1
<1>9. \A p \in ObjCore : p # o \/ oc[o].refcnt # 1 =>
        /\ oc'[p].t_origin = oc[p].t_origin /\ oc'[p].ttl = oc[p].ttl
        /\ oc'[p].phase = oc[p].phase
  BY <1>0, <1>2 DEF OcType
<1>a. \A q \in Req :
        /\ req[q].ocp \subseteq ObjCore /\ req[q].due \subseteq ObjCore
        /\ req[q].rearmed \in req[q].ocp \cup {NULL}
  BY <1>0 DEF ReqType, Noted
<1>b. \A q \in Req : \A p \in req'[q].ocp \cup req'[q].due :
        p \in ObjCore /\ (p # o \/ oc[o].refcnt # 1)
  BY <1>4, <1>8, <1>a
<1>c. \A p \in ObjCore : p # o \/ oc[o].refcnt # 1 => (Stale(p)' <=> Stale(p))
  BY <1>3, <1>9 DEF Stale
<1>10. InStep'
  <2> SUFFICES ASSUME NEW q \in Req
               PROVE  /\ req'[q].pc # "idle" => req'[q].objcore \in ObjCore
                      /\ req'[q].t_prev <= clock'
                      /\ req'[q].rearmed # NULL => Stale(req[q].rearmed)'
                      /\ \A p \in req'[q].ocp \cup req'[q].due :
                           oc'[p].phase \notin {"free", "busy"}
    BY DEF InStep, Stale
  <2>1. /\ req'[q].pc # "idle" => req'[q].objcore \in ObjCore
        /\ req'[q].t_prev <= clock'
    BY <1>0, <1>3, <1>4 DEF InStep
  <2>2. \A p \in req'[q].ocp \cup req'[q].due : oc'[p].phase \notin {"free", "busy"}
    <3> SUFFICES ASSUME NEW p \in req'[q].ocp \cup req'[q].due
                 PROVE  oc'[p].phase \notin {"free", "busy"}
      OBVIOUS
    <3>1. p \in req[q].ocp \cup req[q].due
      BY <1>4
    <3> QED
      BY <1>0, <1>9, <1>b, <3>1 DEF InStep
  <2>3. req'[q].rearmed # NULL => Stale(req[q].rearmed)'
    <3> SUFFICES ASSUME req'[q].rearmed # NULL
                 PROVE  Stale(req[q].rearmed)'
      OBVIOUS
    <3>1. q # r /\ req'[q].rearmed = req[q].rearmed /\ req'[q].ocp = req[q].ocp
      BY <1>4
    <3>2. req[q].rearmed \in req'[q].ocp /\ Stale(req[q].rearmed)
      BY <1>0, <1>a, <3>1 DEF InStep
    <3>3. PICK p \in ObjCore : p = req[q].rearmed /\ (p # o \/ oc[o].refcnt # 1)
      BY <1>b, <3>2
    <3>4. Stale(p)'
      BY <1>c, <3>2, <3>3
    <3> QED
      BY <3>1, <3>3, <3>4 DEF Stale
  <2> QED
    BY <2>1, <2>2, <2>3
<1>11. DuePurged'
  <2> SUFFICES ASSUME NEW q \in Req, req'[q].pc \in {"rearm", "called"},
                      NEW p \in req'[q].due
               PROVE  p \in req'[q].ocp \/ Stale(p)'
    BY DEF DuePurged, Stale
  <2>1. p \in ObjCore /\ (p # o \/ oc[o].refcnt # 1)
    BY <1>b
  <2>2. p \in req[q].ocp \/ Stale(p)
    BY <1>0, <1>4 DEF DuePurged
  <2>3. Stale(o)
    BY <1>0, <1>1, SoftpurgeAssumption DEF InStep
  <2>4. CASE p = o
    BY <1>c, <2>1, <2>3, <2>4
  <2>5. CASE p # o
    <3>1. p \in req'[q].ocp <=> p \in req[q].ocp
      BY <1>4, <2>5
    <3> QED
      BY <1>c, <2>1, <2>2, <3>1
  <2> QED
    BY <2>4, <2>5
<1> QED
  BY <1>6, <1>7, <1>10, <1>11 DEF SoftpurgeInv

LEMMA EndStep ==
  ASSUME SoftpurgeInv, NEW r \in Req, softpurge_end(r)
  PROVE  SoftpurgeInv'
<1>0. /\ oc \in [ObjCore -> OcType] /\ req \in [Req -> ReqType] /\ clock \in Nat
      /\ \A q \in Req : Noted(req[q])
      /\ RefsExact /\ InStep /\ DuePurged
  BY DEF SoftpurgeInv, TypeOK
<1>1. /\ req[r].pc = "rearm" /\ req[r].ocp = {}
      /\ req' = [req EXCEPT ![r] = [req[r] EXCEPT !.pc = "called"]]
      /\ oc' = oc /\ clock' = clock
  BY <1>0 DEF softpurge_end
<1>2. /\ req' \in [Req -> ReqType]
      /\ \A q \in Req : /\ req'[q].objcore = req[q].objcore
                        /\ req'[q].t_prev = req[q].t_prev /\ req'[q].ocp = req[q].ocp
                        /\ req'[q].due = req[q].due /\ req'[q].rearmed = req[q].rearmed
                        /\ q # r => req'[q].pc = req[q].pc
      /\ req'[r].pc = "called"
  BY <1>0, <1>1 DEF ReqType
<1>3. TypeOK'
  <2>1. \A q \in Req : Noted(req'[q])
    BY <1>0, <1>1, <1>2 DEF Noted
  <2> QED
    BY <1>0, <1>1, <1>2, <2>1 DEF TypeOK
<1>4. RefsExact'
  <2> SUFFICES ASSUME NEW p \in ObjCore
               PROVE  RefExact(p)'
    BY DEF RefsExact, RefExact
  <2>1. RefExact(p)
    BY <1>0 DEF RefsExact, RefExact
  <2>2. \A q \in Req : req'[q].pc # "idle" <=> req[q].pc # "idle"
    BY <1>1, <1>2
  <2>3. Holders(p)' = Holders(p)
    BY <1>1, <1>2, <2>2, HoldersStay
  <2> QED
    BY <1>1, <2>1, <2>3, Untouched
<1>5. InStep'
  BY <1>0, <1>1, <1>2 DEF InStep, Stale
<1>6. DuePurged'
  BY <1>0, <1>1, <1>2 DEF DuePurged, Stale
<1> QED
  BY <1>3, <1>4, <1>5, <1>6 DEF SoftpurgeInv

-----------------------------------------------------------------------------
LEMMA InitInv == Init => SoftpurgeInv
<1> SUFFICES ASSUME Init
             PROVE  SoftpurgeInv
  OBVIOUS
<1>1. /\ oc \in [ObjCore -> OcType] /\ req \in [Req -> ReqType] /\ clock = 0
      /\ \A o \in ObjCore : oc[o] = Free
      /\ \A r \in Req : req[r] = Idle
  BY DEF Init, Free, Idle, OcType, ReqType
<1>2. TypeOK
  BY <1>1 DEF TypeOK, Noted, Idle
<1>3. RefsExact
  <2> SUFFICES ASSUME NEW o \in ObjCore
               PROVE  oc[o].refcnt = Cardinality(Holders(o))
                      /\ (oc[o].phase = "free" <=> oc[o].refcnt = 0)
    BY DEF RefsExact
  <2>1. oc[o].refcnt = 0 /\ oc[o].phase = "free"
    BY <1>1 DEF Free
  <2>2. \A r \in Req : req[r].pc = "idle" /\ req[r].ocp = {}
    BY <1>1 DEF Idle
  <2>3. Holders(o) = {}
    BY <2>1, <2>2 DEF Holders
  <2> QED
    BY <2>1, <2>3, FS_EmptySet
<1>4. InStep
  BY <1>1 DEF InStep, Idle
<1>5. DuePurged
  BY <1>1 DEF DuePurged, Idle
<1> QED
  BY <1>2, <1>3, <1>4, <1>5 DEF SoftpurgeInv

LEMMA NextInv == SoftpurgeInv /\ [Next]_vars => SoftpurgeInv'
<1> SUFFICES ASSUME SoftpurgeInv, [Next]_vars
             PROVE  SoftpurgeInv'
  OBVIOUS
<1>1. CASE \E r \in Req, o \in ObjCore : Hit(r, o)
  BY <1>1, HitStep
<1>2. CASE \E r \in Req, o \in ObjCore : Miss(r, o)
  BY <1>2, MissStep
<1>3. CASE \E r \in Req, spc \in Space, s \in SUBSET Variants : softpurge(r, spc, s)
  BY <1>3, CollectStep
<1>4. CASE \E r \in Req, o \in ObjCore : softpurge_rearm(r, o)
  BY <1>4, RearmStep
<1>5. CASE \E r \in Req : softpurge_deref(r)
  BY <1>5, DerefStep
<1>6. CASE \E r \in Req : softpurge_end(r)
  BY <1>6, EndStep
<1>7. CASE \E r \in Req : Finish(r)
  BY <1>7, FinishStep
<1>8. CASE \E o \in ObjCore : Kill(o)
  BY <1>8, KillStep
<1>9. CASE \E o \in ObjCore : Drop(o)
  BY <1>9, DropStep
<1>10. CASE Tick
  BY <1>10, TickStep
<1>11. CASE UNCHANGED vars
  BY <1>11 DEF vars, SoftpurgeInv, TypeOK, RefsExact, Holders, InStep, DuePurged, Stale
<1> QED
  BY <1>1, <1>2, <1>3, <1>4, <1>5, <1>6, <1>7, <1>8, <1>9, <1>10, <1>11
     DEF Next, SoftpurgeStep

LEMMA SoftpurgeInvariant == Spec => []SoftpurgeInv
  BY InitInv, NextInv, PTL DEF Spec

(***************************************************************************)
(* Every variable keeps its type: pointers that softpurge has noted are    *)
(* there only while it runs, and it rearms only what it has noted.         *)
(***************************************************************************)
THEOREM SoftpurgeType == Spec => []TypeOK
<1>1. SoftpurgeInv => TypeOK
  BY DEF SoftpurgeInv
<1> QED
  BY <1>1, SoftpurgeInvariant, PTL

(***************************************************************************)
(* The reference count of every objcore is the number of those who hold    *)
(* it, whatever lookups, softpurges, fetches and expiry do in between the  *)
(* two passes of vmod_softpurge.c; so nothing is freed that a softpurge    *)
(* still has in its workspace, and nothing leaks.                          *)
(***************************************************************************)
THEOREM SoftpurgeRefsExact == Spec => []RefsExact
<1>1. SoftpurgeInv => RefsExact
  BY DEF SoftpurgeInv
<1> QED
  BY <1>1, SoftpurgeInvariant, PTL

(***************************************************************************)
(* What a softpurge must not miss is stale when it has dealt with it, as   *)
(* long as the object lives, however many softpurges run at once.          *)
(***************************************************************************)
THEOREM SoftpurgeDuePurged == Spec => []DuePurged
<1>1. SoftpurgeInv => DuePurged
  BY DEF SoftpurgeInv
<1> QED
  BY <1>1, SoftpurgeInvariant, PTL

(***************************************************************************)
(* What one step does to the lifetime of an object that has been fetched.  *)
(***************************************************************************)
Endures(o) ==
  oc[o].phase # "busy" /\ oc[o].refcnt > 0 /\ Stale(o) => Stale(o)' \/ oc'[o].phase = "free"

\* A step that does not change when o expires, or frees it.
LEMMA Unaltered ==
  ASSUME NEW o \in ObjCore, clock \in Nat, clock' = clock,
         \/ oc'[o].t_origin = oc[o].t_origin /\ oc'[o].ttl = oc[o].ttl
         \/ oc'[o].phase = "free"
  PROVE  Endures(o)
  BY DEF Endures, Stale

LEMMA DerefUnaltered ==
  ASSUME oc \in [ObjCore -> OcType], NEW p \in ObjCore, NEW o \in ObjCore,
         oc' = [oc EXCEPT ![p] = Deref(p)], clock \in Nat, clock' = clock
  PROVE  Endures(o)
<1>1. CASE o = p /\ oc[p].refcnt = 1
  <2>1. oc'[o].phase = "free"
    BY <1>1 DEF Deref, Free
  <2> QED
    BY <2>1, Unaltered
<1>2. CASE o # p \/ oc[p].refcnt # 1
  <2>1. oc'[o].t_origin = oc[o].t_origin /\ oc'[o].ttl = oc[o].ttl
    BY <1>2 DEF Deref, OcType
  <2> QED
    BY <2>1, Unaltered
<1> QED
  BY <1>1, <1>2

LEMMA StaleStep ==
  ASSUME SoftpurgeInv, [Next]_vars, NEW o \in ObjCore
  PROVE  Endures(o)
<1>0. /\ oc \in [ObjCore -> OcType] /\ req \in [Req -> ReqType] /\ clock \in Nat
      /\ RefsExact /\ InStep
  BY DEF SoftpurgeInv, TypeOK
<1>1. ASSUME NEW r \in Req, NEW p \in ObjCore, Hit(r, p)
      PROVE  Endures(o)
  BY <1>0, <1>1, Unaltered DEF Hit, OcType
<1>2. ASSUME NEW r \in Req, NEW p \in ObjCore, Miss(r, p)
      PROVE  Endures(o)
  <2>1. CASE o = p
    <3>1. oc[o].refcnt = 0
      BY <1>0, <1>2, <2>1 DEF Miss, RefsExact
    <3> QED
      BY <3>1 DEF Endures
  <2>2. CASE o # p
    BY <1>0, <1>2, <2>2, Unaltered DEF Miss
  <2> QED
    BY <2>1, <2>2
<1>3. ASSUME NEW r \in Req, NEW spc \in Space, NEW s \in SUBSET Variants, softpurge(r, spc, s)
      PROVE  Endures(o)
  BY <1>0, <1>3, Unaltered DEF softpurge, OcType
<1>4. ASSUME NEW r \in Req, NEW p \in ObjCore, softpurge_rearm(r, p)
      PROVE  Endures(o)
  <2>1. CASE o = p
    <3>1. /\ oc'[o].t_origin = oc[o].t_origin
          /\ oc'[o].ttl = req[r].t_prev + 0 - oc[o].t_origin
          /\ clock' = clock
      BY <1>0, <1>4, <2>1 DEF softpurge_rearm, EXP_Rearm, OcType
    <3>2. req[r].t_prev \in Nat /\ oc[o].t_origin \in Nat /\ req[r].t_prev <= clock
      BY <1>0 DEF ReqType, OcType, InStep
    <3>3. Stale(o)'
      BY <1>0, <3>1, <3>2 DEF Stale
    <3> QED
      BY <3>3 DEF Endures
  <2>2. CASE o # p
    BY <1>0, <1>4, <2>2, Unaltered DEF softpurge_rearm
  <2> QED
    BY <2>1, <2>2
<1>5. ASSUME NEW r \in Req, softpurge_deref(r)
      PROVE  Endures(o)
  <2>1. req[r].rearmed \in ObjCore
    BY <1>0, <1>5 DEF softpurge_deref, ReqType
  <2>2. oc' = [oc EXCEPT ![req[r].rearmed] = Deref(req[r].rearmed)] /\ clock' = clock
    BY <1>5 DEF softpurge_deref
  <2> QED
    BY <1>0, <2>1, <2>2, DerefUnaltered
<1>6. ASSUME NEW r \in Req, softpurge_end(r)
      PROVE  Endures(o)
  BY <1>0, <1>6, Unaltered DEF softpurge_end
<1>7. ASSUME NEW r \in Req, Finish(r)
      PROVE  Endures(o)
  <2>1. req[r].objcore \in ObjCore /\ clock' = clock
    BY <1>0, <1>7 DEF Finish, InStep
  <2>2. CASE oc' = [oc EXCEPT ![req[r].objcore] = Deref(req[r].objcore)]
    BY <1>0, <2>1, <2>2, DerefUnaltered
  <2>3. CASE oc[req[r].objcore].phase = "busy" /\ \A p \in ObjCore : p # req[r].objcore => oc'[p] = oc[p]
    <3>1. CASE o = req[r].objcore
      BY <2>3, <3>1 DEF Endures
    <3>2. CASE o # req[r].objcore
      BY <1>0, <2>1, <2>3, <3>2, Unaltered
    <3> QED
      BY <3>1, <3>2
  <2> QED
    BY <1>0, <1>7, <2>1, <2>2, <2>3 DEF Finish
<1>8. ASSUME NEW p \in ObjCore, Kill(p)
      PROVE  Endures(o)
  BY <1>0, <1>8, Unaltered DEF Kill, OcType
<1>9. ASSUME NEW p \in ObjCore, Drop(p)
      PROVE  Endures(o)
  <2>1. \/ oc'[o].t_origin = oc[o].t_origin /\ oc'[o].ttl = oc[o].ttl
        \/ oc'[o].phase = "free"
    BY <1>0, <1>9 DEF Drop, OcType, Free
  <2> QED
    BY <1>0, <1>9, <2>1, Unaltered DEF Drop
<1>10. ASSUME Tick
       PROVE  Endures(o)
  <2>1. oc[o].t_origin + oc[o].ttl \in Int
    BY <1>0 DEF OcType
  <2> QED
    BY <1>0, <1>10, <2>1 DEF Tick, Endures, Stale
<1>11. ASSUME UNCHANGED vars
       PROVE  Endures(o)
  BY <1>0, <1>11, Unaltered DEF vars
<1> QED
  BY <1>1, <1>2, <1>3, <1>4, <1>5, <1>6, <1>7, <1>8, <1>9, <1>10, <1>11
     DEF Next, SoftpurgeStep

(***************************************************************************)
(* An object that is stale does not become fresh again until it is freed:  *)
(* a softpurge counts from the time its request noted last, which is never *)
(* in the future, whatever other softpurges have set meanwhile.            *)
(***************************************************************************)
THEOREM SoftpurgeStaleStays == Spec => StaleStays
<1>1. SoftpurgeInv /\ [Next]_vars => [\A o \in ObjCore : Endures(o)]_vars
  BY StaleStep
<1> QED
  BY <1>1, SoftpurgeInvariant, PTL DEF Spec, StaleStays, Endures
=============================================================================
