-------------------------------- MODULE Xkey --------------------------------
(***************************************************************************)
(* vmod_xkey.c among the threads of varnishd: fetch threads and the expiry *)
(* thread deliver object events to xkey_cb, client threads purge by key,   *)
(* and the CLI thread loads and discards VCLs.  They share the index,      *)
(* which is here the map of XkeyTags (XkeyIndex shows that the trees,      *)
(* lists and pools implement it), and one mutex.                           *)
(*                                                                         *)
(* The mutex is taken and released once per key by xkey_cb_insert, once by *)
(* xkey_cb_remove and by VCL_EVENT_LOAD: such a critical section is one    *)
(* step.  purge holds it from its first key to its last, the last          *)
(* VCL_EVENT_DISCARD while it waits for varnishd to let go of the          *)
(* callback: these are several steps, with mtx saying who holds it.        *)
(*                                                                         *)
(* External (varnishd): the life of an object, from Fetch to Kill and      *)
(* xkey_cb_remove.  varnishd sends the remove event only after the insert  *)
(* event has returned, and reuses an objcore only after the remove event   *)
(* has.  It delivers events under a read lock that unsubscribing takes for *)
(* writing.  Times are whole ticks; keep is treated like grace and left    *)
(* out.                                                                    *)
(***************************************************************************)
EXTENDS Integers, Sequences, FiniteSets

CONSTANTS
  ObjCore, Digest,  \* as in XkeyTags
  Headers,          \* what xkey headers may say: how often they name each key
  Keys,             \* arguments of purge and softpurge, as sequences of keys
  TTL, GRACE,       \* sets of lifetimes an object may be given
  MaxTime, MaxPurges, MaxVcls, MaxDiscards  \* bounds of a finite instance

ASSUME XkeyAssumption ==
  /\ Headers \subseteq [Digest -> Nat]
  /\ Keys \subseteq Seq(Digest)
  /\ TTL \subseteq Nat /\ GRACE \subseteq Nat
  /\ MaxTime \in Nat /\ MaxPurges \in Nat /\ MaxVcls \in Nat /\ MaxDiscards \in Nat

VARIABLES
  links,           \* the index
  mtx,             \* "free", or who holds the mutex across steps
  n_init,          \* VCLs that use the module
  xkey_cb_handle,  \* is the callback subscribed?
  obj,             \* the object at each address
  pg,              \* the locals of the purge that holds the mutex
  clock, npurge, ndiscard

module == <<links, mtx, n_init, xkey_cb_handle>>
bounds == <<clock, npurge, ndiscard>>
vars == <<module, obj, pg, bounds>>

Index == INSTANCE XkeyTags

(***************************************************************************)
(* An object: where it is in its life, OC_F_BUSY, how often its headers    *)
(* name each key, the part of that which xkey_cb_insert has still to do,   *)
(* its lifetime, and whether xkey_cb_insert was called for the index we    *)
(* have (ghost).                                                           *)
(***************************************************************************)
Lifetimes == [t_origin : 0..MaxTime, ttl : TTL, grace : GRACE]

Unused == [phase |-> "free", busy |-> FALSE, tags |-> Index!NoLinks,
           rest |-> Index!NoLinks, tagged |-> FALSE,
           exp |-> [t_origin |-> 0, ttl |-> 0, grace |-> 0]]

(***************************************************************************)
(* A purge: the keys still to do, its arguments, the count it will return, *)
(* the records of the current key still to visit; and as ghosts the        *)
(* objects it has rearmed and those it must not miss.                      *)
(***************************************************************************)
NoTodo == [o \in ObjCore |-> 0]

NoPurge == [key |-> <<>>, do_soft |-> FALSE, now |-> 0, i |-> 0, todo |-> NoTodo,
            purged |-> {}, due |-> {}]

Init ==
  /\ links = Index!NoTags /\ mtx = "free" /\ n_init = 0 /\ xkey_cb_handle = FALSE
  /\ obj = [o \in ObjCore |-> Unused]
  /\ pg = NoPurge
  /\ clock = 0 /\ npurge = 0 /\ ndiscard = 0

-----------------------------------------------------------------------------
(***************************************************************************)
(* The life of an object.                                                  *)
(***************************************************************************)

\* varnishd: a fetch takes an unused address for a new object.
Fetch(o, h, e) ==
  /\ obj[o].phase = "free"
  /\ e.t_origin <= clock
  /\ obj' = [obj EXCEPT ![o] = [phase |-> "fetched", busy |-> TRUE, tags |-> h,
                                rest |-> Index!NoLinks, tagged |-> FALSE,
                                exp |-> e]]
  /\ UNCHANGED <<module, pg, bounds>>

\* xkey_cb, insert event: the callback starts, if it is subscribed.
InsertEvent(o) ==
  /\ obj[o].phase = "fetched"
  /\ \/ /\ xkey_cb_handle
        /\ obj' = [obj EXCEPT ![o].phase = "inserting", ![o].rest = obj[o].tags,
                              ![o].tagged = TRUE]
     \/ /\ ~xkey_cb_handle
        /\ obj' = [obj EXCEPT ![o].phase = "cached"]
  /\ UNCHANGED <<module, pg, bounds>>

\* xkey_cb_insert: one key of the headers, in its own critical section.
xkey_cb_insert(o, d) ==
  /\ obj[o].phase = "inserting"
  /\ obj[o].rest[d] > 0
  /\ mtx = "free"
  /\ links' = Index!Linked(links, o, d)
  /\ obj' = [obj EXCEPT ![o].rest[d] = @ - 1]
  /\ UNCHANGED <<mtx, n_init, xkey_cb_handle, pg, bounds>>

\* No key is left, and the event has been delivered.
xkey_cb_insert_end(o) ==
  /\ obj[o].phase = "inserting"
  /\ obj[o].rest = Index!NoLinks
  /\ obj' = [obj EXCEPT ![o].phase = "cached"]
  /\ UNCHANGED <<module, pg, bounds>>

\* varnishd: the fetch is far enough for the object to be used.
Unbusy(o) ==
  /\ obj[o].busy
  /\ obj' = [obj EXCEPT ![o].busy = FALSE]
  /\ UNCHANGED <<module, pg, bounds>>

\* varnishd: the object expires, is evicted or replaced.
Kill(o) ==
  /\ obj[o].phase = "cached" /\ ~obj[o].busy
  /\ \/ xkey_cb_handle /\ obj' = [obj EXCEPT ![o].phase = "removing"]
     \/ ~xkey_cb_handle /\ obj' = [obj EXCEPT ![o] = Unused]
  /\ UNCHANGED <<module, pg, bounds>>

\* Mutants: the records stay; the records go without the mutex.
cb_remove_nothing(o) ==
  /\ obj[o].phase = "removing"
  /\ mtx = "free"
  /\ obj' = [obj EXCEPT ![o] = Unused]
  /\ UNCHANGED <<module, pg, bounds>>

cb_remove_unlocked(o) ==
  /\ obj[o].phase = "removing"
  /\ links' = Index!Unlinked(links, o)
  /\ obj' = [obj EXCEPT ![o] = Unused]
  /\ UNCHANGED <<mtx, n_init, xkey_cb_handle, pg, bounds>>

\* xkey_cb, remove event; once it returns the address may be used again.
xkey_cb_remove(o) ==
  /\ obj[o].phase = "removing"
  /\ mtx = "free"
  /\ links' = Index!Unlinked(links, o)
  /\ obj' = [obj EXCEPT ![o] = Unused]
  /\ UNCHANGED <<mtx, n_init, xkey_cb_handle, pg, bounds>>

-----------------------------------------------------------------------------
(***************************************************************************)
(* purge and softpurge.  ctx->now is the time the request last noted, at   *)
(* or before the clock.                                                    *)
(***************************************************************************)
Names(o, k) == \E j \in 1..Len(k) : obj[o].tags[k[j]] > 0

\* Ghost: the objects that are completely in the index and carry a key of k.
Due(k) == {o \in ObjCore : /\ obj[o].phase = "cached" /\ ~obj[o].busy
                           /\ obj[o].tagged /\ Names(o, k)}

purge_start(k, soft, t) ==
  /\ npurge < MaxPurges /\ npurge' = npurge + 1
  /\ n_init > 0  \* called from a VCL, which is not discarded while in use
  /\ mtx = "free" /\ mtx' = "purge"
  /\ t <= clock
  /\ pg' = [NoPurge EXCEPT !.key = k, !.do_soft = soft, !.now = t, !.due = Due(k)]
  /\ UNCHANGED <<links, n_init, xkey_cb_handle, obj, clock, ndiscard>>

\* The next key: xkey_hashtree_lookup, and the key's list from its head.
purge_key ==
  /\ mtx = "purge" /\ pg.todo = NoTodo /\ pg.key # <<>>
  /\ pg' = [pg EXCEPT !.key = Tail(@),
                      !.todo = [o \in ObjCore |-> links[o][Head(pg.key)]]]
  /\ UNCHANGED <<module, obj, bounds>>

\* Mutants: purge skips what is stale, too; softpurge does not skip it.
SkipsStale(o) ==
  LET e == obj[o].exp IN obj[o].busy \/ e.ttl <= pg.now - e.t_origin

SkipsBusy(o) == obj[o].busy

\* Is the object skipped?  Busy, or already stale when softpurging.
Skips(o) ==
  LET e == obj[o].exp IN
  obj[o].busy \/ (pg.do_soft /\ e.ttl <= pg.now - e.t_origin)

\* External: EXP_Rearm counts ttl from the time it is given.
EXP_Rearm(e, t, ttl, grace) ==
  [e EXCEPT !.ttl = t + ttl - e.t_origin, !.grace = grace]

\* How purge rearms an object with lifetime e.
Rearmed(e) == IF pg.do_soft THEN EXP_Rearm(e, pg.now, 0, e.grace)
                            ELSE EXP_Rearm(e, e.t_origin, 0, 0)

\* The next record on the key's list.
purge_visit(o) ==
  /\ mtx = "purge" /\ pg.todo[o] > 0
  /\ \/ /\ Skips(o)
        /\ pg' = [pg EXCEPT !.todo[o] = @ - 1]
        /\ UNCHANGED obj
     \/ /\ ~Skips(o)
        /\ pg' = [pg EXCEPT !.todo[o] = @ - 1, !.i = @ + 1, !.purged = @ \cup {o}]
        /\ obj' = [obj EXCEPT ![o].exp = Rearmed(@)]
  /\ UNCHANGED <<module, bounds>>

\* Every key and every record has been visited: pg.i is the result.
Finished == mtx = "purge" /\ pg.todo = NoTodo /\ pg.key = <<>>

\* Mutant: returns with the mutex held.
purge_end_locked ==
  /\ Finished
  /\ pg' = NoPurge
  /\ UNCHANGED <<module, obj, bounds>>

purge_end ==
  /\ Finished
  /\ mtx' = "free"
  /\ pg' = NoPurge
  /\ UNCHANGED <<links, n_init, xkey_cb_handle, obj, bounds>>

-----------------------------------------------------------------------------
(***************************************************************************)
(* vmod_event, on the CLI thread.                                          *)
(***************************************************************************)
Load ==
  /\ n_init < MaxVcls
  /\ mtx = "free"
  /\ xkey_cb_handle' = (n_init = 0 \/ xkey_cb_handle)
  /\ n_init' = n_init + 1
  /\ UNCHANGED <<links, mtx, obj, pg, bounds>>

\* Mutant: discards a VCL that was not loaded.
DiscardAny ==
  /\ ndiscard < MaxDiscards /\ ndiscard' = ndiscard + 1
  /\ mtx = "free"
  /\ n_init' = n_init - 1
  /\ UNCHANGED <<links, mtx, xkey_cb_handle, obj, pg, clock, npurge>>

\* The last VCL takes the callback away, with the mutex held.
Discard ==
  /\ ndiscard < MaxDiscards /\ ndiscard' = ndiscard + 1
  /\ mtx = "free"
  /\ n_init > 0
  /\ n_init' = n_init - 1
  /\ mtx' = IF n_init' = 0 THEN "discard" ELSE "free"
  /\ UNCHANGED <<links, xkey_cb_handle, obj, pg, clock, npurge>>

\* External: unsubscribing waits for the callbacks under way.
NoCallback == \A o \in ObjCore : obj[o].phase \notin {"inserting", "removing"}

\* The callback is gone, and xkey_cleanup empties the index.
DiscardEnd ==
  /\ mtx = "discard" /\ NoCallback
  /\ xkey_cb_handle' = FALSE
  /\ links' = Index!NoTags
  /\ obj' = [o \in ObjCore |-> [obj[o] EXCEPT !.tagged = FALSE]]
  /\ mtx' = "free"
  /\ UNCHANGED <<n_init, pg, bounds>>

Tick ==
  /\ clock < MaxTime /\ clock' = clock + 1
  /\ UNCHANGED <<module, obj, pg, npurge, ndiscard>>

-----------------------------------------------------------------------------
Next ==
  \/ \E o \in ObjCore :
       \/ \E h \in Headers, e \in Lifetimes : Fetch(o, h, e)
       \/ InsertEvent(o) \/ Unbusy(o) \/ Kill(o)
       \/ \E d \in Digest : xkey_cb_insert(o, d)
       \/ xkey_cb_insert_end(o) \/ xkey_cb_remove(o)
       \/ purge_visit(o)
  \/ \E k \in Keys, soft \in BOOLEAN, t \in 0..MaxTime : purge_start(k, soft, t)
  \/ purge_key \/ purge_end
  \/ Load \/ Discard \/ DiscardEnd \/ Tick

Spec == Init /\ [][Next]_vars

(***************************************************************************)
(* Fairness: a thread that holds the mutex runs on, a callback that can    *)
(* take the mutex eventually does, and varnishd lets a discard finish once *)
(* no callback is under way.  Nothing has to be fetched, killed or purged. *)
(***************************************************************************)
Progress(o) ==
  \/ \E d \in Digest : xkey_cb_insert(o, d)
  \/ xkey_cb_insert_end(o)
  \/ xkey_cb_remove(o)

HolderRuns ==
  \/ \E o \in ObjCore : purge_visit(o)
  \/ purge_key \/ purge_end \/ DiscardEnd

Fairness ==
  /\ \A o \in ObjCore : WF_vars(Progress(o))
  /\ WF_vars(HolderRuns)

FairSpec == Spec /\ Fairness

-----------------------------------------------------------------------------
ObjectType ==
  [phase : {"free", "fetched", "inserting", "cached", "removing"}, busy : BOOLEAN,
   tags : [Digest -> Nat], rest : [Digest -> Nat], tagged : BOOLEAN,
   exp : [t_origin : Nat, ttl : Int, grace : Nat]]

PurgeType ==
  [key : Seq(Digest), do_soft : BOOLEAN, now : Nat, i : Nat,
   todo : [ObjCore -> Nat], purged : SUBSET ObjCore, due : SUBSET ObjCore]

\* Every variable has its type, of the state vmod_xkey.c and varnishd share.
TypeOK ==
  /\ links \in [ObjCore -> [Digest -> Nat]]
  /\ mtx \in {"free", "purge", "discard"}
  /\ n_init \in Nat /\ xkey_cb_handle \in BOOLEAN
  /\ obj \in [ObjCore -> ObjectType]
  /\ pg \in PurgeType
  /\ clock \in Nat /\ npurge \in Nat /\ ndiscard \in Nat

(***************************************************************************)
(* The index says of every object exactly what its headers say, as far as  *)
(* xkey_cb_insert has come, and says nothing of an address that is free,   *)
(* reused, or was filled while the callback was not subscribed: no record  *)
(* outlives its object, however inserts, removals, purges, discards and    *)
(* reloads interleave.                                                     *)
(***************************************************************************)
IndexExact ==
  \A o \in ObjCore, d \in Digest :
    links[o][d] = IF obj[o].tagged THEN obj[o].tags[d] - obj[o].rest[d] ELSE 0

(***************************************************************************)
(* A purge in progress only has records of objects that varnishd has not   *)
(* yet freed before it (the assertion on oc->objcore in purge).            *)
(***************************************************************************)
PurgeTouchesLive ==
  \A o \in ObjCore :
    pg.todo[o] > 0 => obj[o].phase \in {"inserting", "cached", "removing"}

\* The last tick at which an object with lifetime e is fresh, or servable.
FreshUntil(e) == e.t_origin + e.ttl
ServedUntil(e) == e.t_origin + e.ttl + e.grace

(***************************************************************************)
(* When a purge is through, every object that was indexed under one of its *)
(* keys when it took the mutex, and was not busy, has been invalidated: no *)
(* longer fresh, nor, for a hard purge, servable in grace.                 *)
(***************************************************************************)
PurgeComplete ==
  Finished => \A o \in pg.due : obj[o].phase = "cached" =>
                /\ FreshUntil(obj[o].exp) <= clock
                /\ ~pg.do_soft => ServedUntil(obj[o].exp) <= clock

(***************************************************************************)
(* The result of a purge is the number of objects it has purged.           *)
(***************************************************************************)
CountsObjects == pg.i = Cardinality(pg.purged)

(***************************************************************************)
(* softpurge counts every object it purges once, however many of its keys  *)
(* the object carries and however often: a second visit finds it stale.    *)
(***************************************************************************)
SoftCountsObjects == pg.do_soft => CountsObjects

(***************************************************************************)
(* No purge makes an object fresh or servable at a time from now on at     *)
(* which it would not have been, even with a stale ctx->now and even if    *)
(* the object was purged before.                                           *)
(***************************************************************************)
NoLonger(old, new) == new <= old \/ new <= clock

NeverRevives ==
  [][\A o \in ObjCore : obj[o].phase # "free" =>
       /\ NoLonger(FreshUntil(obj[o].exp), FreshUntil(obj'[o].exp))
       /\ NoLonger(ServedUntil(obj[o].exp), ServedUntil(obj'[o].exp))]_vars

(***************************************************************************)
(* Every callback that varnishd starts returns: none waits for the mutex   *)
(* forever, unless it is the last discard that has the mutex (of which     *)
(* DiscardReturns speaks).                                                 *)
(***************************************************************************)
CallbacksReturn ==
  \A o \in ObjCore :
    /\ obj[o].phase = "inserting" ~> obj[o].phase # "inserting" \/ mtx = "discard"
    /\ obj[o].phase = "removing" ~> obj[o].phase # "removing" \/ mtx = "discard"

\* Every purge that takes the mutex gives it back.
PurgeReturns == mtx = "purge" ~> mtx = "free"

\* Every discard of a VCL returns.
DiscardReturns == mtx = "discard" ~> mtx = "free"
=============================================================================
