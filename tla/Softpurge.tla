------------------------------ MODULE Softpurge -----------------------------
(***************************************************************************)
(* vmod_softpurge.c: a request whose lookup ended in vcl_hit or vcl_miss   *)
(* expires every variant of its object, and leaves them their grace.       *)
(*                                                                         *)
(* It does so in two passes.  The first, under the mutex of the objhead,   *)
(* takes a reference on each variant and notes it in the workspace, as far *)
(* as there is room.  The second, without the mutex, rearms the variants   *)
(* one by one and gives the references back.  In between, and between any  *)
(* two variants, other requests and the expiry thread go on.               *)
(*                                                                         *)
(* External (varnishd): lookups, fetches, expiry and the reference counts  *)
(* they keep; an objcore whose count drops to zero is freed at once and    *)
(* may be used for another object.  There is one objhead.  Its list is a   *)
(* set: which variants are noted if there is not room for all is left      *)
(* open.  Times are whole ticks; keep is treated like grace and left out.  *)
(***************************************************************************)
EXTENDS Integers, FiniteSets

CONSTANTS
  ObjCore,     \* addresses of variants
  Req,         \* client requests
  TTL, GRACE,  \* sets of lifetimes an object may be given
  Space,       \* how many pointers may fit into a request's workspace
  NULL,
  MaxTime      \* bound of a finite instance

ASSUME SoftpurgeAssumption ==
  /\ IsFiniteSet(ObjCore) /\ IsFiniteSet(Req)
  /\ TTL \subseteq Nat /\ GRACE \subseteq Nat
  /\ Space \subseteq Nat \ {0}  \* assert(spc >= sizeof *ocp)
  /\ NULL \notin ObjCore
  /\ MaxTime \in Nat

VARIABLES
  oc,    \* the objcores: phase, refcnt, t_origin, ttl, grace
  req,   \* the requests: pc, objcore, ocp, rearmed; as a ghost, due
  clock

vars == <<oc, req, clock>>

Free == [phase |-> "free", refcnt |-> 0, t_origin |-> 0, ttl |-> 0, grace |-> 0]

Busy == [phase |-> "busy", refcnt |-> 1, t_origin |-> 0, ttl |-> 0, grace |-> 0]

(***************************************************************************)
(* A request: where it is; the object of its lookup; the time it last      *)
(* noted; the variants in its workspace that it has still to deal with,    *)
(* and the one of them it has just rearmed.  Ghost: the variants that its  *)
(* softpurge must not miss, while they live.                               *)
(***************************************************************************)
Idle == [pc |-> "idle", objcore |-> NULL, t_prev |-> 0, ocp |-> {},
         rearmed |-> NULL, due |-> {}]

Init ==
  /\ oc = [o \in ObjCore |-> Free]
  /\ req = [r \in Req |-> Idle]
  /\ clock = 0

-----------------------------------------------------------------------------
(***************************************************************************)
(* varnishd.                                                               *)
(***************************************************************************)

\* A reference on o is given back; the last one frees it.
Deref(o) == IF oc[o].refcnt = 1 THEN Free ELSE [oc[o] EXCEPT !.refcnt = @ - 1]

\* Nobody looks for an object that is gone, whatever takes its address.
Forget(q, o) ==
  IF oc[o].refcnt = 1 THEN [r \in Req |-> [q[r] EXCEPT !.due = @ \ {o}]] ELSE q

\* A lookup finds a variant: vcl_hit.
Hit(r, o) ==
  /\ req[r].pc = "idle" /\ oc[o].phase = "live"
  /\ oc' = [oc EXCEPT ![o].refcnt = @ + 1]
  /\ req' = [req EXCEPT ![r].pc = "lookup", ![r].objcore = o, ![r].t_prev = clock]
  /\ UNCHANGED clock

\* A lookup leaves a busy object to be fetched: vcl_miss.
Miss(r, o) ==
  /\ req[r].pc = "idle" /\ oc[o].phase = "free"
  /\ oc' = [oc EXCEPT ![o] = Busy]
  /\ req' = [req EXCEPT ![r].pc = "lookup", ![r].objcore = o, ![r].t_prev = clock]
  /\ UNCHANGED clock

\* The request ends.  A busy object has been fetched by then, and the cache
\* keeps the reference, or it is dropped.
Finish(r) ==
  /\ req[r].pc \in {"lookup", "called"}
  /\ LET o == req[r].objcore IN
     \/ /\ oc[o].phase = "busy"
        /\ \E ttl \in TTL, grace \in GRACE :
             oc' = [oc EXCEPT ![o] = [phase |-> "live", refcnt |-> @.refcnt,
                                      t_origin |-> clock, ttl |-> ttl, grace |-> grace]]
        /\ req' = [req EXCEPT ![r] = Idle]
     \/ /\ oc' = [oc EXCEPT ![o] = Deref(o)]
        /\ req' = Forget([req EXCEPT ![r] = Idle], o)
  /\ UNCHANGED clock

\* An object expires, is purged or has to make room: OC_F_DYING.
Kill(o) ==
  /\ oc[o].phase = "live"
  /\ oc' = [oc EXCEPT ![o].phase = "dying"]
  /\ UNCHANGED <<req, clock>>

\* The cache gives its reference back.
Drop(o) ==
  /\ oc[o].phase = "dying"
  /\ oc' = [oc EXCEPT ![o] = IF oc[o].refcnt = 1 THEN Free
                             ELSE [oc[o] EXCEPT !.phase = "dead", !.refcnt = @ - 1]]
  /\ req' = Forget(req, o)
  /\ UNCHANGED clock

Tick ==
  /\ clock < MaxTime /\ clock' = clock + 1
  /\ UNCHANGED <<oc, req>>

-----------------------------------------------------------------------------
(***************************************************************************)
(* softpurge.                                                              *)
(***************************************************************************)

\* The variants that the first pass does not skip.
Variants == {o \in ObjCore : oc[o].phase = "live"}

\* Mutant: the last slot stays empty.
FitsOneLess(s, spc) ==
  /\ Cardinality(s) < spc
  /\ s = Variants \/ Cardinality(s) = spc - 1

\* The first pass ends at the end of the list or of the workspace.
Fits(s, spc) ==
  /\ Cardinality(s) <= spc
  /\ s = Variants \/ Cardinality(s) = spc

\* Mutant: no reference is taken.
softpurge_unreferenced(r, spc, s) ==
  /\ req[r].pc = "lookup"
  /\ Fits(s, spc)
  /\ req' = [req EXCEPT ![r].pc = "rearm", ![r].ocp = s,
                        ![r].due = IF Cardinality(Variants) <= spc THEN Variants ELSE s]
  /\ UNCHANGED <<oc, clock>>

\* The first pass, with spc pointers' worth of workspace.  In other methods
\* than vcl_hit and vcl_miss nothing happens.
softpurge(r, spc, s) ==
  /\ req[r].pc = "lookup"
  /\ Fits(s, spc)
  /\ oc' = [o \in ObjCore |-> IF o \in s THEN [oc[o] EXCEPT !.refcnt = @ + 1] ELSE oc[o]]
  /\ req' = [req EXCEPT ![r].pc = "rearm", ![r].ocp = s,
                        ![r].due = IF Cardinality(Variants) <= spc THEN Variants ELSE s]
  /\ UNCHANGED clock

\* External: EXP_Rearm counts ttl from the time it is given.
EXP_Rearm(e, now, ttl, grace) ==
  [e EXCEPT !.ttl = now + ttl - e.t_origin, !.grace = grace]

\* Mutant: the lifetime ends with the next tick.
rearm_late(r, o) ==
  /\ req[r].pc = "rearm" /\ o \in req[r].ocp /\ req[r].rearmed = NULL
  /\ oc' = [oc EXCEPT ![o] = EXP_Rearm(@, req[r].t_prev + 1, 0, @.grace)]
  /\ req' = [req EXCEPT ![r].rearmed = o]
  /\ UNCHANGED clock

\* The second pass, for one variant.
softpurge_rearm(r, o) ==
  /\ req[r].pc = "rearm" /\ o \in req[r].ocp /\ req[r].rearmed = NULL
  /\ oc' = [oc EXCEPT ![o] = EXP_Rearm(@, req[r].t_prev, 0, @.grace)]
  /\ req' = [req EXCEPT ![r].rearmed = o]
  /\ UNCHANGED clock

\* Mutants: the pointer remains, HSH_DerefObjCore having cleared a copy; the
\* loop comes back to the same variant with its reference.
deref_keeps(r) ==
  LET o == req[r].rearmed IN
  /\ o # NULL
  /\ oc' = [oc EXCEPT ![o] = Deref(o)]
  /\ req' = Forget([req EXCEPT ![r].ocp = @ \ {o}], o)
  /\ UNCHANGED clock

deref_again(r) ==
  /\ req[r].rearmed # NULL
  /\ req' = [req EXCEPT ![r].rearmed = NULL]
  /\ UNCHANGED <<oc, clock>>

\* HSH_DerefObjCore of that variant.
softpurge_deref(r) ==
  LET o == req[r].rearmed IN
  /\ o # NULL
  /\ oc' = [oc EXCEPT ![o] = Deref(o)]
  /\ req' = Forget([req EXCEPT ![r].rearmed = NULL, ![r].ocp = @ \ {o}], o)
  /\ UNCHANGED clock

softpurge_end(r) ==
  /\ req[r].pc = "rearm" /\ req[r].ocp = {}
  /\ req' = [req EXCEPT ![r].pc = "called"]
  /\ UNCHANGED <<oc, clock>>

-----------------------------------------------------------------------------
SoftpurgeStep(r) ==
  \/ \E o \in ObjCore : softpurge_rearm(r, o)
  \/ softpurge_deref(r) \/ softpurge_end(r)

Next ==
  \/ \E r \in Req :
       \/ \E o \in ObjCore : Hit(r, o) \/ Miss(r, o)
       \/ \E spc \in Space, s \in SUBSET Variants : softpurge(r, spc, s)
       \/ SoftpurgeStep(r)
       \/ Finish(r)
  \/ \E o \in ObjCore : Kill(o) \/ Drop(o)
  \/ Tick

Spec == Init /\ [][Next]_vars

\* A worker thread runs on to the end of its request, and the expiry thread
\* gives back the references on the objects that it has marked.
FairSpec ==
  /\ Spec
  /\ \A r \in Req : WF_vars(SoftpurgeStep(r)) /\ WF_vars(Finish(r))
  /\ \A o \in ObjCore : WF_vars(Drop(o))

-----------------------------------------------------------------------------
OcType == [phase : {"free", "busy", "live", "dying", "dead"},
           refcnt : Nat, t_origin : Nat, ttl : Int, grace : Nat]

ReqType == [pc : {"idle", "lookup", "rearm", "called"},
            objcore : ObjCore \cup {NULL}, t_prev : Nat,
            ocp : SUBSET ObjCore, rearmed : ObjCore \cup {NULL},
            due : SUBSET ObjCore]

\* A variant that has been rearmed is one of those noted, and only the second
\* pass has any.
Noted(q) == /\ q.rearmed \in q.ocp \cup {NULL}
            /\ q.ocp # {} => q.pc = "rearm"

\* Every variable has its type, of the objcores that vmod_softpurge.c refers
\* to and of the requests that call it, with the pointers they have noted.
TypeOK ==
  /\ oc \in [ObjCore -> OcType]
  /\ req \in [Req -> ReqType] /\ \A r \in Req : Noted(req[r])
  /\ clock \in Nat

\* Who holds a reference on o: the cache, unless the object is busy or dead,
\* and requests, for their lookup and for softpurge.
Holders(o) ==
  {<<r, "lookup">> : r \in {q \in Req : req[q].pc # "idle" /\ req[q].objcore = o}}
  \cup {<<r, "softpurge">> : r \in {q \in Req : o \in req[q].ocp}}
  \cup (IF oc[o].phase \in {"live", "dying"} THEN {<<NULL, "cache">>} ELSE {})

(***************************************************************************)
(* The reference counts are exact, between the passes too: an objcore in   *)
(* the workspace of a softpurge is not freed before softpurge is through   *)
(* with it, whatever expires meanwhile, and one that nobody holds is.      *)
(***************************************************************************)
RefsExact ==
  \A o \in ObjCore : /\ oc[o].refcnt = Cardinality(Holders(o))
                     /\ oc[o].phase = "free" <=> oc[o].refcnt = 0

Stale(o) == oc[o].t_origin + oc[o].ttl <= clock

(***************************************************************************)
(* What softpurge has dealt with is stale and remains so: all variants     *)
(* that were there when it began, if the workspace had room for them.      *)
(* Busy objects, and what was fetched later, are not meant.                *)
(***************************************************************************)
DuePurged ==
  \A r \in Req : req[r].pc \in {"rearm", "called"} =>
    \A o \in req[r].due : o \in req[r].ocp \/ Stale(o)

(***************************************************************************)
(* A stale object does not become fresh again: softpurge counts from the   *)
(* time the request noted, which is not in the future.                     *)
(***************************************************************************)
StaleStays ==
  [][\A o \in ObjCore : oc[o].phase # "busy" /\ oc[o].refcnt > 0 /\ Stale(o) =>
       Stale(o)' \/ oc'[o].phase = "free"]_vars

\* softpurge gives back what it took: an object that the expiry thread has
\* marked is freed in the end.
DyingFreed == \A o \in ObjCore : oc[o].phase = "dying" ~> oc[o].phase = "free"

=============================================================================
