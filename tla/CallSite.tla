------------------------------ MODULE CallSite ------------------------------
(***************************************************************************)
(* The regular expressions that vmod_header.c and vmod_bodyaccess.c keep   *)
(* per call site.  varnishd gives every place in a VCL that calls get,     *)
(* remove or rematch_req_body a struct vmod_priv, shared by the threads    *)
(* that pass there.  The first one compiles its argument into it; all      *)
(* later ones use what they find.                                          *)
(*                                                                         *)
(* header_init_re tests, locks header_mutex and tests again.               *)
(* rematch_req_body takes no lock.  The entry point of vmod_header         *)
(* initialises the one mutex again with every VCL that is loaded, held or  *)
(* not: afterwards it is free (by POSIX the outcome is undefined).         *)
(*                                                                         *)
(* External: varnishd discards a VCL only when no thread runs in it, and   *)
(* then calls the free function of each call site that has one.  Every VCL *)
(* has one call site of each kind here.  What a regex matches is left out; *)
(* patterns are told apart by whether they compile (those of vmod_header   *)
(* do: VRT_re_init asserts it).                                            *)
(***************************************************************************)
EXTENDS Naturals, FiniteSets

CONSTANTS
  Thread,   \* worker threads
  Vcl,      \* VCL programs
  NULL,
  MaxLoads  \* bound of a finite instance: how often each VCL is loaded

ASSUME CallSiteAssumption ==
  /\ IsFiniteSet(Thread)
  /\ NULL \notin Thread
  /\ MaxLoads \in Nat

Kind == {"header", "body"}
Site == Vcl \X Kind

\* A regex, told from others by the call site it was compiled for, in which
\* of the lives of its VCL, and by a serial number.
Regex == [site : Site, life : Nat, n : Nat]

ASSUME NullAssumption == NULL \notin Regex

VARIABLES
  vcl,     \* the VCLs: loaded, and how often so far
  priv,    \* the vmod_priv of each call site: priv, free
  heap,    \* the compiled regexes that have not been freed
  mutex,   \* header_mutex: who holds it
  th       \* the threads: pc, site, t (a regex of their own), re (in use)

vars == <<vcl, priv, heap, mutex, th>>

NoPriv == [priv |-> NULL, free |-> FALSE]

Idle == [pc |-> "idle", site |-> NULL, t |-> NULL, re |-> NULL]

Init ==
  /\ vcl = [v \in Vcl |-> [loaded |-> FALSE, life |-> 0]]
  /\ priv = [s \in Site |-> NoPriv]
  /\ heap = {}
  /\ mutex = NULL
  /\ th = [t \in Thread |-> Idle]

Goto(t, l) == th' = [th EXCEPT ![t].pc = l]

At(t, l) == th[t].pc = l

Priv(t) == priv[th[t].site].priv

\* The regexes compiled for a call site in the present life of its VCL.
Compiled(s) == {b \in heap : b.site = s /\ b.life = vcl[s[1]].life}

\* What the compiler returns for a call site.
New(s) == [site |-> s, life |-> vcl[s[1]].life, n |-> Cardinality(Compiled(s))]

-----------------------------------------------------------------------------
(***************************************************************************)
(* VCL_EVENT_LOAD; event_function of vmod_header.                          *)
(***************************************************************************)
event_function(v) ==
  /\ ~vcl[v].loaded /\ vcl[v].life < MaxLoads
  /\ vcl' = [vcl EXCEPT ![v] = [loaded |-> TRUE, life |-> @.life + 1]]
  /\ mutex' = NULL
  /\ UNCHANGED <<priv, heap, th>>

\* The VCL is discarded.
Discard(v) ==
  /\ vcl[v].loaded
  /\ \A t \in Thread : th[t].pc # "idle" => th[t].site[1] # v
  /\ vcl' = [vcl EXCEPT ![v].loaded = FALSE]
  /\ heap' = heap \ {priv[<<v, k>>].priv : k \in {i \in Kind : priv[<<v, i>>].free}}
  /\ priv' = [s \in Site |-> IF s[1] = v THEN NoPriv ELSE priv[s]]
  /\ UNCHANGED <<mutex, th>>

\* A thread comes to a call site.
Call(t, s) ==
  /\ At(t, "idle") /\ vcl[s[1]].loaded
  /\ th' = [th EXCEPT ![t].pc = IF s[2] = "header" THEN "test" ELSE "btest",
                      ![t].site = s]
  /\ UNCHANGED <<vcl, priv, heap, mutex>>

-----------------------------------------------------------------------------
(***************************************************************************)
(* header_init_re, a step for every access to shared memory.               *)
(***************************************************************************)
header_test(t) ==
  /\ At(t, "test")
  /\ Goto(t, IF Priv(t) = NULL THEN "lock" ELSE "use")
  /\ UNCHANGED <<vcl, priv, heap, mutex>>

header_lock(t) ==
  /\ At(t, "lock") /\ mutex = NULL
  /\ mutex' = t
  /\ Goto(t, "recheck")
  /\ UNCHANGED <<vcl, priv, heap>>

\* Mutants: the condition is not rechecked; the function returns at once
\* if there is nothing left to do.
recheck_not(t) ==
  /\ At(t, "recheck")
  /\ Goto(t, "re_init")
  /\ UNCHANGED <<vcl, priv, heap, mutex>>

recheck_return(t) ==
  /\ At(t, "recheck")
  /\ Goto(t, IF Priv(t) = NULL THEN "re_init" ELSE "use")
  /\ UNCHANGED <<vcl, priv, heap, mutex>>

header_recheck(t) ==
  /\ At(t, "recheck")
  /\ Goto(t, IF Priv(t) = NULL THEN "re_init" ELSE "unlock")
  /\ UNCHANGED <<vcl, priv, heap, mutex>>

\* VRT_re_init stores what it has compiled.
header_re_init(t) ==
  LET s == th[t].site IN
  /\ At(t, "re_init")
  /\ heap' = heap \cup {New(s)}
  /\ priv' = [priv EXCEPT ![s].priv = New(s)]
  /\ Goto(t, "free")
  /\ UNCHANGED <<vcl, mutex>>

header_free(t) ==
  /\ At(t, "free")
  /\ priv' = [priv EXCEPT ![th[t].site].free = TRUE]
  /\ Goto(t, "unlock")
  /\ UNCHANGED <<vcl, heap, mutex>>

header_unlock(t) ==
  /\ At(t, "unlock")
  /\ mutex' = NULL
  /\ Goto(t, "use")
  /\ UNCHANGED <<vcl, priv, heap>>

-----------------------------------------------------------------------------
(***************************************************************************)
(* rematch_req_body, the same.                                             *)
(***************************************************************************)
body_test(t) ==
  /\ At(t, "btest")
  /\ Goto(t, IF Priv(t) = NULL THEN "compile" ELSE "use")
  /\ UNCHANGED <<vcl, priv, heap, mutex>>

\* The pattern is compiled, or is not valid and the call ends.
body_compile(t) ==
  LET s == th[t].site IN
  /\ At(t, "compile")
  /\ \/ /\ heap' = heap \cup {New(s)}
        /\ th' = [th EXCEPT ![t].pc = "store", ![t].t = New(s)]
     \/ /\ th' = [th EXCEPT ![t] = Idle]
        /\ UNCHANGED heap
  /\ UNCHANGED <<vcl, priv, mutex>>

\* Mutants: the regex that was there is freed; the store is forgotten.
store_replaces(t) ==
  /\ At(t, "store")
  /\ priv' = [priv EXCEPT ![th[t].site] = [priv |-> th[t].t, free |-> TRUE]]
  /\ heap' = heap \ {Priv(t)}
  /\ th' = [th EXCEPT ![t].pc = "use", ![t].t = NULL]
  /\ UNCHANGED <<vcl, mutex>>

store_unset(t) ==
  /\ At(t, "store")
  /\ th' = [th EXCEPT ![t].pc = "match", ![t].t = NULL, ![t].re = th[t].t]
  /\ UNCHANGED <<vcl, priv, heap, mutex>>

\* priv and free are stored; nobody looks at free before the discard.
body_store(t) ==
  /\ At(t, "store")
  /\ priv' = [priv EXCEPT ![th[t].site] = [priv |-> th[t].t, free |-> TRUE]]
  /\ th' = [th EXCEPT ![t].pc = "use", ![t].t = NULL]
  /\ UNCHANGED <<vcl, heap, mutex>>

-----------------------------------------------------------------------------
\* Both: priv is read once more, and handed to the matcher.
use(t) ==
  /\ At(t, "use")
  /\ th' = [th EXCEPT ![t].pc = "match", ![t].re = Priv(t)]
  /\ UNCHANGED <<vcl, priv, heap, mutex>>

\* The matcher returns, and so does the call.
match(t) ==
  /\ At(t, "match")
  /\ th' = [th EXCEPT ![t] = Idle]
  /\ UNCHANGED <<vcl, priv, heap, mutex>>

ThreadStep(t) ==
  \/ header_test(t) \/ header_lock(t) \/ header_recheck(t)
  \/ header_re_init(t) \/ header_free(t) \/ header_unlock(t)
  \/ body_test(t) \/ body_compile(t) \/ body_store(t)
  \/ use(t) \/ match(t)

Next ==
  \/ \E v \in Vcl : event_function(v) \/ Discard(v)
  \/ \E t \in Thread : ThreadStep(t) \/ \E s \in Site : Call(t, s)

Spec == Init /\ [][Next]_vars

\* Worker threads run.  Of the mutex no fairness is asked: one thread may get
\* it before another any number of times.
FairSpec == Spec /\ \A t \in Thread : WF_vars(ThreadStep(t))

-----------------------------------------------------------------------------
VclType == [loaded : BOOLEAN, life : Nat]

PrivType == [priv : Regex \cup {NULL}, free : BOOLEAN]

\* Where a thread holds header_mutex, where else it is in vmod_header, and
\* where in vmod_bodyaccess.
Critical == {"recheck", "re_init", "free", "unlock"}
HeaderPc == {"test", "lock"} \cup Critical
BodyPc == {"btest", "compile", "store"}

ThType == [pc : {"idle", "use", "match"} \cup HeaderPc \cup BodyPc,
           site : Site \cup {NULL}, t : Regex \cup {NULL}, re : Regex \cup {NULL}]

\* Every variable has its type, of the call sites of vmod_header.c and
\* vmod_bodyaccess.c and the threads that run through them.
TypeOK ==
  /\ vcl \in [Vcl -> VclType]
  /\ priv \in [Site -> PrivType]
  /\ heap \subseteq Regex
  /\ mutex \in {t \in Thread : th[t].pc \in Critical} \cup {NULL}
  /\ th \in [Thread -> ThType]

(***************************************************************************)
(* A regex of vmod_header is compiled once: the ones in memory are those   *)
(* that a call site of a loaded VCL holds.  None is replaced while threads *)
(* use it, and the discard of a VCL frees all of them.                     *)
(***************************************************************************)
OneRegex ==
  \A b \in heap : b.site[2] = "header" =>
    priv[b.site].priv = b /\ vcl[b.site[1]].loaded

(***************************************************************************)
(* rematch_req_body compiles without a lock, and what another thread has   *)
(* stored is lost.  But that happens once per thread at most: in each life *)
(* of a VCL a call site costs no more regexes than there are threads.      *)
(***************************************************************************)
LossBounded ==
  \A s \in Site : s[2] = "body" => Cardinality(Compiled(s)) <= Cardinality(Thread)

(***************************************************************************)
(* A thread matches with a regex of its own call site that has not been    *)
(* freed, whoever stores another one there and whichever VCL is discarded. *)
(***************************************************************************)
UsesLive ==
  \A t \in Thread : At(t, "match") =>
    th[t].re \in heap /\ th[t].re.site = th[t].site

\* Every call of get, remove and rematch_req_body returns: header_mutex is
\* wanted only until the regex is there, so that no thread waits for ever.
CallsReturn == \A t \in Thread : th[t].pc # "idle" ~> th[t].pc = "idle"
=============================================================================
