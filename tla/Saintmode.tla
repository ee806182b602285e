----------------------------- MODULE Saintmode ------------------------------
(***************************************************************************)
(* vmod_saintmode.c: a director in front of a backend, with a list of the  *)
(* objects the backend is to be taken as sick for.  A fetch thread         *)
(* resolves the director, gets a response and may blacklist its object; a  *)
(* request thread may ask is_healthy; both prune the list as they read it. *)
(*                                                                         *)
(* Each use of a list is one critical section and one step.  healthy first *)
(* looks at the counter of the list without the mutex, and asks the        *)
(* backend after it has released it: three steps.  The list is newest      *)
(* first, so it is kept here as a set of entries that are numbered as they *)
(* come.  Times are whole ticks.                                           *)
(*                                                                         *)
(* External (varnishd): the states of a VCL and of a fetch, the times that *)
(* they note (t_prev), the backend's own health.  A VCL is not discarded   *)
(* while a task uses it.                                                   *)
(***************************************************************************)
EXTENDS Integers, Sequences, FiniteSets

CONSTANTS
  Sm, Be, Threshold,  \* the saintmode objects of the VCL and their arguments
  Backend, Digest,
  Task,               \* threads that resolve a director, or ask its health
  Expires,            \* arguments of blacklist
  NULL,
  MaxTime, MaxTrouble \* bounds of a finite instance

ASSUME SaintAssumption ==
  /\ Be \in [Sm -> Backend] /\ Threshold \in [Sm -> Nat]
  /\ Expires \subseteq Nat
  /\ NULL \notin Digest \cup Sm
  /\ MaxTime \in Nat /\ MaxTrouble \in Nat

VARIABLES
  vcl,          \* "init", "warm" or "fini"
  sm_list,      \* the objects of the VCL, in the order they were created
  objs,         \* those that exist
  troublelist,  \* per object, the blacklist
  n_trouble,    \* per object, the counter kept beside it
  task,         \* the locals of each task
  up,           \* the backends that are healthy by themselves
  clock,
  nr,           \* how many times blacklist was called
  blacklisted   \* ghost: per backend, everything blacklist was called for

module == <<sm_list, objs, troublelist, n_trouble>>
vars == <<vcl, module, task, up, clock, nr, blacklisted>>

Trouble == [nr : Nat, digest : Digest, timeout : Nat]

(***************************************************************************)
(* A task: how far it is, its object (NULL: a health check that no fetch   *)
(* makes), the time it last noted, the director it asks; and as a ghost    *)
(* what its backend was blacklisted for when it asked.                     *)
(***************************************************************************)
Idle == [pc |-> "idle", digest |-> NULL, t_prev |-> 0, sm |-> NULL, known |-> {}]

Init ==
  /\ vcl = "init" /\ sm_list = <<>> /\ objs = {}
  /\ troublelist = [s \in Sm |-> {}] /\ n_trouble = [s \in Sm |-> 0]
  /\ task = [t \in Task |-> Idle]
  /\ up = Backend
  /\ clock = 0 /\ nr = 0
  /\ blacklisted = [b \in Backend |-> {}]

-----------------------------------------------------------------------------
(***************************************************************************)
(* The scan of is_digest_healthy, from the newest entry to the oldest.     *)
(***************************************************************************)

\* The entries that stop the scan with a verdict: they last, and match.
Matches(s, digest, now) ==
  {tr \in troublelist[s] : tr.digest = digest /\ tr.timeout >= now}

\* Mutant: also removes what lasts until just now.
PrunedEarly(s, digest, now) ==
  {tr \in troublelist[s] :
     tr.timeout <= now /\ \A m \in Matches(s, digest, now) : m.nr < tr.nr}

\* The entries that the scan removes: outdated, and newer than any match.
Pruned(s, digest, now) ==
  {tr \in troublelist[s] :
     tr.timeout < now /\ \A m \in Matches(s, digest, now) : m.nr < tr.nr}

\* What the scan returns.
Verdict(s, digest, now) ==
  /\ Matches(s, digest, now) = {}
  /\ n_trouble[s] - Cardinality(Pruned(s, digest, now)) < Threshold[s]

\* Mutants: every entry is counted as removed; none is.
scan_counts_all(s, digest, now) ==
  /\ troublelist' = [troublelist EXCEPT ![s] = @ \ Pruned(s, digest, now)]
  /\ n_trouble' = [n_trouble EXCEPT ![s] = @ - Cardinality(troublelist[s])]
  /\ UNCHANGED <<sm_list, objs>>

scan_counts_none(s, digest, now) ==
  /\ troublelist' = [troublelist EXCEPT ![s] = @ \ Pruned(s, digest, now)]
  /\ UNCHANGED <<n_trouble, sm_list, objs>>

is_digest_healthy(s, digest, now) ==
  /\ troublelist' = [troublelist EXCEPT ![s] = @ \ Pruned(s, digest, now)]
  /\ n_trouble' = [n_trouble EXCEPT ![s] = @ - Cardinality(Pruned(s, digest, now))]
  /\ UNCHANGED <<sm_list, objs>>

-----------------------------------------------------------------------------
(***************************************************************************)
(* A task that resolves a director, or only asks for its health.           *)
(***************************************************************************)

\* varnishd: a fetch for an object, or a health check for none.
Start(t, d) ==
  /\ vcl = "warm"
  /\ task[t].pc = "idle"
  /\ task' = [task EXCEPT ![t] = [Idle EXCEPT !.pc = "ready", !.digest = d,
                                              !.t_prev = clock]]
  /\ UNCHANGED <<vcl, module, up, clock, nr, blacklisted>>

\* healthy, without the mutex: is there anything to look for?
healthy(t, s) ==
  /\ task[t].pc = "ready"
  /\ task' = [task EXCEPT
       ![t].pc = IF Threshold[s] = 0 \/ n_trouble[s] = 0 THEN "backend" ELSE "digest",
       ![t].t_prev = IF task[t].digest = NULL THEN clock ELSE @,
       ![t].sm = s, ![t].known = blacklisted[Be[s]]]
  /\ UNCHANGED <<vcl, module, up, clock, nr, blacklisted>>

\* healthy goes on: the list, under the mutex.
healthy_digest(t) ==
  /\ task[t].pc = "digest"
  /\ is_digest_healthy(task[t].sm, task[t].digest, task[t].t_prev)
  /\ task' = [task EXCEPT
       ![t].pc = IF Verdict(task[t].sm, task[t].digest, task[t].t_prev)
                 THEN "backend" ELSE "sick"]
  /\ UNCHANGED <<vcl, up, clock, nr, blacklisted>>

\* healthy ends: the backend.  A fetch that resolves then has its backend.
healthy_backend(t) ==
  /\ task[t].pc = "backend"
  /\ task' = [task EXCEPT
       ![t].pc = IF Be[task[t].sm] \in up THEN "healthy" ELSE "sick"]
  /\ UNCHANGED <<vcl, module, up, clock, nr, blacklisted>>

\* varnishd: the response to a fetch comes in.
Respond(t) ==
  /\ task[t].pc = "healthy" /\ task[t].digest # NULL
  /\ task' = [task EXCEPT ![t].pc = "response", ![t].t_prev = clock]
  /\ UNCHANGED <<vcl, module, up, clock, nr, blacklisted>>

\* Mutant: the first object, for whatever backend.
find_sm_first(b, s) == Len(sm_list) > 0 /\ s = sm_list[1]

\* find_sm: the first object for backend b.
find_sm(b, s) ==
  \E i \in 1..Len(sm_list) :
    /\ sm_list[i] = s /\ Be[s] = b
    /\ \A j \in 1..i - 1 : Be[sm_list[j]] # b

\* Its early returns (not in vcl_backend_response, no object) change nothing.
blacklist(t, expires) ==
  /\ nr < MaxTrouble /\ nr' = nr + 1
  /\ task[t].pc = "response"
  /\ LET b == Be[task[t].sm]
         tp == [nr |-> nr, digest |-> task[t].digest,
                timeout |-> task[t].t_prev + expires]
     IN \E s \in Sm :
          /\ find_sm(b, s)
          /\ troublelist' = [troublelist EXCEPT ![s] = @ \cup {tp}]
          /\ n_trouble' = [n_trouble EXCEPT ![s] = @ + 1]
          /\ blacklisted' = [blacklisted EXCEPT ![b] = @ \cup {tp}]
  /\ UNCHANGED <<vcl, sm_list, objs, task, up, clock>>

\* varnishd: the fetch goes on to ask or to resolve another time, in the same
\* VCL method or after a retry, for which it notes the time.
Retry(t) ==
  /\ task[t].pc \in {"healthy", "sick", "response"}
  /\ \E now \in {task[t].t_prev, clock} :
       task' = [task EXCEPT ![t].pc = "ready", ![t].t_prev = now]
  /\ UNCHANGED <<vcl, module, up, clock, nr, blacklisted>>

Finish(t) ==
  /\ task[t].pc \in {"healthy", "sick", "response"}
  /\ task' = [task EXCEPT ![t] = Idle]
  /\ UNCHANGED <<vcl, module, up, clock, nr, blacklisted>>

-----------------------------------------------------------------------------
(***************************************************************************)
(* is_healthy of a client request, which noted the time at some point up   *)
(* to now.  In vcl_recv and vcl_hash it has no digest yet.  The verdict of *)
(* the scan is all that counts here: the backend is not asked.  In a fetch *)
(* is_healthy is healthy.                                                  *)
(***************************************************************************)
is_healthy(s, digest, t_prev) ==
  /\ vcl = "warm"
  /\ t_prev <= clock
  /\ is_digest_healthy(s, digest, t_prev)
  /\ UNCHANGED <<vcl, task, up, clock, nr, blacklisted>>

-----------------------------------------------------------------------------
saintmode_init(s) ==
  /\ vcl = "init" /\ s \notin objs
  /\ objs' = objs \cup {s}
  /\ sm_list' = Append(sm_list, s)
  /\ troublelist' = [troublelist EXCEPT ![s] = {}]
  /\ n_trouble' = [n_trouble EXCEPT ![s] = 0]
  /\ UNCHANGED <<vcl, task, up, clock, nr, blacklisted>>

\* The object stays on sm_list.
saintmode_fini(s) ==
  /\ vcl = "fini" /\ s \in objs
  /\ objs' = objs \ {s}
  /\ troublelist' = [troublelist EXCEPT ![s] = {}]
  /\ UNCHANGED <<vcl, sm_list, n_trouble, task, up, clock, nr, blacklisted>>

\* varnishd: the VCL is ready, is discarded, and is loaded anew.
VclStep ==
  /\ \/ /\ vcl = "init" /\ objs = Sm /\ vcl' = "warm"
        /\ UNCHANGED <<sm_list, blacklisted>>
     \/ /\ vcl = "warm" /\ \A t \in Task : task[t].pc = "idle"
        /\ vcl' = "fini"
        /\ UNCHANGED <<sm_list, blacklisted>>
     \/ /\ vcl = "fini" /\ objs = {} /\ vcl' = "init"
        /\ sm_list' = <<>>  \* priv->free
        /\ blacklisted' = [b \in Backend |-> {}]
  /\ UNCHANGED <<objs, troublelist, n_trouble, task, up, clock, nr>>

\* varnishd: a probe changes its mind about a backend.
Probe(b) ==
  /\ up' = IF b \in up THEN up \ {b} ELSE up \cup {b}
  /\ UNCHANGED <<vcl, module, task, clock, nr, blacklisted>>

Tick ==
  /\ clock < MaxTime /\ clock' = clock + 1
  /\ UNCHANGED <<vcl, module, task, up, nr, blacklisted>>

Next ==
  \/ \E t \in Task :
       \/ \E d \in Digest \cup {NULL} : Start(t, d)
       \/ \E s \in Sm : healthy(t, s)
       \/ healthy_digest(t) \/ healthy_backend(t) \/ Respond(t)
       \/ \E expires \in Expires : blacklist(t, expires)
       \/ Retry(t) \/ Finish(t)
  \/ \E s \in Sm :
       \/ \E d \in Digest \cup {NULL}, now \in 0..MaxTime : is_healthy(s, d, now)
       \/ saintmode_init(s) \/ saintmode_fini(s)
  \/ \E b \in Backend : Probe(b)
  \/ VclStep \/ Tick

Spec == Init /\ [][Next]_vars

-----------------------------------------------------------------------------
TaskType ==
  [pc : {"idle", "ready", "digest", "backend", "healthy", "sick", "response"},
   digest : Digest \cup {NULL}, t_prev : Nat, sm : Sm \cup {NULL},
   known : SUBSET Trouble]

\* Every variable has its type, of the director and its list in
\* vmod_saintmode.c and of the busyobj that uses them.
TypeOK ==
  /\ vcl \in {"init", "warm", "fini"}
  /\ sm_list \in Seq(Sm) /\ objs \subseteq Sm
  /\ troublelist \in [Sm -> SUBSET Trouble] /\ n_trouble \in [Sm -> Nat]
  /\ task \in [Task -> TaskType]
  /\ \A t \in Task : task[t].t_prev <= clock
  /\ up \subseteq Backend /\ clock \in Nat /\ nr \in Nat
  /\ blacklisted \in [Backend -> SUBSET Trouble]

\* The counter that healthy reads without the mutex, and on which it may skip
\* the list altogether, is the length of the list.
CountExact ==
  \A s \in objs : n_trouble[s] = Cardinality(troublelist[s])

\* What backend b was blacklisted for until time t or longer.
Lasting(b, t) == {tr \in blacklisted[b] : tr.timeout >= t}

(***************************************************************************)
(* is_digest_healthy gives its verdict for a reason: one of sick on an     *)
(* entry for the object that lasts, or on as many lasting entries as the   *)
(* threshold (both at the time the caller noted); one of healthy only if   *)
(* there is no such reason at present.  Entries that outlived their        *)
(* timeout, and what callers with an older or newer time have pruned or    *)
(* left behind a match, make no difference.                                *)
(***************************************************************************)
VerdictJustified ==
  \A s \in objs, d \in Digest \cup {NULL}, now \in 0..clock :
    IF Verdict(s, d, now)
    THEN /\ \A tr \in Lasting(Be[s], clock) : tr.digest # d
         /\ Cardinality(Lasting(Be[s], clock)) < Threshold[s]
    ELSE \/ \E tr \in Lasting(Be[s], now) : tr.digest = d
         \/ Cardinality(Lasting(Be[s], now)) >= Threshold[s]

(***************************************************************************)
(* A fetch is not sent to a backend that was blacklisted for its object    *)
(* before the fetch asked and still is, nor to one that had reached its    *)
(* threshold by then and still has: in spite of the unlocked test and of   *)
(* the time that passes until the answer.  So a retry goes elsewhere.      *)
(***************************************************************************)
SickAvoided ==
  [][\A t \in Task :
       task[t].pc # "healthy" /\ task'[t].pc = "healthy" =>
         LET lasting == {tr \in task[t].known : tr.timeout >= clock}
             s == task[t].sm
         IN Threshold[s] > 0 =>
              /\ \A tr \in lasting : tr.digest # task[t].digest
              /\ Cardinality(lasting) < Threshold[s]]_vars

=============================================================================
