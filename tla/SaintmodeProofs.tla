-------------------------- MODULE SaintmodeProofs ---------------------------
(***************************************************************************)
(* Proofs about Saintmode for any objects, thresholds, backends, tasks and *)
(* durations, and without the bounds on time and on calls of blacklist.    *)
(***************************************************************************)
EXTENDS Saintmode, FiniteSetTheorems, TLAPS

\* No two saintmode objects stand for the same backend.
OwnBackend == \A r, s \in Sm : Be[r] = Be[s] => r = s

(***************************************************************************)
(* The inductive invariant.  What is on a list was blacklisted for its     *)
(* backend; blacklistings are numbered; objects, tasks and the VCL are in  *)
(* step; a list lacks nothing that lasts (if every object has its own      *)
(* backend); and a task that is through with the list has nothing against  *)
(* its backend that it should know of.                                     *)
(***************************************************************************)
Recorded ==
  /\ \A b \in Backend : IsFiniteSet(blacklisted[b])
  /\ \A b \in Backend : \A tr \in blacklisted[b] : tr.nr < nr
  /\ \A s \in objs : troublelist[s] \subseteq blacklisted[Be[s]]

InStep ==
  /\ vcl = "warm" => objs = Sm
  /\ vcl = "init" => \A b \in Backend : blacklisted[b] = {}
  /\ \A t \in Task :
       /\ task[t].pc # "idle" => vcl = "warm"
       /\ task[t].pc \notin {"idle", "ready"} => task[t].sm \in Sm
       /\ task[t].pc = "response" => task[t].digest # NULL

Kept == OwnBackend => \A s \in objs : Lasting(Be[s], clock) \subseteq troublelist[s]

\* What task t knows of and still lasts.
Held(t) == {tr \in task[t].known : tr.timeout >= clock}

Clear(t) ==
  /\ \A tr \in Held(t) : tr.digest # task[t].digest
  /\ Cardinality(Held(t)) < Threshold[task[t].sm]

Cleared ==
  \A t \in Task : task[t].pc \in {"digest", "backend"} =>
    /\ task[t].known \subseteq blacklisted[Be[task[t].sm]]
    /\ OwnBackend /\ task[t].pc = "backend" /\ Threshold[task[t].sm] > 0 => Clear(t)

SaintInv ==
  /\ TypeOK /\ CountExact /\ Recorded /\ InStep /\ Kept /\ Cleared

-----------------------------------------------------------------------------
\* The subsets of a finite set of entries that the proofs count.
LEMMA Subset ==
  ASSUME NEW S, IsFiniteSet(S), NEW T, T \subseteq S
  PROVE  /\ IsFiniteSet(T) /\ Cardinality(T) \in Nat /\ Cardinality(S) \in Nat
         /\ Cardinality(T) <= Cardinality(S)
  BY FS_Subset, FS_CardinalityType

\* What a scan takes off a list and off its counter.
LEMMA ScanCount ==
  ASSUME SaintInv, NEW s \in objs, NEW d, NEW now
  PROVE  /\ IsFiniteSet(troublelist[s])
         /\ Pruned(s, d, now) \subseteq troublelist[s]
         /\ n_trouble[s] - Cardinality(Pruned(s, d, now)) \in Nat
         /\ Cardinality(troublelist[s] \ Pruned(s, d, now)) =
              n_trouble[s] - Cardinality(Pruned(s, d, now))
<1> DEFINE T == troublelist[s]
           P == Pruned(s, d, now)
<1>1. s \in Sm /\ Be[s] \in Backend
  BY SaintAssumption DEF SaintInv, TypeOK
<1>2. IsFiniteSet(T)
  BY <1>1, Subset DEF SaintInv, Recorded
<1>3. P \subseteq T
  BY DEF Pruned
<1>4. /\ IsFiniteSet(P) /\ Cardinality(P) \in Nat /\ Cardinality(T) \in Nat
      /\ Cardinality(P) <= Cardinality(T)
  BY <1>2, <1>3, Subset
<1>5. Cardinality(T \ P) = Cardinality(T) - Cardinality(T \cap P)
  BY <1>2, FS_Difference
<1>6. T \cap P = P
  BY <1>3
<1>7. n_trouble[s] = Cardinality(T)
  BY DEF SaintInv, CountExact
<1> QED
  BY <1>2, <1>3, <1>4, <1>5, <1>6, <1>7

\* A verdict of healthy means that nothing that lasts speaks against it.
LEMMA HealthyVerdict ==
  ASSUME SaintInv, OwnBackend, NEW s \in objs, NEW d, NEW now \in Nat, now <= clock,
         Verdict(s, d, now)
  PROVE  /\ \A tr \in Lasting(Be[s], clock) : tr.digest # d
         /\ Cardinality(Lasting(Be[s], clock)) < Threshold[s]
<1> DEFINE L == Lasting(Be[s], clock)
           R == troublelist[s] \ Pruned(s, d, now)
<1>1. /\ s \in Sm /\ Be[s] \in Backend /\ clock \in Nat /\ Threshold[s] \in Nat
      /\ blacklisted[Be[s]] \subseteq Trouble
  BY SaintAssumption DEF SaintInv, TypeOK
<1>2. L \subseteq troublelist[s]
  BY DEF SaintInv, Kept
<1>3. \A tr \in L : tr.timeout >= now /\ ~(tr.timeout < now)
  BY <1>1 DEF Lasting, Trouble
<1>4. \A tr \in L : tr.digest # d
  BY <1>2, <1>3 DEF Verdict, Matches
<1>5. L \subseteq R
  BY <1>2, <1>3 DEF Pruned
<1>6. /\ IsFiniteSet(R)
      /\ Cardinality(R) = n_trouble[s] - Cardinality(Pruned(s, d, now))
  BY ScanCount, Subset
<1>7. Cardinality(L) <= Cardinality(R) /\ Cardinality(L) \in Nat /\ Cardinality(R) \in Nat
  BY <1>5, <1>6, Subset
<1>8. Cardinality(R) < Threshold[s]
  BY <1>6 DEF Verdict
<1> QED
  BY <1>1, <1>4, <1>7, <1>8

\* A verdict of sick has a reason that lasts, as the caller sees the time.
LEMMA SickVerdict ==
  ASSUME SaintInv, NEW s \in objs, NEW d, NEW now \in Nat, ~Verdict(s, d, now)
  PROVE  \/ \E tr \in Lasting(Be[s], now) : tr.digest = d
         \/ Cardinality(Lasting(Be[s], now)) >= Threshold[s]
<1> DEFINE L == Lasting(Be[s], now)
           R == troublelist[s] \ Pruned(s, d, now)
<1>1. /\ s \in Sm /\ Be[s] \in Backend /\ Threshold[s] \in Nat
      /\ blacklisted[Be[s]] \subseteq Trouble
      /\ troublelist[s] \subseteq blacklisted[Be[s]]
      /\ IsFiniteSet(blacklisted[Be[s]])
  BY SaintAssumption DEF SaintInv, TypeOK, Recorded
<1>2. CASE Matches(s, d, now) # {}
  BY <1>1, <1>2 DEF Matches, Lasting
<1>3. CASE Matches(s, d, now) = {}
  <2>1. \A tr \in R : tr.timeout >= now
    BY <1>1, <1>3 DEF Pruned, Trouble
  <2>2. R \subseteq L
    BY <1>1, <2>1 DEF Lasting
  <2>3. L \subseteq blacklisted[Be[s]]
    BY DEF Lasting
  <2>4. /\ Cardinality(R) <= Cardinality(L)
        /\ Cardinality(L) \in Nat /\ Cardinality(R) \in Nat
    <3>1. IsFiniteSet(L)
      BY <1>1, <2>3, Subset
    <3> QED
      BY <2>2, <3>1, Subset
  <2>5. Cardinality(R) >= Threshold[s]
    <3>1. ~(n_trouble[s] - Cardinality(Pruned(s, d, now)) < Threshold[s])
      BY <1>3 DEF Verdict
    <3> QED
      BY <1>1, <3>1, <2>4, ScanCount
  <2> QED
    BY <1>1, <2>4, <2>5
<1> QED
  BY <1>2, <1>3

-----------------------------------------------------------------------------
\* The invariant holds initially.
LEMMA InitInv == Init => SaintInv
  BY SaintAssumption, FS_EmptySet
     DEF Init, SaintInv, TypeOK, TaskType, Idle, CountExact, Recorded, InStep, Kept,
         Cleared

\* A scan keeps what the invariant says of the lists.
LEMMA ScanInv ==
  ASSUME SaintInv, NEW s \in objs, NEW d, NEW now \in Nat, now <= clock,
         is_digest_healthy(s, d, now),
         UNCHANGED <<vcl, up, clock, nr, blacklisted>>
  PROVE  /\ troublelist' \in [Sm -> SUBSET Trouble] /\ n_trouble' \in [Sm -> Nat]
         /\ CountExact' /\ Recorded' /\ Kept'
<1>1. /\ s \in Sm /\ troublelist \in [Sm -> SUBSET Trouble] /\ n_trouble \in [Sm -> Nat]
      /\ clock \in Nat /\ objs \subseteq Sm
      /\ \A r \in objs : Be[r] \in Backend /\ blacklisted[Be[r]] \subseteq Trouble
  BY SaintAssumption DEF SaintInv, TypeOK
<1>2. /\ troublelist' = [troublelist EXCEPT ![s] = @ \ Pruned(s, d, now)]
      /\ n_trouble' = [n_trouble EXCEPT ![s] = @ - Cardinality(Pruned(s, d, now))]
      /\ objs' = objs /\ blacklisted' = blacklisted /\ clock' = clock /\ nr' = nr
  BY DEF is_digest_healthy
<1>3. troublelist' \in [Sm -> SUBSET Trouble] /\ n_trouble' \in [Sm -> Nat]
  BY <1>1, <1>2, ScanCount
<1>4. CountExact'
  BY <1>1, <1>2, ScanCount DEF SaintInv, CountExact
<1>5. Recorded'
  BY <1>1, <1>2 DEF SaintInv, Recorded
<1>6. Kept'
  <2> SUFFICES ASSUME OwnBackend, NEW r \in objs, NEW tr \in Lasting(Be[r], clock)
               PROVE  tr \in troublelist'[r]
    BY <1>2 DEF Kept, Lasting
  <2>1. tr \in troublelist[r]
    BY DEF SaintInv, Kept
  <2>2. ~(tr.timeout < now)
    BY <1>1 DEF Lasting, Trouble
  <2> QED
    BY <1>1, <1>2, <2>1, <2>2 DEF Pruned
<1> QED
  BY <1>3, <1>4, <1>5, <1>6

-----------------------------------------------------------------------------
\* A task that goes where the invariant says nothing of what it knows: Start,
\* the end of healthy, Respond, Retry, Finish.
LEMMA TaskMoveInv ==
  ASSUME SaintInv, NEW t \in Task, NEW new \in TaskType,
         task' = [task EXCEPT ![t] = new],
         new.pc \notin {"digest", "backend"}, new.t_prev <= clock,
         new.pc # "idle" => vcl = "warm",
         new.pc \notin {"idle", "ready"} => new.sm \in Sm,
         new.pc = "response" => new.digest # NULL,
         UNCHANGED <<vcl, module, up, clock, nr, blacklisted>>
  PROVE  SaintInv'
<1>1. /\ task \in [Task -> TaskType]
      /\ \A u \in Task : task'[u] = IF u = t THEN new ELSE task[u]
  BY DEF SaintInv, TypeOK
<1>2. TypeOK' /\ CountExact' /\ Recorded' /\ Kept'
  BY <1>1 DEF SaintInv, TypeOK, CountExact, Recorded, Kept, Lasting, module
<1>3. InStep'
  BY <1>1 DEF SaintInv, InStep, module
<1>4. Cleared'
  BY <1>1 DEF SaintInv, Cleared, Clear, Held
<1> QED
  BY <1>2, <1>3, <1>4 DEF SaintInv

\* The type of a task, field by field.
LEMMA TaskFields ==
  ASSUME SaintInv, NEW t \in Task
  PROVE  /\ task[t] \in TaskType /\ task[t].t_prev \in Nat /\ task[t].t_prev <= clock
         /\ task[t].digest \in Digest \cup {NULL} /\ clock \in Nat
         /\ task[t].pc # "idle" => vcl = "warm" /\ objs = Sm
         /\ task[t].pc \notin {"idle", "ready"} => task[t].sm \in Sm
         /\ task[t].pc = "response" => task[t].digest # NULL
  BY DEF SaintInv, TypeOK, TaskType, InStep

\* The steps of varnishd on behalf of a task, and the last one of healthy.
LEMMA TaskInv ==
  ASSUME SaintInv, NEW t \in Task,
         \/ \E d \in Digest \cup {NULL} : Start(t, d)
         \/ healthy_backend(t) \/ Respond(t) \/ Retry(t) \/ Finish(t)
  PROVE  SaintInv'
<1>0. /\ task[t] \in TaskType /\ task[t].t_prev \in Nat /\ task[t].t_prev <= clock
      /\ task[t].digest \in Digest \cup {NULL} /\ clock \in Nat
      /\ task[t].pc # "idle" => vcl = "warm" /\ objs = Sm
      /\ task[t].pc \notin {"idle", "ready"} => task[t].sm \in Sm
  BY TaskFields
<1>1. ASSUME NEW d \in Digest \cup {NULL}, Start(t, d) PROVE SaintInv'
  <2> DEFINE new == [Idle EXCEPT !.pc = "ready", !.digest = d, !.t_prev = clock]
  <2>1. new \in TaskType /\ new.pc = "ready" /\ new.t_prev <= clock
    <3>1. Idle \in TaskType
      BY DEF Idle, TaskType
    <3>2. new \in TaskType
      BY <1>0, <3>1 DEF TaskType
    <3>3. new.pc = "ready" /\ new.t_prev = clock
      BY <3>1 DEF TaskType
    <3> QED
      BY <1>0, <3>2, <3>3
  <2>2. /\ task' = [task EXCEPT ![t] = new] /\ vcl = "warm"
        /\ UNCHANGED <<vcl, module, up, clock, nr, blacklisted>>
    BY <1>1 DEF Start
  <2> HIDE DEF new
  <2> QED
    BY <1>0, <2>1, <2>2, TaskMoveInv
<1>2. CASE healthy_backend(t)
  <2> DEFINE new == [task[t] EXCEPT !.pc = IF Be[task[t].sm] \in up THEN "healthy" ELSE "sick"]
  <2>1. /\ new \in TaskType /\ new.pc \in {"healthy", "sick"} /\ new.t_prev <= clock
        /\ new.sm \in Sm /\ vcl = "warm"
    BY <1>0, <1>2 DEF TaskType, healthy_backend
  <2>2. /\ task' = [task EXCEPT ![t] = new]
        /\ UNCHANGED <<vcl, module, up, clock, nr, blacklisted>>
    BY <1>2 DEF healthy_backend
  <2> HIDE DEF new
  <2> QED
    BY <2>1, <2>2, TaskMoveInv
<1>3. CASE Respond(t)
  <2> DEFINE new == [task[t] EXCEPT !.pc = "response", !.t_prev = clock]
  <2>0. task[t].pc = "healthy" /\ task[t].digest # NULL
    BY <1>3 DEF Respond
  <2>1. /\ new \in TaskType /\ new.pc = "response" /\ new.t_prev <= clock
        /\ new.sm \in Sm /\ new.digest # NULL /\ vcl = "warm"
    <3>1. new \in TaskType
      BY <1>0 DEF TaskType
    <3>2. /\ new.pc = "response" /\ new.t_prev = clock
          /\ new.sm = task[t].sm /\ new.digest = task[t].digest
      BY <1>0 DEF TaskType
    <3> QED
      BY <1>0, <2>0, <3>1, <3>2
  <2>2. /\ task' = [task EXCEPT ![t] = new]
        /\ UNCHANGED <<vcl, module, up, clock, nr, blacklisted>>
    BY <1>3 DEF Respond
  <2> HIDE DEF new
  <2> QED
    BY <2>1, <2>2, TaskMoveInv
<1>4. CASE Retry(t)
  <2>1. PICK now \in {task[t].t_prev, clock} :
          task' = [task EXCEPT ![t].pc = "ready", ![t].t_prev = now]
    BY <1>4 DEF Retry
  <2> DEFINE new == [task[t] EXCEPT !.pc = "ready", !.t_prev = now]
  <2>2. new \in TaskType /\ new.pc = "ready" /\ new.t_prev <= clock /\ vcl = "warm"
    <3>1. new \in TaskType
      BY <1>0 DEF TaskType
    <3>2. new.pc = "ready" /\ new.t_prev = now /\ now <= clock
      BY <1>0 DEF TaskType
    <3>3. vcl = "warm"
      BY <1>0, <1>4 DEF Retry
    <3> QED
      BY <3>1, <3>2, <3>3
  <2>3. /\ task' = [task EXCEPT ![t] = new]
        /\ UNCHANGED <<vcl, module, up, clock, nr, blacklisted>>
    BY <1>4, <2>1 DEF Retry
  <2> HIDE DEF new
  <2> QED
    BY <2>2, <2>3, TaskMoveInv
<1>5. CASE Finish(t)
  <2>1. Idle \in TaskType /\ Idle.pc = "idle" /\ Idle.t_prev <= clock
    BY <1>0 DEF Idle, TaskType
  <2>2. /\ task' = [task EXCEPT ![t] = Idle]
        /\ UNCHANGED <<vcl, module, up, clock, nr, blacklisted>>
    BY <1>5 DEF Finish
  <2> QED
    BY <2>1, <2>2, TaskMoveInv
<1> QED
  BY <1>1, <1>2, <1>3, <1>4, <1>5

\* The unlocked test of healthy: a counter of zero means that there is nothing
\* to find, now and for what the task has to know of.
LEMMA UnlockedInv ==
  ASSUME SaintInv, NEW t \in Task, NEW s \in Sm, healthy(t, s)
  PROVE  SaintInv'
<1>0. /\ task[t] \in TaskType /\ task[t].t_prev \in Nat /\ task[t].t_prev <= clock
      /\ task[t].digest \in Digest \cup {NULL} /\ clock \in Nat
      /\ vcl = "warm" /\ objs = Sm
  BY TaskFields DEF healthy
<1> DEFINE skip == Threshold[s] = 0 \/ n_trouble[s] = 0
           new == [task[t] EXCEPT
                     !.pc = IF skip THEN "backend" ELSE "digest",
                     !.t_prev = IF task[t].digest = NULL THEN clock ELSE @,
                     !.sm = s, !.known = blacklisted[Be[s]]]
<1>1. /\ Be[s] \in Backend /\ Threshold[s] \in Nat /\ n_trouble[s] \in Nat
      /\ blacklisted[Be[s]] \in SUBSET Trouble
  BY SaintAssumption DEF SaintInv, TypeOK
<1>2. /\ new.pc = IF skip THEN "backend" ELSE "digest"
      /\ new.t_prev = IF task[t].digest = NULL THEN clock ELSE task[t].t_prev
      /\ new.sm = s /\ new.known = blacklisted[Be[s]] /\ new.digest = task[t].digest
  BY <1>0 DEF TaskType
<1>3. new \in TaskType /\ new.t_prev <= clock
  <2>1. new \in TaskType
    BY <1>0, <1>1 DEF TaskType
  <2> QED
    BY <1>0, <1>2, <2>1
<1>4. /\ task' = [task EXCEPT ![t] = new]
      /\ UNCHANGED <<vcl, module, up, clock, nr, blacklisted>>
  BY DEF healthy
<1> HIDE DEF new
<1>5. /\ task \in [Task -> TaskType]
      /\ \A u \in Task : task'[u] = IF u = t THEN new ELSE task[u]
  BY <1>4 DEF SaintInv, TypeOK
<1>6. TypeOK' /\ CountExact' /\ Recorded' /\ Kept'
  BY <1>3, <1>4, <1>5 DEF SaintInv, TypeOK, CountExact, Recorded, Kept, Lasting, module
<1>7. InStep'
  BY <1>0, <1>2, <1>4, <1>5 DEF SaintInv, InStep, module
<1>8. Cleared'
  <2> SUFFICES ASSUME OwnBackend, skip, Threshold[s] > 0
               PROVE  /\ \A tr \in blacklisted[Be[s]] :
                            tr.timeout >= clock => tr.digest # task[t].digest
                      /\ Cardinality({tr \in blacklisted[Be[s]] : tr.timeout >= clock})
                           < Threshold[s]
    BY <1>2, <1>4, <1>5 DEF SaintInv, Cleared, Clear, Held
  <2>1. n_trouble[s] = 0
    BY <1>1
  <2>2. IsFiniteSet(troublelist[s])
    BY <1>0, <1>1, Subset DEF SaintInv, Recorded
  <2>3. troublelist[s] = {}
    BY <1>0, <2>1, <2>2, FS_EmptySet DEF SaintInv, CountExact
  <2>4. {tr \in blacklisted[Be[s]] : tr.timeout >= clock} = {}
    BY <1>0, <2>3 DEF SaintInv, Kept, Lasting
  <2> QED
    BY <1>1, <2>4, FS_EmptySet
<1> QED
  BY <1>6, <1>7, <1>8 DEF SaintInv

\* The scan of a task.
LEMMA DigestInv ==
  ASSUME SaintInv, NEW t \in Task, healthy_digest(t)
  PROVE  SaintInv'
<1> DEFINE s == task[t].sm
           d == task[t].digest
           now == task[t].t_prev
           new == [task[t] EXCEPT !.pc = IF Verdict(s, d, now) THEN "backend" ELSE "sick"]
<1>0. /\ task[t] \in TaskType /\ now \in Nat /\ now <= clock
      /\ clock \in Nat /\ vcl = "warm" /\ objs = Sm /\ s \in Sm
  BY TaskFields DEF healthy_digest
<1>1. /\ new.pc = IF Verdict(s, d, now) THEN "backend" ELSE "sick"
      /\ new.t_prev = now /\ new.sm = s /\ new.digest = d /\ new.known = task[t].known
      /\ new \in TaskType
  BY <1>0 DEF TaskType
<1>2. /\ task' = [task EXCEPT ![t] = new] /\ is_digest_healthy(s, d, now)
      /\ UNCHANGED <<vcl, up, clock, nr, blacklisted>> /\ UNCHANGED <<sm_list, objs>>
  BY DEF healthy_digest, is_digest_healthy
<1> HIDE DEF new
<1>3. /\ task \in [Task -> TaskType]
      /\ \A u \in Task : task'[u] = IF u = t THEN new ELSE task[u]
  BY <1>2 DEF SaintInv, TypeOK
<1>4. /\ troublelist' \in [Sm -> SUBSET Trouble] /\ n_trouble' \in [Sm -> Nat]
      /\ CountExact' /\ Recorded' /\ Kept'
  BY <1>0, <1>2, ScanInv
<1>5. TypeOK'
  BY <1>0, <1>1, <1>2, <1>3, <1>4 DEF SaintInv, TypeOK
<1>6. InStep'
  BY <1>0, <1>1, <1>2, <1>3 DEF SaintInv, InStep
<1>7. Cleared'
  <2>1. task[t].known \subseteq blacklisted[Be[s]]
    BY DEF healthy_digest, SaintInv, Cleared
  <2>2. ASSUME OwnBackend, Verdict(s, d, now)
        PROVE  /\ \A tr \in Held(t) : tr.digest # d
               /\ Cardinality(Held(t)) < Threshold[s]
    <3>1. /\ \A tr \in Lasting(Be[s], clock) : tr.digest # d
          /\ Cardinality(Lasting(Be[s], clock)) < Threshold[s]
      BY <1>0, <2>2, HealthyVerdict
    <3>2. Held(t) \subseteq Lasting(Be[s], clock)
      BY <2>1 DEF Held, Lasting
    <3>3. IsFiniteSet(Lasting(Be[s], clock)) /\ Threshold[s] \in Nat
      <4>1. IsFiniteSet(blacklisted[Be[s]]) /\ Threshold[s] \in Nat
        BY <1>0, SaintAssumption DEF SaintInv, Recorded
      <4> QED
        BY <4>1, Subset DEF Lasting
    <3> QED
      BY <3>1, <3>2, <3>3, Subset
  <2>3. \A u \in Task : u # t => (Clear(u) <=> Clear(u)')
    BY <1>2, <1>3 DEF Clear, Held
  <2>4. new.pc = "backend" /\ OwnBackend => Clear(t)'
    BY <1>1, <1>2, <1>3, <2>2 DEF Clear, Held
  <2> QED
    BY <1>1, <1>2, <1>3, <2>1, <2>3, <2>4 DEF SaintInv, Cleared
<1> QED
  BY <1>4, <1>5, <1>6, <1>7 DEF SaintInv

\* is_healthy of a client.
LEMMA ClientInv ==
  ASSUME SaintInv, NEW s \in Sm, NEW d, NEW now \in Nat, is_healthy(s, d, now)
  PROVE  SaintInv'
<1>1. /\ vcl = "warm" /\ now <= clock /\ is_digest_healthy(s, d, now) /\ objs = Sm
      /\ UNCHANGED <<vcl, task, up, clock, nr, blacklisted>> /\ UNCHANGED <<sm_list, objs>>
  BY DEF is_healthy, is_digest_healthy, SaintInv, InStep
<1>2. /\ troublelist' \in [Sm -> SUBSET Trouble] /\ n_trouble' \in [Sm -> Nat]
      /\ CountExact' /\ Recorded' /\ Kept'
  BY <1>1, ScanInv
<1>3. TypeOK'
  BY <1>1, <1>2 DEF SaintInv, TypeOK
<1>4. InStep'
  BY <1>1 DEF SaintInv, InStep
<1>5. Cleared'
  BY <1>1 DEF SaintInv, Cleared, Clear, Held
<1> QED
  BY <1>2, <1>3, <1>4, <1>5 DEF SaintInv

\* blacklist: the entry is new, so the counter stays exact, and it is put on
\* the list of the only object that stands for the backend.
LEMMA BlacklistInv ==
  ASSUME SaintInv, NEW t \in Task, NEW expires \in Expires, blacklist(t, expires)
  PROVE  SaintInv'
<1> DEFINE b == Be[task[t].sm]
           tp == [nr |-> nr, digest |-> task[t].digest,
                  timeout |-> task[t].t_prev + expires]
<1>0. /\ task[t].t_prev \in Nat /\ task[t].digest \in Digest /\ clock \in Nat
      /\ vcl = "warm" /\ objs = Sm /\ b \in Backend /\ nr \in Nat /\ nr' = nr + 1
      /\ UNCHANGED <<vcl, sm_list, objs, task, up, clock>>
  BY TaskFields, SaintAssumption DEF blacklist, SaintInv, TypeOK
<1>1. tp \in Trouble /\ tp.nr = nr
  BY <1>0, SaintAssumption DEF Trouble
<1>2. PICK s \in Sm :
        /\ Be[s] = b
        /\ troublelist' = [troublelist EXCEPT ![s] = @ \cup {tp}]
        /\ n_trouble' = [n_trouble EXCEPT ![s] = @ + 1]
        /\ blacklisted' = [blacklisted EXCEPT ![b] = @ \cup {tp}]
  BY DEF blacklist, find_sm
<1> HIDE DEF b, tp
<1>3. /\ troublelist \in [Sm -> SUBSET Trouble] /\ n_trouble \in [Sm -> Nat]
      /\ blacklisted \in [Backend -> SUBSET Trouble]
      /\ \A r \in Sm : Be[r] \in Backend
      /\ \A c \in Backend : blacklisted'[c] =
           IF c = b THEN blacklisted[c] \cup {tp} ELSE blacklisted[c]
  BY <1>0, <1>2, SaintAssumption DEF SaintInv, TypeOK
<1>4. TypeOK'
  BY <1>0, <1>1, <1>2, <1>3 DEF SaintInv, TypeOK
<1>5. tp \notin blacklisted[b]
  <2>1. \A tr \in blacklisted[b] : tr.nr < nr /\ tr.nr \in Nat
    BY <1>0, <1>3 DEF SaintInv, Recorded, Trouble
  <2> QED
    BY <1>0, <1>1, <2>1
<1>6. CountExact'
  <2>1. IsFiniteSet(troublelist[s]) /\ tp \notin troublelist[s]
    BY <1>0, <1>2, <1>5, Subset DEF SaintInv, Recorded
  <2>2. Cardinality(troublelist[s] \cup {tp}) = Cardinality(troublelist[s]) + 1
    BY <2>1, FS_AddElement
  <2> QED
    BY <1>0, <1>2, <1>3, <2>2 DEF SaintInv, CountExact
<1>7. Recorded'
  <2>1. \A c \in Backend : IsFiniteSet(blacklisted'[c])
    <3> TAKE c \in Backend
    <3>1. IsFiniteSet(blacklisted[c])
      BY DEF SaintInv, Recorded
    <3>2. IsFiniteSet(blacklisted[c] \cup {tp})
      BY <3>1, FS_AddElement
    <3> QED
      BY <1>3, <3>1, <3>2
  <2>2. \A c \in Backend : \A tr \in blacklisted'[c] : tr.nr < nr'
    <3> SUFFICES ASSUME NEW c \in Backend, NEW tr \in blacklisted'[c] PROVE tr.nr < nr'
      OBVIOUS
    <3>1. CASE tr \in blacklisted[c]
      <4>1. tr.nr \in Nat /\ tr.nr < nr
        BY <1>3, <3>1 DEF SaintInv, Recorded, Trouble
      <4> QED
        BY <1>0, <4>1
    <3>2. CASE tr = tp
      BY <1>0, <1>1, <3>2
    <3> QED
      BY <1>3, <3>1, <3>2
  <2>3. \A r \in objs' : troublelist'[r] \subseteq blacklisted'[Be[r]]
    BY <1>0, <1>2, <1>3 DEF SaintInv, Recorded
  <2> QED
    BY <2>1, <2>2, <2>3 DEF Recorded
<1>8. InStep'
  BY <1>0 DEF SaintInv, InStep
<1>9. Kept'
  <2> SUFFICES ASSUME OwnBackend, NEW r \in Sm, NEW tr \in blacklisted'[Be[r]],
                      tr.timeout >= clock
               PROVE  tr \in troublelist'[r]
    BY <1>0 DEF Kept, Lasting
  <2>1. CASE tr \in blacklisted[Be[r]]
    BY <1>0, <1>2, <1>3, <2>1 DEF SaintInv, Kept, Lasting
  <2>2. CASE tr = tp /\ Be[r] = b
    <3>1. r = s
      BY <1>2, <2>2 DEF OwnBackend
    <3> QED
      BY <1>2, <1>3, <2>2, <3>1
  <2> QED
    BY <1>3, <2>1, <2>2
<1>10. Cleared'
  <2>1. \A u \in Task : task'[u] = task[u] /\ (Clear(u) <=> Clear(u)')
    BY <1>0 DEF Clear, Held
  <2>2. \A c \in Backend : blacklisted[c] \subseteq blacklisted'[c]
    BY <1>3
  <2>3. \A u \in Task : task[u].pc \in {"digest", "backend"} => Be[task[u].sm] \in Backend
    BY <1>3 DEF SaintInv, InStep
  <2> QED
    BY <2>1, <2>2, <2>3 DEF SaintInv, Cleared
<1> QED
  BY <1>4, <1>6, <1>7, <1>8, <1>9, <1>10 DEF SaintInv

\* The steps of the VCL, of the probes and of time.
LEMMA VclInv ==
  ASSUME SaintInv,
         \/ \E s \in Sm : saintmode_init(s) \/ saintmode_fini(s)
         \/ \E b \in Backend : Probe(b)
         \/ VclStep \/ Tick
  PROVE  SaintInv'
<1>0. /\ sm_list \in Seq(Sm) /\ objs \subseteq Sm
      /\ troublelist \in [Sm -> SUBSET Trouble] /\ n_trouble \in [Sm -> Nat]
      /\ \A s \in Sm : Be[s] \in Backend
      /\ blacklisted \in [Backend -> SUBSET Trouble]
  BY SaintAssumption DEF SaintInv, TypeOK
<1>1. ASSUME NEW s \in Sm, saintmode_init(s) PROVE SaintInv'
  <2>1. /\ vcl = "init" /\ objs' = objs \cup {s} /\ sm_list' \in Seq(Sm)
        /\ troublelist' = [troublelist EXCEPT ![s] = {}]
        /\ n_trouble' = [n_trouble EXCEPT ![s] = 0]
        /\ UNCHANGED <<vcl, task, up, clock, nr, blacklisted>>
    BY <1>0, <1>1 DEF saintmode_init
  <2>2. \A b \in Backend : blacklisted[b] = {}
    BY <2>1 DEF SaintInv, InStep
  <2>3. TypeOK'
    BY <1>0, <2>1 DEF SaintInv, TypeOK
  <2>4. CountExact' /\ Recorded'
    BY <1>0, <2>1, FS_EmptySet DEF SaintInv, CountExact, Recorded
  <2>5. InStep'
    BY <2>1 DEF SaintInv, InStep
  <2>6. Kept'
    BY <1>0, <2>1, <2>2 DEF Kept, Lasting
  <2>7. Cleared'
    BY <2>1 DEF SaintInv, Cleared, Clear, Held
  <2> QED
    BY <2>3, <2>4, <2>5, <2>6, <2>7 DEF SaintInv
<1>2. ASSUME NEW s \in Sm, saintmode_fini(s) PROVE SaintInv'
  <2>1. /\ vcl = "fini" /\ objs' = objs \ {s}
        /\ troublelist' = [troublelist EXCEPT ![s] = {}]
        /\ UNCHANGED <<vcl, sm_list, n_trouble, task, up, clock, nr, blacklisted>>
    BY <1>2 DEF saintmode_fini
  <2>2. TypeOK'
    BY <1>0, <2>1 DEF SaintInv, TypeOK
  <2>3. CountExact' /\ Recorded' /\ Kept'
    BY <1>0, <2>1 DEF SaintInv, CountExact, Recorded, Kept, Lasting
  <2>4. InStep'
    BY <2>1 DEF SaintInv, InStep
  <2>5. Cleared'
    BY <2>1 DEF SaintInv, Cleared, Clear, Held
  <2> QED
    BY <2>2, <2>3, <2>4, <2>5 DEF SaintInv
<1>3. CASE VclStep
  <2>1. /\ vcl' \in {"init", "warm", "fini"}
        /\ vcl' = "warm" => objs = Sm
        /\ \A t \in Task : task[t].pc = "idle" \/ vcl' = "warm"
        /\ vcl' = "init" => \A b \in Backend : blacklisted'[b] = {}
        /\ sm_list' \in Seq(Sm)
        /\ \/ blacklisted' = blacklisted
           \/ /\ objs = {} /\ blacklisted' = [b \in Backend |-> {}]
              /\ \A t \in Task : task[t].pc = "idle"
        /\ UNCHANGED <<objs, troublelist, n_trouble, task, up, clock, nr>>
    <3>1. \A t \in Task : task[t].pc = "idle" \/ vcl = "warm"
      BY DEF SaintInv, InStep
    <3>2. CASE vcl = "init" /\ objs = Sm /\ vcl' = "warm" /\ UNCHANGED <<sm_list, blacklisted>>
      BY <1>0, <1>3, <3>1, <3>2 DEF VclStep
    <3>3. CASE /\ vcl = "warm" /\ \A t \in Task : task[t].pc = "idle"
               /\ vcl' = "fini" /\ UNCHANGED <<sm_list, blacklisted>>
      BY <1>0, <1>3, <3>3 DEF VclStep
    <3>4. CASE /\ vcl = "fini" /\ objs = {} /\ vcl' = "init" /\ sm_list' = <<>>
               /\ blacklisted' = [b \in Backend |-> {}]
      BY <1>0, <1>3, <3>1, <3>4 DEF VclStep
    <3> QED
      BY <1>3, <3>2, <3>3, <3>4 DEF VclStep
  <2>2. TypeOK'
    BY <1>0, <2>1 DEF SaintInv, TypeOK
  <2>3. CountExact' /\ Recorded' /\ Kept'
    BY <1>0, <2>1, FS_EmptySet DEF SaintInv, CountExact, Recorded, Kept, Lasting
  <2>4. InStep'
    BY <2>1 DEF SaintInv, InStep
  <2>5. Cleared'
    <3>1. CASE blacklisted' = blacklisted
      <4>1. task' = task /\ clock' = clock /\ Cleared
        BY <2>1 DEF SaintInv
      <4> QED
        BY <3>1, <4>1 DEF Cleared, Clear, Held
    <3>2. CASE \A t \in Task : task[t].pc = "idle"
      BY <2>1, <3>2 DEF Cleared
    <3> QED
      BY <2>1, <3>1, <3>2
  <2> QED
    BY <2>2, <2>3, <2>4, <2>5 DEF SaintInv
<1>4. ASSUME NEW b \in Backend, Probe(b) PROVE SaintInv'
  <2>1. /\ up' \subseteq Backend
        /\ UNCHANGED <<vcl, sm_list, objs, troublelist, n_trouble, task, clock, nr,
                       blacklisted>>
    BY <1>4 DEF Probe, SaintInv, TypeOK, module
  <2>2. TypeOK'
    BY <2>1 DEF SaintInv, TypeOK
  <2>3. CountExact' /\ Recorded' /\ Kept' /\ InStep'
    BY <2>1 DEF SaintInv, CountExact, Recorded, Kept, Lasting, InStep
  <2>4. Cleared'
    BY <2>1 DEF SaintInv, Cleared, Clear, Held
  <2> QED
    BY <2>2, <2>3, <2>4 DEF SaintInv
<1>5. CASE Tick
  <2>1. /\ clock \in Nat /\ clock' = clock + 1
        /\ UNCHANGED <<vcl, sm_list, objs, troublelist, n_trouble, task, up, nr,
                       blacklisted>>
    BY <1>5 DEF Tick, SaintInv, TypeOK, module
  <2>2. TypeOK'
    <3>1. \A t \in Task : task[t].t_prev \in Nat /\ task[t].t_prev <= clock
      BY DEF SaintInv, TypeOK, TaskType
    <3> QED
      BY <2>1, <3>1 DEF SaintInv, TypeOK
  <2>3. CountExact' /\ Recorded' /\ InStep'
    BY <2>1 DEF SaintInv, CountExact, Recorded, InStep
  <2>4. Kept'
    BY <1>0, <2>1 DEF SaintInv, Kept, Lasting, Trouble
  <2>5. Cleared'
    <3> SUFFICES ASSUME NEW t \in Task, task[t].pc = "backend", Clear(t),
                        task[t].known \subseteq blacklisted[Be[task[t].sm]]
                 PROVE  Clear(t)'
      BY <2>1 DEF SaintInv, Cleared
    <3>1. task[t].sm \in Sm /\ Threshold[task[t].sm] \in Nat /\ task[t].known \subseteq Trouble
      BY SaintAssumption DEF SaintInv, InStep, TypeOK, TaskType
    <3>2. Held(t)' \subseteq Held(t)
      BY <2>1, <3>1 DEF Held, Trouble
    <3>3. IsFiniteSet(Held(t))
      <4>1. IsFiniteSet(blacklisted[Be[task[t].sm]])
        BY <1>0, <3>1 DEF SaintInv, Recorded
      <4> QED
        BY <4>1, Subset DEF Held
    <3>4. /\ Cardinality(Held(t)') <= Cardinality(Held(t))
          /\ Cardinality(Held(t)') \in Nat /\ Cardinality(Held(t)) \in Nat
      BY <3>2, <3>3, Subset
    <3> QED
      BY <2>1, <3>1, <3>2, <3>4 DEF Clear
  <2> QED
    BY <2>2, <2>3, <2>4, <2>5 DEF SaintInv
<1> QED
  BY <1>1, <1>2, <1>3, <1>4, <1>5

\* Every step keeps the invariant.
LEMMA NextInv == SaintInv /\ [Next]_vars => SaintInv'
<1> SUFFICES ASSUME SaintInv, [Next]_vars PROVE SaintInv'
  OBVIOUS
<1>1. ASSUME NEW t \in Task,
             \/ \E d \in Digest \cup {NULL} : Start(t, d)
             \/ healthy_backend(t) \/ Respond(t) \/ Retry(t) \/ Finish(t)
      PROVE  SaintInv'
  BY <1>1, TaskInv
<1>2. ASSUME NEW t \in Task, NEW s \in Sm, healthy(t, s) PROVE SaintInv'
  BY <1>2, UnlockedInv
<1>3. ASSUME NEW t \in Task, healthy_digest(t) PROVE SaintInv'
  BY <1>3, DigestInv
<1>4. ASSUME NEW t \in Task, NEW expires \in Expires, blacklist(t, expires)
      PROVE  SaintInv'
  BY <1>4, BlacklistInv
<1>5. ASSUME NEW s \in Sm, NEW d \in Digest \cup {NULL}, NEW now \in 0..MaxTime,
             is_healthy(s, d, now)
      PROVE  SaintInv'
  BY <1>5, ClientInv, SaintAssumption
<1>6. CASE \/ \E s \in Sm : saintmode_init(s) \/ saintmode_fini(s)
           \/ \E b \in Backend : Probe(b)
           \/ VclStep \/ Tick
  BY <1>6, VclInv
<1>7. CASE UNCHANGED vars
  <2>1. UNCHANGED <<vcl, sm_list, objs, troublelist, n_trouble, task, up, clock, nr,
                    blacklisted>>
    BY <1>7 DEF vars, module
  <2>2. TypeOK' /\ CountExact' /\ Recorded' /\ InStep' /\ Kept'
    BY <2>1 DEF SaintInv, TypeOK, CountExact, Recorded, InStep, Kept, Lasting
  <2>3. Cleared'
    BY <2>1 DEF SaintInv, Cleared, Clear, Held
  <2> QED
    BY <2>2, <2>3 DEF SaintInv
<1> QED
  BY <1>1, <1>2, <1>3, <1>4, <1>5, <1>6, <1>7 DEF Next

\* The counter of the blacklist is its length, whatever is blacklisted, pruned
\* or finalised, and the unlocked test of healthy can rely on it.
THEOREM SaintCountExact == Spec => [](TypeOK /\ CountExact)
<1>1. SaintInv => TypeOK /\ CountExact
  BY DEF SaintInv
<1> QED
  BY <1>1, InitInv, NextInv, PTL DEF Spec

\* The blacklists, the list of objects and the tasks of vmod_saintmode.c keep
\* their types.
THEOREM SaintType == Spec => []TypeOK
  BY SaintCountExact, PTL

\* If every object has a backend of its own, the verdict of is_digest_healthy
\* follows from what the backend was blacklisted for and for how long.
THEOREM SaintVerdictJustified == OwnBackend => (Spec => []VerdictJustified)
<1> SUFFICES ASSUME OwnBackend PROVE Spec => []VerdictJustified
  OBVIOUS
<1>1. SaintInv => VerdictJustified
  <2> SUFFICES ASSUME SaintInv, NEW s \in objs, NEW d \in Digest \cup {NULL},
                      NEW now \in 0..clock
               PROVE  IF Verdict(s, d, now)
                      THEN /\ \A tr \in Lasting(Be[s], clock) : tr.digest # d
                           /\ Cardinality(Lasting(Be[s], clock)) < Threshold[s]
                      ELSE \/ \E tr \in Lasting(Be[s], now) : tr.digest = d
                           \/ Cardinality(Lasting(Be[s], now)) >= Threshold[s]
    BY DEF VerdictJustified
  <2>1. now \in Nat /\ now <= clock
    BY DEF SaintInv, TypeOK
  <2>2. CASE Verdict(s, d, now)
    BY <2>1, <2>2, HealthyVerdict
  <2>3. CASE ~Verdict(s, d, now)
    BY <2>1, <2>3, SickVerdict
  <2> QED
    BY <2>2, <2>3
<1> QED
  BY <1>1, InitInv, NextInv, PTL DEF Spec

\* If every object has a backend of its own, no fetch gets a backend that it
\* should know to be sick for its object, or for all.
THEOREM SaintSickAvoided == OwnBackend => (Spec => SickAvoided)
<1> SUFFICES ASSUME OwnBackend PROVE Spec => SickAvoided
  OBVIOUS
<1> DEFINE Avoids ==
      \A t \in Task :
        task[t].pc # "healthy" /\ task'[t].pc = "healthy" =>
          LET lasting == {tr \in task[t].known : tr.timeout >= clock}
              s == task[t].sm
          IN Threshold[s] > 0 =>
               /\ \A tr \in lasting : tr.digest # task[t].digest
               /\ Cardinality(lasting) < Threshold[s]
<1>1. SaintInv /\ [Next]_vars => [Avoids]_vars
  <2> SUFFICES ASSUME SaintInv, Next, NEW t \in Task,
                      task[t].pc # "healthy", task'[t].pc = "healthy"
               PROVE  task[t].pc = "backend"
    BY DEF SaintInv, Cleared, Clear, Held
  <2>1. task \in [Task -> TaskType]
    BY DEF SaintInv, TypeOK
  <2>2. ASSUME NEW u \in Task,
               \/ \E d \in Digest \cup {NULL} : Start(u, d)
               \/ \E s \in Sm : healthy(u, s)
               \/ healthy_digest(u) \/ Respond(u) \/ Retry(u) \/ Finish(u)
        PROVE  FALSE
    <3>1. \E new : new.pc # "healthy" /\ task' = [task EXCEPT ![u] = new]
      <4>1. ASSUME NEW d \in Digest \cup {NULL}, Start(u, d)
            PROVE  \E new : new.pc # "healthy" /\ task' = [task EXCEPT ![u] = new]
        <5> DEFINE new == [Idle EXCEPT !.pc = "ready", !.digest = d, !.t_prev = clock]
        <5>1. task' = [task EXCEPT ![u] = new]
          BY <4>1 DEF Start
        <5>2. new.pc = "ready"
          BY DEF Idle
        <5> QED
          BY <5>1, <5>2
      <4>2. ASSUME NEW s \in Sm, healthy(u, s)
            PROVE  \E new : new.pc # "healthy" /\ task' = [task EXCEPT ![u] = new]
        BY <2>1, <4>2 DEF healthy, TaskType
      <4>3. CASE healthy_digest(u)
        BY <2>1, <4>3 DEF healthy_digest, TaskType
      <4>4. CASE Respond(u)
        BY <2>1, <4>4 DEF Respond, TaskType
      <4>5. CASE Retry(u)
        BY <2>1, <4>5 DEF Retry, TaskType
      <4>6. CASE Finish(u)
        BY <4>6 DEF Finish, Idle
      <4> QED
        BY <2>2, <4>1, <4>2, <4>3, <4>4, <4>5, <4>6
    <3> QED
      BY <2>1, <3>1
  <2>3. ASSUME NEW u \in Task, healthy_backend(u) PROVE task[t].pc = "backend"
    BY <2>1, <2>3 DEF healthy_backend, TaskType
  <2>4. ASSUME \/ \E u \in Task, expires \in Expires : blacklist(u, expires)
               \/ \E s \in Sm :
                    \/ \E d \in Digest \cup {NULL}, now \in 0..MaxTime :
                         is_healthy(s, d, now)
                    \/ saintmode_init(s) \/ saintmode_fini(s)
               \/ \E b \in Backend : Probe(b)
               \/ VclStep \/ Tick
        PROVE  task' = task
    BY <2>4 DEF blacklist, is_healthy, saintmode_init, saintmode_fini, Probe, VclStep, Tick
  <2> QED
    BY <2>2, <2>3, <2>4 DEF Next
<1> QED
  BY <1>1, InitInv, NextInv, PTL DEF Spec, SickAvoided
=============================================================================
