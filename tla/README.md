# A TLA+ model of the varnish-modules collection

The repository holds a collection of modules ("vmods") for the Varnish HTTP
cache.  A vmod is a shared library that varnishd loads for a VCL program; its
functions run on varnishd's threads, many at a time, and the state it keeps in
static variables is shared by all VCLs that import it.

This directory models them: **xkey** (purging by surrogate key), **vsthrottle** (rate
limiting with token buckets), **saintmode** (a blacklist of objects per backend),
**softpurge** (purging the variants of an object), the regular expressions that **header** and
**bodyaccess** keep per call site, and what **cookie**, **var** and **header** do within a task.
The models are checked on small instances by TLC; their safety properties are proved for all
instances by TLAPS.

Paths below are relative to the repository root, where the C sources are in
`src/src/` as seen from here.

## 1. Inventory

| component | state | operations | shared with | what is hard | what makes it correct |
|---|---|---|---|---|---|
| xkey, index | two trees, a list per tree node, records on two lists, three free pools | `xkey_insert`, `xkey_remove`, `xkey_cleanup`, `*_new`, `*_delete` | everything under one mutex | identity of memory blocks; a head dropped in the middle of a loop; pools at their limit | both lists agree, heads live exactly while needed, no block lost or doubled, the whole is a map from objects to tags |
| xkey, callbacks and purge | the index, `mtx`, `n_init`, `xkey_cb_handle`, lifetimes of objects | `xkey_cb` (insert, remove), `purge`, `softpurge`, `vmod_event` | fetch threads, expiry thread, client threads, CLI thread | the mutex is released between the keys of one object; purge holds no references; discard waits for callbacks | the index is exact; purge follows only live objects, misses none, never prolongs a life; nobody waits forever |
| vsthrottle | 16 trees of token buckets, a mutex and a call counter each, `n_init` | `is_denied`, `remaining`, `blocked`, `event_function`, `fini` | client threads | rounding; the collector forgets buckets; blocks and tokens interact | never more than the limit gets through; a block lasts as long as the key keeps asking, and no longer than announced; an idle key is not denied |
| saintmode | per object: list of (digest, timeout), counter, mutex; per VCL: list of objects | `blacklist`, `healthy`/`resolve`, `is_healthy`, `blacklist_count`, `status`, init, fini | fetch threads, client threads | unlocked test of the counter; lazy pruning by callers with different times | every verdict has its reason; a fetch does not get a backend it should know to be sick |
| softpurge | lifetimes and reference counts of an object's variants; a list of pointers in the workspace | `softpurge` | client threads, varnishd's expiry | references taken under a lock, used after it; end of workspace | counts exact, references returned, all variants that fit become stale and stay so |
| header | one mutex, a compiled regex per call site; per message, the table of headers | `append`, `get`, `copy`, `remove`, `event_function` | client and fetch threads | double-checked initialisation; the mutex is initialised at every load; copy and remove change the table they read | one regex per site, used only while it lives; remove and copy are exact |
| cookie | per task: a list of name/value pairs in the workspace | `parse`, `set`, `get`, `delete`, `clean`, `filter`, `filter_except`, `get_string` | workspace of the task | workspace runs out in the middle of an operation; `=` and `;` out of order | each name once; the text written is read back as the same list |
| var | per task: a list of typed variables; global list under a mutex | `set_*`, `get_*`, `clear`, `global_set`, `global_get` | global list: all threads | types, replacement, `int` for a 64-bit value; strings that go from one task's memory to the heap and into another's | get returns what was last set; global_get what the variable was during the call, for as long as the task lasts |
| bodyaccess | a compiled regex per call site | `rematch_req_body`, `hash_req_body`, `len_req_body`, `log_req_body` | client threads | unlocked caching of the regex | the regex that was given is the one that is used |
| tcp | none | socket options | nothing | arithmetic on arguments | - |
| vtree.h | - | red-black trees | vendored from varnishd | - | - |

The hazards of this code, each at its line and with the properties that cover
it, are the list `hazards` of `PROJECT.json`.

## 2. Modules

```
XkeyTags      what the xkey index promises: a map from objects to tags
XkeyIndex     the trees, lists and pools that implement it
XkeyLists     the tail queues of the index, pointer by pointer, and xkey_cleanup
Xkey          the index shared by callbacks, purges and VCL events
Vsthrottle    token buckets
Saintmode     blacklists and the director
Softpurge     the variants of one object, shared by softpurges, fetches and expiry
CallSite      the regex of a call site in header and bodyaccess
Places        going through a list: selecting from it, adding up over it
Cookie        the cookies of a task
Var           the variables of a task
Header        the headers of a message
Task          Cookie, Var and Header composed: tasks that share their workspace
Globals       the global variables, shared by the tasks of all threads
*Proofs       theorems and proofs about the module in their name (those about
              XkeyIndex are in XkeyListsProofs)
MC*           finite instances for TLC, with the .cfg files
```

`XkeyIndex` refines `XkeyTags` (`ImplementsTags`, an `INSTANCE` with `links`
mapped to the number of records); `XkeyLists` extends `XkeyIndex` and performs each of its
steps together with the queue operations; `Xkey` uses the operators of `XkeyTags` for
its index, so what is shown about `Xkey` rests on a map that `XkeyIndex` and `XkeyLists` are
shown to implement.  `Task` instantiates `Cookie`, `Var` and `Header` with one workspace.

Definitions that a comment calls a mutant are deliberate bugs: each is a
variant of the definition that follows it, used in place of it to see that a
property would notice.  No specification uses them.

### XkeyIndex

One variable per field of the C structures: `hashtree`/`octree` are the heads
linked into the trees, `hkey`/`okey` their keys, `hocs`/`oocs` their lists,
`hashhead`/`objcore` the pointers of a record.  A pool has the allocated blocks,
the pooled ones and the counter (`n_hashhead`...) that the code tests in place of
the list.  `malloc` may return any block that is not allocated.  `xkey_insert` is
one step.  `xkey_remove` takes one step per turn of its loop, so that the
invariants are checked in the middle of it; the mutex is held meanwhile
(`removing # NULL`).  Lists and pools are sets: no result depends on their order.
For the refinement, an object loses its tags when the loop starts.

### XkeyLists

A list of `vqueue.h` is a pointer to the first element and the address of the last pointer;
an element has a pointer and an address per list it may be on.  `mem` holds them: `ptr` per
cell, `prev` per element and link, `last` per list.  `INSERT_HEAD`, `INSERT_TAIL`, `REMOVE` and
`CONCAT` are the macros, assignment by assignment.  `lists_insert` and the steps of
`lists_remove_*` are those of `XkeyIndex` plus these assignments; which record is taken from the
pool, and which one `xkey_remove` visits next, is read from the pointers.  `LinksAgree` says that
walking the pointers finds the sets of `XkeyIndex`.  `xkey_cleanup` exists only here: one step
per key head, one for all heads, one per record freed.  When it follows a link to a record or a
head that it has freed, what the program does is undefined and the model stops in the phase
`undefined`.

### Xkey

Every object is in a phase: `free`, `fetched`, `inserting` (in
`xkey_cb_insert`), `cached`, `removing` (in `xkey_cb_remove`).  A header is how
often it names each key.  `xkey_cb_insert` is one step per key, because the code
takes and releases the mutex per key; `purge` is `purge_start`, then `purge_key`
and `purge_visit` for every key and record, then `purge_end`, with the mutex held
(`mtx = "purge"`); `vmod_event` is `Load`, `Discard`, and, for the last VCL,
`DiscardEnd`, when varnishd has let go of the callback and `xkey_cleanup` has run.

Assumed of varnishd, which is not in the repository: the insert event of an
object returns before its remove event is sent; the address is reused after the
remove event has returned; events are delivered under a read lock that
`ObjUnsubscribeEvents` takes for writing; `EXP_Rearm` counts the ttl from the
time it is given; `ctx->now` is not later than the clock; a VCL is not discarded
while a request uses it.  `keep` is handled like `grace` in every line and is
left out.  `xkey_cleanup` is modelled by its effect on the index: all is forgotten.  What it
does to the memory is the subject of `XkeyLists`.

### Vsthrottle

A key of the model is the 4-tuple that `do_digest` hashes.  Every function runs
under its partition's mutex and reads the clock under it, so each is one step.
Time is in whole ticks and the refill is the exact quotient, truncated; the code
computes it in floating point.  Ghost variables: `credit`, an ideal token bucket
that fills continuously and is never forgotten; `promised`, until when a key was
told to stay away, until it gets through; `asked`, when it last asked.  The last `fini` forgets
everything, and so do the ghosts.  `Calls` says which functions the VCLs use.

### Saintmode

The list is newest first, so it is a set of entries that are numbered as they
come; `Pruned` are the entries that the scan passes and removes before it stops at
a match.  `healthy` is three steps: the unlocked test, the scan, the question to the
backend.  A task is a fetch, or a health check without one (digest `NULL`).  The
time that a caller brings (`t_prev`) may be older than the clock.  Ghosts:
`blacklisted`, everything ever blacklisted for a backend; `known`, the part of it
that was there when a task asked.

### Softpurge

An objcore has a phase: `free`, `busy` (being fetched), `live`, `dying` (marked by the expiry
thread), `dead` (out of the cache, but referenced).  The first pass (`softpurge`) is one step,
under the mutex of the objhead: it takes references on a set of the live variants that `Fits`
the workspace.  The second pass is two steps per variant, `softpurge_rearm` and
`softpurge_deref`, with everything else in between.  `spc` is the room in the workspace, any
number of pointers from one on.  Ghost: `due`, the variants a softpurge must not miss, as long
as they live.  Lookups, fetches, expiry and the counts they keep are varnishd's and external.

### CallSite

`header_init_re` is a step per access to shared memory: the test, the lock, the second test,
the two stores, the unlock; `rematch_req_body` likewise, without a lock.  Both then read `priv`
again and use what they find.  `event_function` frees the mutex, whoever holds it; this is one of
the outcomes of what POSIX leaves undefined, and the one of the usual implementations.  A regex
is told from others by its call site, the life of the VCL it was compiled in and a number, so
that a lost one can be counted.

### Cookie, Var, Header and Task

Memory is counted in units: a structure, a name, a value each take one.  An allocation that
does not fit fails as in the code: `cookie` forgets what it got for the cookie, `var` stores a
NULL string or panics, `header` drops the header.

A Cookie header is its pieces between semicolons, with or without an equals sign; a piece
without one becomes part of the next name, as `strchr` in `parse` has it.  `CookieText` is what
`get_string` writes, in the same pieces.  `INT_MAX` is the largest `int`, which a `VCL_INT` is cut
down to.  `copy` is one step per header, because it goes through a table that it appends to;
the other calls are one step each, as nobody else sees a task's data.  `EndTask` drops what
PRIV_TASK held.  The loops over a list are recursive functions of the place
that they have come to (`Parse`, `header_http_Unset`, `Select` and `Total` of `Places`).

### Globals

A string is in a cell of memory that has an owner, the heap or the task of a thread, and a
pointer is a cell; when a string is freed or a task ends, its cells may be handed out again.
`global_set` is a step for the call, the lock, and each part between lock and unlock: the lookup,
which takes the variable off the list (`Find`), `Insert`, the `free` of the old string (`Clear`),
the `strdup` of the new one (`Store`).  `global_get` is the call, the lock and `Read`, which copies
into the caller's workspace.  Nothing in the steps themselves keeps other threads out: that is
left to `var_list_mtx`.  `strdup` of a value may fail, unnoticed, and the variable is then NULL;
a workspace that is full, and a NULL name when the list is not empty, make varnishd panic.  Ghosts:
`current`, what each variable was last set to; `seen`, what the variable was at any time during
the last `global_get` of a task.

## 3. Runs

| run | shows |
|---|---|
| `xkey_lists` | the pointers make up the lists; consistency of trees, lists and pools; refinement of `XkeyTags` |
| `xkey` | exact index, with discards and reloads; purge safe and complete, never prolongs a life, softpurge counts objects; callbacks and purges return |
| `vsthrottle` | conformance to an ideal bucket; blocks kept for keys that keep asking; idle keys not denied |
| `saintmode_verdicts` | exact counter, justified verdicts, sick backends avoided, over two objects that a fetch may go through |
| `softpurge` | exact references between the passes; all that fits becomes stale and stays so; dying objects are freed |
| `call_sites` | one regex per call site of header, few lost ones in bodyaccess, none used after it was freed; calls return |
| `task` | memory accounted for; cookies survive writing and parsing; variables and headers are what the calls made them; copy ends; `global_get` returns a value that the variable had during the call, in memory that stays the task's |

The other runs end in a violation on purpose: each states what a document, a
comment or a test says and shows a behaviour of the code that disagrees.

| run | the code | the text |
|---|---|---|
| `xkey_discard` | discard and a callback wait for each other | a test expects the discard to succeed |
| `xkey_cleanup` | records behind the first of a key's list stay allocated; those of the pool are taken off by links that lead to freed heads (TLC stops at whichever it meets first) | "Do cleanup"; the test "has no way of learning the result" |
| `vsthrottle_block` | the collector drops a bucket with its block when the key was quiet for a period | "then always deny for 'key' for that length of time"; the example has a block of three periods |
| `vsthrottle_remaining` | `remaining` credits the same time twice | "maximum of 'limit' requests per 'period' time" |
| `header_reload` | the load of a VCL frees a mutex that is held | "used to avoid having two threads that initializes the same regex at the same time" |

Smaller deviations, met on the way and without a run of their own:

- `purge` counts records (`vmod_xkey.c:574`): an object with two of the given keys, or one
  key twice, counts twice in what `vmod_xkey.vcc:101` calls the "number of objects that were
  purged".  For softpurge the count is right (`SoftCountsObjects`).
- Two saintmode objects for one backend share nothing: `find_sm` (`vmod_saintmode.c:91`) finds
  the first, whichever was resolved, so a fetch that resolves the second gets the backend it
  has just blacklisted.  The theorems assume that every object has its own backend.
- With threshold zero, where the comment at `vmod_saintmode.c:270` says "Saintmode is
  disabled", `is_healthy` in a client request is always false, because it calls
  `is_digest_healthy` directly.
- `is_healthy` in a client request never asks the backend (`vmod_saintmode.c:303`), where
  `vmod_saintmode.vcc:163-164` says that it falls back to the backend's health function.
- softpurge sets the ttl from the request's time (`vmod_softpurge.c:98`); of a variant that
  was stale already it is raised, but not past the clock (`StaleStays`).
- `xkey_cleanup` does not reset the counters of the pools that it empties.
- A call site of `rematch_req_body` keeps the first pattern it is called with, whatever it is
  called with later, and so do the call sites of header.
- `header.copy` of a header to itself goes on until the table or the workspace is full
  (`vmod_header.c:181`); it does end (`CopyEnds`).
- `cookie.parse` of an empty header keeps the cookies that are there (`vmod_cookie.c:99-102`),
  where `vmod_cookie.vcc:170` says "If state already exists, clean() will be run first."  The model
  does what the code does; `ParseReads` is about headers that are parsed.
- `global_get` without a name calls `strcmp` with NULL (`vmod_var.c:314`), which `global_set`
  avoids by returning early; `global_set` does not check the `strdup` of a value
  (`vmod_var.c:299`), so that a variable may be NULL that was set to a string.  Both are steps of
  `Globals`.
- `var.set_int` keeps the low bits of a value that an `int` cannot hold (`vmod_var.c:229`), where
  `vmod_var.vcc:76` says "Set `key` to `value`."; `GetsLast` excepts such values.
- `n_trouble` counts calls of `blacklist`; `vmod_saintmode.vcc:12-13` speaks of the "number of
  objects marked as sick".  `blacklist_count` returns it with the entries that have expired
  and that no scan has passed yet; `vmod_saintmode.vcc:149` says "currently blacklisted".

### Bounds

- `xkey_lists`: two objects and two keys give shared keys, shared objects and
  duplicate tags; three heads and four records against pools of two let every pool
  run empty, fill up and overflow into `free`, and a list has a first, a middle and a last
  element.  `xkey_cleanup` is the same with pools that never overflow.
- `xkey`: two objects with two keys, or one key twice; a purge over two keys; two VCLs and two
  discards, so that a discard leaves one VCL, leaves none, and a reload finds objects from before.
  Time passes, up to 2, and a second purge follows the first, only while one of the objects is
  in use (`MCNext`): what a purge does to a lifetime is a question about one object.
- `vsthrottle`: refills of 2/3 and 3/4 of a token per tick make truncation
  matter, two keys in a partition let one key's calls collect the other's bucket, and
  five ticks are longer than either period.  The block of the first key is longer than its
  period, so that the collector may forget it; that of the second is not.  Only for the second
  key `remaining` is called.
- `saintmode_verdicts`: two calls of `blacklist` with thresholds two and one reach either
  threshold, a tick lets an entry expire and a caller's time be old, two tasks let one prune or
  blacklist between another's steps, two objects, which `vcl_init`
  creates in one order (`MCNext`), let a fetch go on from one to the other.
- `softpurge`: two variants and room for one or two let the workspace end before the list;
  two requests let one softpurge what another is between passes with; an address is reused.
- `call_sites`: three threads, so that two may race while a third matches; one VCL loaded
  twice.  `header_reload` needs two VCLs and two threads.
- `task`: seven units of workspace are less than most sequences of calls ask for, so that
  every allocation fails somewhere; two cookie names, two values, headers of up to three pieces;
  three slots for headers.
  The same run has two threads at a global variable, so that one may set what the other sets or
  reads; three cells are the two workspaces and a string of the heap, so that a freed cell is soon
  somebody else's.  Task and Globals share nothing, so that one stands still while the other is
  looked at (`MCNext`).

Deadlock is not checked in `xkey` and `xkey_discard`, where the wait of discard and
callback is a real deadlock that `xkey_discard` is about; nor in `xkey_cleanup`, `call_sites`,
`header_reload` and `task`, where the instance comes to its end: after the cleanup, the last
discard, or a panic.
Symmetry is used for memory blocks, digests and tasks, and only in runs without liveness
properties.

### Fairness

`FairSpec` of Xkey assumes that a thread that holds the mutex runs on, that a
callback that can take the mutex eventually does, and that varnishd returns from
unsubscribing once no callback is under way: weak fairness of the steps of each
callback and of the holder.  Callbacks and purges never block on anything else.
Weak fairness per callback is what a mutex gives when purges are finitely many, as
they are in the runs.  `CallbacksReturn` excepts callbacks that wait for the last discard, which
never gives the mutex back (`xkey_discard`).  Nothing has to be fetched, killed, purged or discarded.

In Softpurge a request that is in a softpurge goes on and ends, and the expiry thread gives
back the reference on an object that it has marked: each is a thread that waits for nothing but
mutexes held for a moment.  In CallSite each thread that can take a step does; of the mutex
nothing is asked, a thread may lose it to others again and again (`CallsReturn` holds all the
same, since the mutex is wanted only until the regex is there, and once per thread).  In Task a
copy that has begun goes on.

## 4. Proofs

All theorems are for arbitrary constants that satisfy the named assumptions
(`IndexAssumption`, `ListsAssumption`, `XkeyAssumption`, `ThrottleAssumption`, `SaintAssumption`,
`SoftpurgeAssumption`, `CallSiteAssumption`, `TaskAssumption`, `NullAssumption`,
`GlobalsAssumption`):
functions have their domains, bounds are naturals, blocks are finitely many, different blocks
are at different addresses, NULL is none of the values, and a message comes with headers that
its table and its workspace have room for.

- **XkeyListsProofs, first part: the index.**  `IndexCorrect`: the conjunction of `TypeOK`, `ListsAgree`,
  `HeadsLive` and `NoLeak` is inductive as it stands.  None of the parts is
  inductive alone: that a key head may be freed when its list is `{c}` needs that the
  record's pointer and the list agree, and that a pooled head is not in the tree
  needs the partition of the blocks.  `IndexType`, `IndexListsAgree` and `IndexHeadsLive` are
  its parts.  `IndexRefinesTags`: under that invariant, an
  insertion adds exactly one record to exactly one pair, the start of a removal
  drops those of one object, and the other steps of a removal change nothing.
- **XkeyListsProofs, second part: the queues.**  `ListsInv` adds to that invariant `Sound`: for every list there is a
  sequence of different records, which are those of the set, such that each cell of the sequence
  points to the next record, that record's `prev` is the cell, and `last` is the cell that holds
  NULL (`Chain`); and lists that are linked by the same field share no record (`Apart`).  Lemmas
  say what each macro of `vqueue.h` does to the sequence of its list (`TailLinked`, ...), and
  `Frame` that all other lists are left alone; `Apart` is what makes `Frame` applicable, and is in
  turn a consequence of the invariant of the index.  Hence `ListsImplementIndex`: the record that
  `VTAILQ_FIRST` finds is one of the set, so each step on the pointers is a step of `XkeyIndex`, and
  what was proved of that holds here too (`ListsIndexCorrect`, `ListsRefineTags`).
  `ListsLinksAgree` adds that walking along the pointers, by recursion, finds that sequence.
  All of this is about `xkey_insert` and `xkey_remove`; `xkey_cleanup` breaks the lists, as the run
  `xkey_cleanup` shows.
- **XkeyProofs.**  `XkeyInv` adds to `TypeOK` and `IndexExact`: what each phase implies
  for an object (a free address is not tagged, only a subscribed callback is under
  way, ...), and for a purge that every object it must not miss has been hit, or has a
  record still to visit, or carries a key still to come.  From it follow
  `XkeyIndexExact`, `XkeyPurgeTouchesLive`, `XkeyPurgeComplete`, `XkeySoftCounts` and
  the action property `XkeyNeverRevives`.
- **VsthrottleProofs.**  `ThrottleType`, and `ThrottleConforms`: as long as `remaining` is
  not called, the ideal bucket's credit is at least what the bucket holds plus what has
  trickled in since it was last used (capped), and full for a key without a bucket.  The
  arithmetic of the truncated refill is the lemma `RefillBounds`; that the collector only
  drops buckets that would be full is `IdleIsFull`.
  `ThrottleIdleNotDenied` rests on `IdleInv`: a bucket has no block that was not announced,
  and was last used by `is_denied` or else is still full.  `ThrottleBlockKept` rests on
  `BlockInv`: of a block that lasts, either the bucket has it and was last used within 1/limit of
  a period before the key last asked (`Kept`), or the key has been quiet for more than the part
  1 - 1/limit of a period and any bucket that `remaining` or `blocked` made for it since is full
  (`Forgotten`); that the collector leads from the one to the other is `CollectedLate`.  That a
  block is not kept in full is the run `vsthrottle_block`.
- **SaintmodeProofs.**  `SaintInv`: what is on a list was blacklisted for its backend,
  entries are numbered (so the counter is exact), a list lacks nothing that lasts, and a
  task that is through with the list has nothing against its backend that it should know
  of.  `SaintCountExact` holds always; `SaintVerdictJustified` and `SaintSickAvoided` need
  that no two objects share a backend (`OwnBackend`; section 3 says why).

- **SoftpurgeProofs.**  `SoftpurgeInv` adds to `TypeOK`, `RefsExact` and `DuePurged` the conjunct
  `InStep`: a request's time is past, what it has rearmed is stale, and what it has noted or must
  not miss is neither free nor busy, so that no fetch gives it a new lifetime under the
  request's hands.  That a noted variant cannot be freed follows from the count of its holders
  (`Counted`, `GivenBack`: giving back a reference frees exactly if nobody else holds one).
  `SoftpurgeRefsExact`, `SoftpurgeDuePurged` and the action property `SoftpurgeStaleStays` are for any
  number of variants and requests and without a bound on time.
- **CallSiteProofs.**  Three invariants on top of each other.  `CallInv`: a thread in a call is at
  a site of a loaded VCL, once it has seen or stored a regex there is one, and what it uses was
  compiled in the present life of the VCL; hence `CallSiteUsesLive`, for any VCLs, reloads and
  mutex resets.  `BudgetInv`: regexes compiled for a site plus threads about to compile are no
  more than the threads, because whoever comes to compile found nothing stored, and then all
  that was compiled is still in the hands of its thread; hence `CallSiteLossBounded`.  `LockInv`:
  mutual exclusion, nothing stored until the holder stores, everything stored will be freed;
  hence `CallSiteOneRegex`, which assumes one VCL, as `header_reload` shows it must.

- **TaskProofs.**  The invariant `TaskInv` gives the three lists their types, has each cookie
  and variable once, and bounds what the lists and the free workspace add up to; this is
  `TaskAccounted`, and needs that no failed allocation leaves something linked.  The other
  theorems follow from it and from what the loops compute:
  - `TaskGetsLast`: the variable that the list has first of a name holds what the ghost `last`
    has, cut down to an `int` or lost for want of memory (`VarsInv`).
  - `TaskRemoveExact`: after i turns of the loop of `header_http_Unset` the first slots of the table
    hold what `Select` keeps of the first i headers, and the slots from i on are as they were
    (`UnsetMoves`), so that nothing is overwritten before it is read.
  - `TaskCopyExact`: `CopyInv` says of a copy under way that the table begins with what it
    was, followed by copies of the matching headers before the place that it has come to: all
    of them, or the first ones that the workspace or the table had room for.
  - `TaskParseReads`: after i pieces, the list has what the first i pieces give (`ReadTo`) and the
    name that is being read is that of the pieces since the last value (`Pending`); three units
    of workspace for each piece are enough.
  - `TaskRoundTrip`: the text of a list has the last piece of its k-th cookie at the place that the
    lengths of the names add up to (`Laid`); parsing it, the list is the first i cookies and the
    workspace is that of the others (`Parsed`).  That names are unique is what keeps `set`
    from replacing one, and that no cookie is empty is what keeps it from being dropped.

- **GlobalsProofs.**  `GlobalsReads` needs an invariant of six parts.  Who is between lock and
  unlock holds the mutex (`LockInv`); the strings of a task are in its workspace and each step of
  `global_set` finds what the one before left (`CallInv`); names on the list are unique and values
  have cells of the heap of their own (`ListInv`), so that `free` takes nobody else's string; of a
  variable that nobody is in the middle of setting, the list has what was last set
  (`ContentInv`); and what a reader is about to find, or has found, is among what the variable
  was during its call (`SeenInv`).  The mutex is what lets a reader conclude from `LockInv` that
  `ContentInv` applies to it.

What a recursive definition computes is proved by induction over the place: `LeastNat`, from
the well-foundedness of the naturals, gives induction over sets of numbers (`UpTo`), which needs no
operator as a parameter; `Recursion` gives the function that satisfies the recursive equation.

Only model-checked: the liveness properties (`CallbacksReturn`, `PurgeReturns`,
`DyingFreed`, `CallsReturn`, `CopyEnds`), because fairness is out of this
prover's reach; every invariant and every other action property that a passing run checks is a
theorem.

## 5. Not modelled

- tcp: a wrapper around socket options that keeps no state; `rate * 1024` in an `int`
  (`vmod_tcp.c:171`) is a single expression in front of a system call.
- saintmode: `fini` frees an object that stays on `sm_list` (`vmod_saintmode.c:389`).  That nothing
  walks the list between the finis of one VCL follows from the order in which varnishd
  finalises objects, which is outside the repository.
- bodyaccess, except for the regex: the functions read the request body piece by piece into
  a log, a hash or a matcher and keep nothing.  That a regex is freed with `free()`
  (`vmod_bodyaccess.c:241`) is below this level.
- `vtree.h` and `foreign/`: vendored; the models use the trees as the ordered sets that their
  interface promises.
- `cookie.format_rfc1123`, `saintmode.status`, logging: formatting without state.
- Digests are taken as free of collisions; the parsing of the xkey header into tokens is left
  out, what counts is which keys a header names and how often.
- `header.append` and `header.copy` between different messages (`vmod_header.c:218`, 256): the
  model has one message, which is the case in which copy changes the table that it reads.
- The re-initialisation of `header_mutex` frees it; that threads which wait for it at that time
  may never be woken is another outcome that POSIX allows, and is not modelled.
- Names and values of cookies have no separators: a value with a `;` in it, given to
  `cookie.set`, is written out as it is and read back as two pieces.
- The run of saintmode has thresholds from one on; section 3 says what the code does with zero.
- What a regular expression matches: a pattern is the set of values it matches.
- A crash of varnishd: nothing here is persistent, all state is gone with the process.

## 6. Plan

Done: XkeyTags, XkeyIndex, XkeyLists, Xkey, Vsthrottle, Saintmode, Softpurge, CallSite, Cookie,
Var, Header, Task, Globals, their runs, and the proofs of section 4.

Left, and worth doing next: theorems that say more than the runs do.

1. That `copy` ends: each of its steps advances in a table that is bounded, a variant that can
   be stated as an action property.
2. That the refinement from `Xkey` to the map of tags goes through `XkeyTags` as a specification,
   instead of through the operators that both use.
