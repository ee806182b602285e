----------------------------- MODULE XkeyLists ------------------------------
(***************************************************************************)
(* The lists of xkey_oc records in vmod_xkey.c, pointer by pointer: the    *)
(* steps of XkeyIndex with the tail queue operations that they perform,    *)
(* and xkey_cleanup, which only exists at this level.                      *)
(*                                                                         *)
(* External (vqueue.h): a list has a pointer to its first element and the  *)
(* address of the pointer that ends it.  An element has, for each list     *)
(* that it may be on, a pointer to the next element and the address of the *)
(* pointer to itself.  A record has two such fields: list_ochead for the   *)
(* list of its object, list_hashhead for the list of its key and for the   *)
(* pool.  The addresses of pointers are cells: <<"first", list>> or        *)
(* <<field, record>>.  A new head has an empty list, like a deleted one.   *)
(***************************************************************************)
EXTENDS XkeyIndex

Field == {"list_ochead", "list_hashhead"}

List == HashHead \cup OcHead \cup {"pool"}

VARIABLES
  mem,   \* ptr: what the cells hold; prev: of each element; last: of each list
  phase  \* of xkey_cleanup

lvars == <<vars, mem, phase>>

Cell == ({"first"} \X List) \cup (Field \X Oc)

\* Blocks are at different addresses, which NULL is not.
ASSUME ListsAssumption ==
  /\ HashHead \cap OcHead = {} /\ "pool" \notin HashHead \cup OcHead
  /\ NULL \notin Oc \cup Cell

-----------------------------------------------------------------------------
FIRST(m, l) == m.ptr[<<"first", l>>]

EMPTY(m, l) == FIRST(m, l) = NULL

INSERT_HEAD(m, l, c, f) ==
  LET n == FIRST(m, l) IN
  [ptr |-> [m.ptr EXCEPT ![<<f, c>>] = n, ![<<"first", l>>] = c],
   prev |-> [IF n = NULL THEN m.prev ELSE [m.prev EXCEPT ![<<f, n>>] = <<f, c>>]
             EXCEPT ![<<f, c>>] = <<"first", l>>],
   last |-> IF n = NULL THEN [m.last EXCEPT ![l] = <<f, c>>] ELSE m.last]

INSERT_TAIL(m, l, c, f) ==
  [ptr |-> [m.ptr EXCEPT ![<<f, c>>] = NULL, ![m.last[l]] = c],
   prev |-> [m.prev EXCEPT ![<<f, c>>] = m.last[l]],
   last |-> [m.last EXCEPT ![l] = <<f, c>>]]

REMOVE(m, l, c, f) ==
  LET n == m.ptr[<<f, c>>]
      p == m.prev[<<f, c>>]
  IN [ptr |-> [m.ptr EXCEPT ![p] = n],
      prev |-> IF n = NULL THEN m.prev ELSE [m.prev EXCEPT ![<<f, n>>] = p],
      last |-> IF n = NULL THEN [m.last EXCEPT ![l] = p] ELSE m.last]

\* List k is appended to list l.
CONCAT(m, l, k, f) ==
  IF EMPTY(m, k) THEN m
  ELSE [ptr |-> [m.ptr EXCEPT ![m.last[l]] = FIRST(m, k), ![<<"first", k>>] = NULL],
        prev |-> [m.prev EXCEPT ![<<f, FIRST(m, k)>>] = m.last[l]],
        last |-> [m.last EXCEPT ![l] = m.last[k], ![k] = <<"first", k>>]]

-----------------------------------------------------------------------------
ListsInit ==
  /\ Init
  /\ mem = [ptr |-> [x \in Cell |-> NULL],
            prev |-> [x \in Field \X Oc |-> NULL],
            last |-> [l \in List |-> <<"first", l>>]]
  /\ phase = "running"

\* xkey_oc_new: the first record of the pool, if the pool has any.
OcNew(c) == cpool.n > 0 => c = FIRST(mem, "pool")

\* Mutant: the record leaves the pool by the field of the other list.
OcTakenByOther(m, c) ==
  IF cpool.n > 0 THEN REMOVE(m, "pool", c, "list_ochead") ELSE m

OcTaken(m, c) ==
  IF cpool.n > 0 THEN REMOVE(m, "pool", c, "list_hashhead") ELSE m

\* xkey_oc_delete.
OcGiven(m, c) ==
  IF cpool.n < POOL_MAX THEN INSERT_HEAD(m, "pool", c, "list_hashhead") ELSE m

lists_insert(o, d) ==
  /\ phase = "running" /\ removing = NULL
  /\ \E oh \in OcHead, hh \in HashHead, c \in Oc :
       /\ OcNew(c)
       /\ Tie(o, d, oh, hh, c)
       /\ mem' = INSERT_TAIL(INSERT_TAIL(OcTaken(mem, c), oh, c, "list_ochead"),
                             hh, c, "list_hashhead")
  /\ UNCHANGED <<removing, phase>>

lists_remove_start(o) ==
  /\ phase = "running"
  /\ xkey_remove_start(o)
  /\ UNCHANGED <<mem, phase>>

\* The loop goes from the first record to the next.
lists_remove_step ==
  LET c == FIRST(mem, removing) IN
  /\ removing # NULL /\ ~EMPTY(mem, removing)
  /\ Untie(c)
  /\ mem' = OcGiven(REMOVE(REMOVE(mem, hashhead[c], c, "list_hashhead"),
                           removing, c, "list_ochead"), c)
  /\ UNCHANGED <<octree, okey, opool, removing, phase>>

lists_remove_end ==
  /\ removing # NULL /\ EMPTY(mem, removing)
  /\ xkey_remove_end
  /\ UNCHANGED <<mem, phase>>

ListsNext ==
  \/ \E o \in ObjCore, d \in Digest : lists_insert(o, d)
  \/ \E o \in ObjCore : lists_remove_start(o)
  \/ lists_remove_step
  \/ lists_remove_end

ListsSpec == ListsInit /\ [][ListsNext]_lvars

(***************************************************************************)
(* Record c is the i-th of list l: counted from the first one along f.     *)
(***************************************************************************)
Walk(l, f) ==
  LET elem[i \in 0..Cardinality(Oc)] ==
        IF i = 0 THEN FIRST(mem, l)
        ELSE IF elem[i - 1] = NULL THEN NULL ELSE mem.ptr[<<f, elem[i - 1]>>]
  IN elem

\* From first to last, list l links the records of a set, each once, and all
\* pointers back are right.
Links(l, f, set) ==
  LET elem == Walk(l, f)
      n == Cardinality(set)
      cell(i) == IF i = 0 THEN <<"first", l>> ELSE <<f, elem[i - 1]>>
  IN /\ {elem[i] : i \in 0..(n - 1)} = set
     /\ elem[n] = NULL
     /\ \A i \in 0..(n - 1) : mem.prev[<<f, elem[i]>>] = cell(i)
     /\ mem.last[l] = cell(n)

(***************************************************************************)
(* The pointers make up the lists that XkeyIndex has as sets: those of the *)
(* keys, those of the objects and the pool.  A record is on up to two of   *)
(* them at once, one of them with the field that the pool uses, too.       *)
(***************************************************************************)
LinksAgree ==
  /\ \A h \in HashHead : Links(h, "list_hashhead", hocs[h])
  /\ \A h \in OcHead : Links(h, "list_ochead", oocs[h])
  /\ Links("pool", "list_hashhead", cpool.list)

-----------------------------------------------------------------------------
(***************************************************************************)
(* xkey_cleanup, when the last VCL is discarded.                           *)
(***************************************************************************)

\* The records of a key's list go to the pool.  The head, which goes to the
\* pool of heads, leaves the tree here; the code forgets the tree after the
\* loop.
cleanup_hashhead(h) ==
  /\ phase \in {"running", "cleanup"} /\ removing = NULL
  /\ h \in hashtree
  /\ phase' = "cleanup"
  /\ mem' = CONCAT(mem, "pool", h, "list_ochead")
  /\ hashtree' = hashtree \ {h}
  /\ hpool' = [hpool EXCEPT !.list = @ \cup {h}]
  /\ UNCHANGED <<hkey, hocs, octree, okey, oocs, objcore, hashhead, opool, cpool,
                 removing>>

\* All heads are freed.
cleanup_heads ==
  /\ phase \in {"running", "cleanup"} /\ removing = NULL
  /\ hashtree = {}
  /\ phase' = "records"
  /\ octree' = {}
  /\ hpool' = [hpool EXCEPT !.heap = @ \ hpool.list, !.list = {}]
  /\ opool' = [opool EXCEPT !.heap = @ \ (opool.list \cup octree), !.list = {}]
  /\ UNCHANGED <<hashtree, hkey, hocs, okey, oocs, objcore, hashhead, cpool, mem,
                 removing>>

\* What a REMOVE of c by field f reads and writes, and what may be.
Touched(c, f) == {c, mem.ptr[<<f, c>>], mem.prev[<<f, c>>][2]} \ {NULL}

Allocated == cpool.heap \cup hpool.heap \cup opool.heap \cup {"pool"}

\* The first record of the pool is freed.  If this takes a record or a head that
\* has been freed before, what happens is undefined, and the model stops.
cleanup_oc ==
  LET c == FIRST(mem, "pool") IN
  /\ phase = "records" /\ ~EMPTY(mem, "pool")
  /\ \/ /\ Touched(c, "list_ochead") \subseteq Allocated
        /\ mem' = REMOVE(mem, "pool", c, "list_ochead")
        /\ cpool' = [cpool EXCEPT !.heap = @ \ {c}]
        /\ UNCHANGED phase
     \/ /\ ~(Touched(c, "list_ochead") \subseteq Allocated)
        /\ phase' = "undefined"
        /\ UNCHANGED <<mem, cpool>>
  /\ UNCHANGED <<hashtree, hkey, hocs, octree, okey, oocs, objcore, hashhead, hpool,
                 opool, removing>>

cleanup_end ==
  /\ phase = "records" /\ EMPTY(mem, "pool")
  /\ phase' = "done"
  /\ UNCHANGED <<vars, mem>>

CleanupNext ==
  \/ ListsNext
  \/ \E h \in HashHead : cleanup_hashhead(h)
  \/ cleanup_heads \/ cleanup_oc \/ cleanup_end

CleanupSpec == ListsInit /\ [][CleanupNext]_lvars

(***************************************************************************)
(* What xkey_cleanup is for: when it is done, there is no record left in   *)
(* memory; and on the way it touches none, and no head, that it has freed. *)
(***************************************************************************)
CleansUp == phase # "undefined" /\ (phase = "done" => cpool.heap = {})
=============================================================================
