------------------------------ MODULE Globals -------------------------------
(***************************************************************************)
(* vmod_var.c: the global variables, a list on the heap that the tasks of  *)
(* all threads share under var_list_mtx.  A call takes several steps; that *)
(* others keep out between them is for the mutex to see to.                *)
(*                                                                         *)
(* A string is in a cell of memory, on the heap or in the workspace of the *)
(* task of a thread, and the cell may be handed out again when the string  *)
(* is freed or the task ends.  A pointer is the cell.  The list is a set:  *)
(* its order is not seen, as long as each name is on it once.  The name of *)
(* a variable, which no caller gets hold of, is a value.  There is memory  *)
(* where AN() asserts it, except in a workspace.                           *)
(***************************************************************************)
EXTENDS Integers, FiniteSets

CONSTANTS
  Thread,
  GlobalName, Str,  \* names of variables; strings
  Cell, Var,        \* memory for strings; addresses of structs var
  WsSize,           \* the strings that fit in a workspace
  HEAP, NIL         \* the owner of the heap; NULL

ASSUME GlobalsAssumption ==
  /\ NIL \notin Thread \cup GlobalName \cup Str \cup Cell \cup Var \cup {HEAP}
  /\ HEAP \notin Thread
  /\ WsSize \in Nat

VARIABLES
  global_vars,   \* the structs var on the list
  name, value,   \* their members
  mem, place,    \* what each cell holds; its owner, HEAP or a thread, if any
  var_list_mtx,  \* the thread that holds it
  pc, call,      \* of each thread: where it is; arguments, v and r of its calls
  failed,        \* has varnishd panicked?
  current,       \* ghost: what each variable was last set to
  seen           \* ghost: what it was during the last global_get of a task

memory == <<mem, place>>
list == <<global_vars, name, value>>
gvars == <<list, memory, var_list_mtx, pc, call, failed, current, seen>>

NoCall == [name |-> NIL, value |-> NIL, v |-> NIL, r |-> NIL]

Goto(t, l) == pc' = [pc EXCEPT ![t] = l]

-----------------------------------------------------------------------------
\* A copy of string s in cell c, for owner o.
Copy(c, s, o) ==
  /\ place[c] = NIL
  /\ mem' = [mem EXCEPT ![c] = s] /\ place' = [place EXCEPT ![c] = o]

\* What a char * stands for.
StringAt(p) == IF p = NIL THEN NIL ELSE mem[p]

Room(t) == Cardinality({c \in Cell : place[c] = t}) < WsSize

\* Where the lookup of both functions stops: {} at the end of the list.
Found(n) == {v \in global_vars : name[v] = n}

Lock(t, l) ==
  /\ var_list_mtx = NIL /\ var_list_mtx' = t /\ Goto(t, l)
  /\ UNCHANGED <<list, memory, call, failed, current, seen>>

\* The task has the result for as long as it goes on.
Unlock(t) ==
  /\ pc[t] = "unlock" /\ var_list_mtx' = NIL /\ Goto(t, "idle")
  /\ call' = [call EXCEPT ![t] = [NoCall EXCEPT !.r = call[t].r]]
  /\ UNCHANGED <<list, memory, failed, current, seen>>

-----------------------------------------------------------------------------
\* A task calls global_set with a string of its workspace, or with none.
\* (Without a name, the call has no effect.)
CallSet(t, n) ==
  /\ pc[t] = "idle" /\ Goto(t, "set")
  /\ \/ /\ Room(t)
        /\ \E c \in Cell, s \in Str :
             /\ Copy(c, s, t)
             /\ call' = [call EXCEPT ![t] =
                          [name |-> n, value |-> c, v |-> NIL, r |-> call[t].r]]
     \/ /\ call' = [call EXCEPT ![t].name = n]
        /\ UNCHANGED memory
  /\ UNCHANGED <<list, var_list_mtx, failed, current, seen>>

\* The variable is taken off the list, or made.
Find(t) ==
  LET n == call[t].name IN
  /\ pc[t] = "find" /\ Goto(t, "insert")
  /\ \/ \E v \in Found(n) :
          /\ global_vars' = global_vars \ {v}
          /\ name' = [name EXCEPT ![v] = NIL]
          /\ call' = [call EXCEPT ![t].v = v]
          /\ UNCHANGED value
     \/ /\ Found(n) = {}
        /\ \E v \in Var \ global_vars :
             /\ name' = [name EXCEPT ![v] = NIL]
             /\ value' = [value EXCEPT ![v] = NIL]
             /\ call' = [call EXCEPT ![t].v = v]
        /\ UNCHANGED global_vars
  /\ UNCHANGED <<memory, var_list_mtx, failed, current, seen>>

Insert(t) ==
  LET v == call[t].v IN
  /\ pc[t] = "insert" /\ Goto(t, "clear")
  /\ name' = [name EXCEPT ![v] = call[t].name]
  /\ global_vars' = global_vars \cup {v}
  /\ UNCHANGED <<value, memory, var_list_mtx, call, failed, current, seen>>

\* The old string is freed.
Clear(t) ==
  LET v == call[t].v
      c == value[v]
  IN
  /\ pc[t] = "clear" /\ Goto(t, "store")
  /\ \/ /\ c # NIL
        /\ mem' = [mem EXCEPT ![c] = NIL] /\ place' = [place EXCEPT ![c] = NIL]
     \/ c = NIL /\ UNCHANGED memory
  /\ value' = [value EXCEPT ![v] = NIL]
  /\ UNCHANGED <<global_vars, name, var_list_mtx, call, failed, current, seen>>

\* From now on the variable is s, also for those who are about to read it.
TakesEffect(n, s) ==
  /\ current' = [current EXCEPT ![n] = s]
  /\ seen' = [t \in Thread |-> IF pc[t] \in {"get", "read"} /\ call[t].name = n
                               THEN seen[t] \cup {s} ELSE seen[t]]

\* Mutant: the string of the caller becomes the value.
StoreArgument(t) ==
  /\ pc[t] = "store" /\ Goto(t, "unlock")
  /\ value' = [value EXCEPT ![call[t].v] = call[t].value]
  /\ TakesEffect(call[t].name, StringAt(call[t].value))
  /\ UNCHANGED <<global_vars, name, memory, var_list_mtx, call, failed>>

\* A string of the caller is copied to the heap; strdup may fail, unnoticed.
Store(t) ==
  LET arg == call[t].value IN
  /\ pc[t] = "store" /\ Goto(t, "unlock")
  /\ \/ /\ arg # NIL
        /\ \E c \in Cell :
             /\ Copy(c, mem[arg], HEAP)
             /\ value' = [value EXCEPT ![call[t].v] = c]
        /\ TakesEffect(call[t].name, mem[arg])
     \/ /\ UNCHANGED <<value, memory>>
        /\ TakesEffect(call[t].name, NIL)
  /\ UNCHANGED <<global_vars, name, var_list_mtx, call, failed>>

-----------------------------------------------------------------------------
\* A task calls global_get, perhaps without a name.
CallGet(t, n) ==
  /\ pc[t] = "idle" /\ Goto(t, "get")
  /\ call' = [call EXCEPT ![t] = [NoCall EXCEPT !.name = n]]
  /\ seen' = [seen EXCEPT ![t] = {IF n = NIL THEN NIL ELSE current[n]}]
  /\ UNCHANGED <<list, memory, var_list_mtx, failed, current>>

\* The value is copied to the workspace.  A workspace that is full fails AN(r),
\* and so does a list that is not empty strcmp with a name that is NULL.
Read(t) ==
  LET n == call[t].name IN
  /\ pc[t] = "read"
  /\ \/ /\ n = NIL /\ global_vars # {}
        /\ failed' = TRUE
        /\ UNCHANGED <<memory, pc, call>>
     \/ /\ n # NIL \/ global_vars = {}
        /\ \A v \in Found(n) : value[v] = NIL
        /\ Goto(t, "unlock")
        /\ UNCHANGED <<memory, call, failed>>
     \/ \E v \in Found(n) :
          /\ value[v] # NIL
          /\ \/ /\ Room(t)
                /\ \E c \in Cell : /\ Copy(c, mem[value[v]], t)
                                   /\ call' = [call EXCEPT ![t].r = c]
                /\ Goto(t, "unlock")
                /\ UNCHANGED failed
             \/ /\ ~Room(t)
                /\ failed' = TRUE
                /\ UNCHANGED <<memory, pc, call>>
  /\ UNCHANGED <<list, var_list_mtx, current, seen>>

\* The task ends, and its workspace goes.
Finish(t) ==
  /\ pc[t] = "idle"
  /\ call' = [call EXCEPT ![t] = NoCall] /\ seen' = [seen EXCEPT ![t] = {}]
  /\ mem' = [c \in Cell |-> IF place[c] = t THEN NIL ELSE mem[c]]
  /\ place' = [c \in Cell |-> IF place[c] = t THEN NIL ELSE place[c]]
  /\ UNCHANGED <<list, var_list_mtx, pc, failed, current>>

-----------------------------------------------------------------------------
GlobalsInit ==
  /\ global_vars = {} /\ name = [v \in Var |-> NIL] /\ value = [v \in Var |-> NIL]
  /\ mem = [c \in Cell |-> NIL] /\ place = [c \in Cell |-> NIL]
  /\ var_list_mtx = NIL
  /\ pc = [t \in Thread |-> "idle"] /\ call = [t \in Thread |-> NoCall]
  /\ failed = FALSE
  /\ current = [n \in GlobalName |-> NIL] /\ seen = [t \in Thread |-> {}]

vmod_global_set(t) ==
  \/ \E n \in GlobalName : CallSet(t, n)
  \/ pc[t] = "set" /\ Lock(t, "find")
  \/ Find(t) \/ Insert(t) \/ Clear(t) \/ Store(t)

\* Mutant: the reader does not wait for the writer.
global_get_unlocked(t) ==
  \/ \E n \in GlobalName \cup {NIL} : CallGet(t, n)
  \/ /\ pc[t] = "get" /\ Goto(t, "read")
     /\ UNCHANGED <<list, memory, var_list_mtx, call, failed, current, seen>>
  \/ Read(t)

vmod_global_get(t) ==
  \/ \E n \in GlobalName \cup {NIL} : CallGet(t, n)
  \/ pc[t] = "get" /\ Lock(t, "read")
  \/ Read(t)

\* varnishd comes to an end.
Halted == failed /\ UNCHANGED gvars

GlobalsNext ==
  \/ /\ ~failed
     /\ \E t \in Thread : vmod_global_set(t) \/ vmod_global_get(t) \/ Unlock(t) \/ Finish(t)
  \/ Halted

GlobalsSpec == GlobalsInit /\ [][GlobalsNext]_gvars

-----------------------------------------------------------------------------
(***************************************************************************)
(* What global_get returned is, for as long as the task may use it, a      *)
(* value that the variable had at some time during the call, whatever      *)
(* other tasks have done to the variable since, and whatever has become of *)
(* the task that set it.                                                   *)
(***************************************************************************)
GlobalReads ==
  \A t \in Thread :
    seen[t] # {} /\ pc[t] \notin {"get", "read"} =>
      StringAt(call[t].r) \in seen[t]
=============================================================================
