--------------------------- MODULE GlobalsProofs ----------------------------
(***************************************************************************)
(* Proofs about Globals for any threads, variables, strings and memory.    *)
(***************************************************************************)
EXTENDS Globals, TLAPS

Label == {"idle", "set", "find", "insert", "clear", "store", "get", "read", "unlock"}

String == Str \cup {NIL}

Call == [name : GlobalName \cup {NIL}, value : Cell \cup {NIL},
         v : Var \cup {NIL}, r : Cell \cup {NIL}]

TypeInv ==
  /\ global_vars \subseteq Var
  /\ name \in [Var -> GlobalName \cup {NIL}] /\ value \in [Var -> Cell \cup {NIL}]
  /\ mem \in [Cell -> String] /\ place \in [Cell -> Thread \cup {HEAP, NIL}]
  /\ pc \in [Thread -> Label]
  /\ call \in [Thread -> Call]
  /\ current \in [GlobalName -> String] /\ seen \in [Thread -> SUBSET String]

\* Who is inside holds the mutex.
LockInv ==
  \A t \in Thread :
    pc[t] \in {"find", "insert", "clear", "store", "read", "unlock"} => var_list_mtx = t

\* The strings of a task are in its workspace, and the steps of global_set
\* leave to the next one what it expects.
CallInv ==
  \A t \in Thread :
    /\ call[t].value # NIL => place[call[t].value] = t
    /\ call[t].r # NIL => place[call[t].r] = t
    /\ pc[t] \in {"set", "find", "insert", "clear", "store"} => call[t].name \in GlobalName
    /\ pc[t] = "insert" =>
         /\ call[t].v \in Var \ global_vars
         /\ \A w \in global_vars : name[w] # call[t].name
    /\ pc[t] \in {"clear", "store"} =>
         call[t].v \in global_vars /\ name[call[t].v] = call[t].name
    /\ pc[t] = "store" => value[call[t].v] = NIL

\* Each name is on the list once, and each value has its own cell of the heap.
ListInv ==
  /\ \A v \in global_vars : name[v] \in GlobalName
  /\ \A v, w \in global_vars : name[v] = name[w] => v = w
  /\ \A v \in Var : value[v] # NIL => place[value[v]] = HEAP
  /\ \A v, w \in Var : value[v] # NIL /\ value[v] = value[w] => v = w

\* Nobody is about to change the variable.
Settled(n) ==
  \A t \in Thread : pc[t] \in {"insert", "clear", "store"} => call[t].name # n

\* The list has what was last set.
ContentInv ==
  \A n \in GlobalName : Settled(n) =>
    /\ \A v \in global_vars : name[v] = n => StringAt(value[v]) = current[n]
    /\ (\A v \in global_vars : name[v] # n) => current[n] = NIL

\* What a call of global_get will find, what one has found.
SeenInv ==
  \A t \in Thread :
    /\ pc[t] \in {"get", "read"} =>
         /\ call[t].r = NIL
         /\ (IF call[t].name = NIL THEN NIL ELSE current[call[t].name]) \in seen[t]
    /\ pc[t] \notin {"get", "read"} /\ seen[t] # {} => StringAt(call[t].r) \in seen[t]

Inv == TypeInv /\ LockInv /\ CallInv /\ ListInv /\ ContentInv /\ SeenInv

-----------------------------------------------------------------------------
\* Nothing is on the list, and nobody is in a call.
LEMMA InitInv == GlobalsInit => Inv
<1> SUFFICES ASSUME GlobalsInit PROVE Inv
  OBVIOUS
<1>1. TypeInv
  BY DEF GlobalsInit, TypeInv, Call, Label, String, NoCall
<1>2. LockInv /\ CallInv /\ ListInv /\ SeenInv
  BY DEF GlobalsInit, LockInv, CallInv, ListInv, SeenInv, NoCall, StringAt
<1>3. ContentInv
  BY DEF GlobalsInit, ContentInv
<1> QED
  BY <1>1, <1>2, <1>3 DEF Inv

\* The argument is in the task's own workspace, in a cell that nobody has.
LEMMA CallSetInv ==
  ASSUME Inv, NEW t \in Thread, NEW n \in GlobalName, CallSet(t, n)
  PROVE  Inv'
<1> USE GlobalsAssumption DEF Inv, memory, list, Goto, CallSet, Copy
<1>1. TypeInv'
  <2>1. pc' \in [Thread -> Label]
    BY DEF TypeInv, Call, Label
  <2>2. CASE UNCHANGED memory
    BY <2>1, <2>2 DEF TypeInv, Call
  <2>3. ASSUME NEW c \in Cell, NEW s \in Str, Copy(c, s, t),
               call' = [call EXCEPT ![t] =
                          [name |-> n, value |-> c, v |-> NIL, r |-> call[t].r]]
        PROVE  TypeInv'
    <3>1. mem' \in [Cell -> String] /\ place' \in [Cell -> Thread \cup {HEAP, NIL}]
      BY <2>3 DEF TypeInv, Call, String
    <3>2. call' \in [Thread -> Call]
      BY <2>3 DEF TypeInv, Call
    <3> QED
      BY <2>1, <3>1, <3>2 DEF TypeInv, Call
  <2> QED
    BY <2>2, <2>3 DEF TypeInv, Call
<1>2. LockInv'
  BY DEF LockInv, TypeInv, Call
<1>3. CallInv'
  BY DEF CallInv, TypeInv, Call
<1>4. ListInv'
  BY DEF ListInv, TypeInv
<1>5. ContentInv'
  <2>1. \A v \in Var : value[v] # NIL => mem'[value[v]] = mem[value[v]]
    BY DEF ListInv, TypeInv, Call
  <2>2. \A m \in GlobalName : Settled(m)' => Settled(m)
    BY DEF Settled, TypeInv, Call
  <2>3. \A v \in Var : StringAt(value[v])' = StringAt(value[v])
    BY <2>1 DEF StringAt
  <2> QED
    BY <2>2, <2>3 DEF ContentInv, TypeInv, Call
<1>6. SeenInv'
  <2>1. \A u \in Thread : call'[u].r = call[u].r /\ (u # t => call'[u] = call[u])
    BY DEF TypeInv, Call
  <2>2. \A u \in Thread : call[u].r # NIL => mem'[call[u].r] = mem[call[u].r]
    BY DEF CallInv, TypeInv, Call
  <2>3. \A u \in Thread : StringAt(call[u].r)' = StringAt(call[u].r)
    BY <2>1, <2>2 DEF StringAt
  <2> QED
    BY <2>1, <2>3 DEF SeenInv, TypeInv
<1> QED
  BY <1>1, <1>2, <1>3, <1>4, <1>5, <1>6

\* The writer gets in only if nobody is inside.
LEMMA LockSetInv ==
  ASSUME Inv, NEW t \in Thread, pc[t] = "set", Lock(t, "find")
  PROVE  Inv'
<1> USE GlobalsAssumption DEF Inv, memory, list, Goto, Lock
<1>1. TypeInv'
  BY DEF TypeInv, Call, Label, String, NoCall
<1>2. LockInv'
  BY DEF LockInv, TypeInv, Call
<1>3. CallInv'
  BY DEF CallInv, TypeInv
<1>4. ListInv'
  BY DEF ListInv
<1>5. ContentInv'
  BY DEF ContentInv, Settled, StringAt, TypeInv
<1>6. SeenInv'
  BY DEF SeenInv, StringAt, TypeInv
<1> QED
  BY <1>1, <1>2, <1>3, <1>4, <1>5, <1>6

\* The struct is off the list, whether it was on it or is new; the others
\* have other names.
LEMMA FindInv ==
  ASSUME Inv, NEW t \in Thread, Find(t)
  PROVE  Inv'
<1> USE GlobalsAssumption DEF Inv
<1> DEFINE n == call[t].name
<1>1. /\ pc[t] = "find" /\ pc' = [pc EXCEPT ![t] = "insert"] /\ n \in GlobalName
      /\ UNCHANGED <<mem, place, var_list_mtx, current, seen>>
      /\ \A u \in Thread \ {t} :
           pc[u] \notin {"find", "insert", "clear", "store", "read", "unlock"}
  BY DEF Find, Goto, memory, CallInv, LockInv
<1>2. PICK v \in Var :
        /\ \/ v \in global_vars /\ name[v] = n /\ UNCHANGED value
           \/ /\ (\A w \in global_vars : name[w] # n) /\ v \notin global_vars
              /\ value' = [value EXCEPT ![v] = NIL]
        /\ global_vars' = global_vars \ {v}
        /\ name' = [name EXCEPT ![v] = NIL]
        /\ call' = [call EXCEPT ![t].v = v]
  <2>1. CASE Found(n) = {}
    <3>1. PICK v \in Var \ global_vars :
            /\ name' = [name EXCEPT ![v] = NIL]
            /\ value' = [value EXCEPT ![v] = NIL]
            /\ call' = [call EXCEPT ![t].v = v]
            /\ UNCHANGED global_vars
      BY <2>1 DEF Find
    <3>2. global_vars' = global_vars \ {v} /\ \A w \in global_vars : name[w] # n
      BY <2>1, <3>1 DEF Found
    <3> QED
      BY <3>1, <3>2
  <2>2. CASE Found(n) # {}
    <3>1. PICK v \in Found(n) :
            /\ global_vars' = global_vars \ {v}
            /\ name' = [name EXCEPT ![v] = NIL]
            /\ call' = [call EXCEPT ![t].v = v]
            /\ UNCHANGED value
      BY <2>2 DEF Find
    <3> QED
      BY <3>1 DEF Found, TypeInv, Call
  <2> QED
    BY <2>1, <2>2
<1>3. TypeInv'
  <2>1. pc' \in [Thread -> Label] /\ global_vars' \subseteq Var
    BY <1>1, <1>2 DEF TypeInv, Call, Label
  <2>2. name' \in [Var -> GlobalName \cup {NIL}] /\ value' \in [Var -> Cell \cup {NIL}]
    BY <1>2 DEF TypeInv, Call
  <2>3. call' \in [Thread -> Call]
    BY <1>2 DEF TypeInv, Call
  <2> QED
    BY <1>1, <2>1, <2>2, <2>3 DEF TypeInv, Call
<1>4. LockInv'
  BY <1>1, <1>2 DEF LockInv, TypeInv, Call
<1>5. /\ call'[t].v = v /\ pc'[t] = "insert"
      /\ \A u \in Thread : /\ call'[u].name = call[u].name /\ call'[u].value = call[u].value
                           /\ call'[u].r = call[u].r
                           /\ u # t => pc'[u] = pc[u] /\ call'[u] = call[u]
  BY <1>1, <1>2 DEF TypeInv, Call
<1>6. \A w \in Var : /\ value'[w] # NIL => value'[w] = value[w]
                     /\ w # v => value'[w] = value[w] /\ name'[w] = name[w]
  BY <1>2 DEF TypeInv, Call
<1>7. CallInv'
  <2>1. v \in Var \ global_vars' /\ \A w \in global_vars' : name'[w] # n
    BY <1>2, <1>6 DEF ListInv, TypeInv, Call
  <2> QED
    BY <1>1, <1>5, <2>1 DEF CallInv
<1>8. ListInv'
  BY <1>1, <1>2, <1>6 DEF ListInv, TypeInv, Call
<1>9. ContentInv'
  <2> SUFFICES ASSUME NEW m \in GlobalName, Settled(m)'
               PROVE  /\ \A w \in global_vars' : name'[w] = m => StringAt(value[w])' = current[m]
                      /\ (\A w \in global_vars' : name'[w] # m) => current[m] = NIL
    BY <1>1 DEF ContentInv, StringAt
  <2>1. m # n /\ Settled(m)
    BY <1>1, <1>5 DEF Settled
  <2>2. \A w \in global_vars' : w \in global_vars /\ w # v /\ w \in Var
    BY <1>2 DEF TypeInv, Call
  <2>3. \A w \in global_vars' : name'[w] = name[w] /\ StringAt(value[w])' = StringAt(value[w])
    BY <1>1, <1>6, <2>2 DEF StringAt
  <2>4. v \in global_vars => name[v] # m
    BY <1>2, <2>1
  <2>5. \A w \in global_vars : name[w] = m => w \in global_vars'
    BY <1>2, <2>4
  <2> QED
    BY <2>1, <2>2, <2>3, <2>5 DEF ContentInv
<1>10. SeenInv'
  BY <1>1, <1>5 DEF SeenInv, StringAt
<1> QED
  BY <1>3, <1>4, <1>7, <1>8, <1>9, <1>10

\* No other has the name.
LEMMA InsertInv ==
  ASSUME Inv, NEW t \in Thread, Insert(t)
  PROVE  Inv'
<1> USE GlobalsAssumption DEF Inv, memory, list, Goto, Insert
<1>0. call[t].v \in Var \ global_vars /\ call[t].name \in GlobalName
  BY DEF CallInv
<1>1. TypeInv'
  BY <1>0 DEF TypeInv, Call, Label
<1>2. LockInv'
  BY DEF LockInv, TypeInv, Call
<1>3. CallInv'
  BY DEF LockInv, CallInv, TypeInv
<1>4. ListInv'
  <2>1. \A w \in global_vars : name[w] # call[t].name
    BY DEF CallInv, ListInv
  <2> QED
    BY <1>0, <2>1 DEF ListInv, TypeInv, Call
<1>5. ContentInv'
  BY DEF ContentInv, Settled, StringAt, CallInv, TypeInv
<1>6. SeenInv'
  BY DEF SeenInv, StringAt, TypeInv
<1> QED
  BY <1>1, <1>2, <1>3, <1>4, <1>5, <1>6

\* The cell that is freed is that of no other variable and of no task.
LEMMA ClearInv ==
  ASSUME Inv, NEW t \in Thread, Clear(t)
  PROVE  Inv'
<1> USE GlobalsAssumption DEF Inv, memory, list, Goto, Clear
<1>1. TypeInv'
  BY DEF TypeInv, Call, Label, String, NoCall
<1>2. LockInv'
  BY DEF LockInv, TypeInv, Call
<1>3. CallInv'
  BY DEF LockInv, CallInv, ListInv, TypeInv, Call
<1>4. ListInv'
  BY DEF CallInv, ListInv, TypeInv
<1>5. ContentInv'
  BY DEF CallInv, ListInv, ContentInv, Settled, StringAt, TypeInv
<1>6. SeenInv'
  <2>1. \A u \in Thread : StringAt(call[u].r)' = StringAt(call[u].r)
    <3> SUFFICES ASSUME NEW u \in Thread, call[u].r # NIL
                 PROVE  mem'[call[u].r] = mem[call[u].r]
      BY DEF StringAt
    <3>1. place[call[u].r] = u /\ call[u].r \in Cell
      BY DEF CallInv, TypeInv, Call
    <3>2. call[t].v \in Var /\ (value[call[t].v] # NIL => place[value[call[t].v]] = HEAP)
      BY DEF CallInv, ListInv, TypeInv, Call
    <3> QED
      BY <3>1, <3>2 DEF TypeInv
  <2> QED
    BY <2>1 DEF SeenInv, TypeInv
<1> QED
  BY <1>1, <1>2, <1>3, <1>4, <1>5, <1>6

\* The value takes effect when it is on the heap, in a cell of its own.
LEMMA StoreInv ==
  ASSUME Inv, NEW t \in Thread, Store(t)
  PROVE  Inv'
<1> USE GlobalsAssumption DEF Inv, memory, list, Goto, Store, Copy, TakesEffect
<1>0. /\ call[t].v \in Var /\ call[t].name \in GlobalName /\ value[call[t].v] = NIL
      /\ call[t].value # NIL => call[t].value \in Cell /\ mem[call[t].value] \in String
  BY DEF CallInv, TypeInv, Call
<1>1. TypeInv'
  <2>1. pc' \in [Thread -> Label]
    BY DEF TypeInv, Call, Label
  <2>2. ASSUME NEW s \in String, TakesEffect(call[t].name, s)
        PROVE  current' \in [GlobalName -> String] /\ seen' \in [Thread -> SUBSET String]
    BY <1>0, <2>2 DEF TypeInv, Call
  <2>3. CASE UNCHANGED <<value, mem, place>> /\ TakesEffect(call[t].name, NIL)
    <3>1. current' \in [GlobalName -> String] /\ seen' \in [Thread -> SUBSET String]
      BY <2>2, <2>3 DEF String
    <3> QED
      BY <2>1, <2>3, <3>1 DEF TypeInv, Call
  <2>4. ASSUME call[t].value # NIL, NEW c \in Cell, Copy(c, mem[call[t].value], HEAP),
               value' = [value EXCEPT ![call[t].v] = c],
               TakesEffect(call[t].name, mem[call[t].value])
        PROVE  TypeInv'
    <3>1. current' \in [GlobalName -> String] /\ seen' \in [Thread -> SUBSET String]
      BY <1>0, <2>2, <2>4
    <3>2. /\ value' \in [Var -> Cell \cup {NIL}] /\ mem' \in [Cell -> String]
          /\ place' \in [Cell -> Thread \cup {HEAP, NIL}]
      BY <1>0, <2>4 DEF TypeInv, Call
    <3> QED
      BY <2>1, <3>1, <3>2 DEF TypeInv, Call
  <2> QED
    BY <2>3, <2>4
<1>2. LockInv'
  BY DEF LockInv, TypeInv, Call
<1>3. CallInv'
  BY DEF LockInv, CallInv, TypeInv, Call
<1>4. ListInv'
  <2>1. CASE UNCHANGED <<value, mem, place>>
    BY <2>1 DEF ListInv
  <2>2. ASSUME NEW c \in Cell, place[c] = NIL, place' = [place EXCEPT ![c] = HEAP],
               value' = [value EXCEPT ![call[t].v] = c]
        PROVE  ListInv'
    <3>1. \A v \in Var : value[v] # c
      BY <2>2 DEF ListInv
    <3>2. /\ value'[call[t].v] = c /\ place'[c] = HEAP
          /\ \A v \in Var : v # call[t].v => value'[v] = value[v]
          /\ \A d \in Cell : d # c => place'[d] = place[d]
      BY <1>0, <2>2 DEF TypeInv, Call
    <3>3. \A v \in Var : value[v] # NIL => value[v] \in Cell
      BY DEF TypeInv, Call
    <3> QED
      BY <1>0, <3>1, <3>2, <3>3 DEF ListInv
  <2> QED
    BY <2>1, <2>2
<1>5. ContentInv'
  BY SMTT(30) DEF LockInv, CallInv, ListInv, ContentInv, Settled, StringAt, TypeInv, Call
<1>6. SeenInv'
  BY SMTT(30) DEF LockInv, CallInv, ListInv, ContentInv, SeenInv, Settled, StringAt, TypeInv, Call
<1> QED
  BY <1>1, <1>2, <1>3, <1>4, <1>5, <1>6

\* The task forgets what it had of earlier calls.
LEMMA CallGetInv ==
  ASSUME Inv, NEW t \in Thread, NEW n \in GlobalName \cup {NIL}, CallGet(t, n)
  PROVE  Inv'
<1> USE GlobalsAssumption DEF Inv, memory, list, Goto, CallGet
<1>1. TypeInv'
  <2>1. pc' \in [Thread -> Label]
    BY DEF TypeInv, Call, Label
  <2>2. (IF n = NIL THEN NIL ELSE current[n]) \in String
    BY DEF TypeInv, Call, String
  <2>3. seen' \in [Thread -> SUBSET String]
    BY <2>2 DEF TypeInv, Call
  <2>4. call' \in [Thread -> Call]
    BY DEF TypeInv, Call, NoCall
  <2> QED
    BY <2>1, <2>3, <2>4 DEF TypeInv, Call
<1>2. /\ call'[t] = [name |-> n, value |-> NIL, v |-> NIL, r |-> NIL]
      /\ \A u \in Thread : u # t => call'[u] = call[u]
  BY DEF TypeInv, NoCall
<1>3. LockInv' /\ ListInv'
  BY DEF LockInv, ListInv, TypeInv
<1>4. CallInv'
  BY <1>2 DEF CallInv, TypeInv
<1>5. ContentInv'
  BY <1>2 DEF ContentInv, Settled, StringAt, TypeInv
<1>6. SeenInv'
  BY <1>2 DEF SeenInv, StringAt, TypeInv
<1> QED
  BY <1>1, <1>3, <1>4, <1>5, <1>6

\* The reader gets in only if nobody is inside, and so finds the list settled.
LEMMA LockGetInv ==
  ASSUME Inv, NEW t \in Thread, pc[t] = "get", Lock(t, "read")
  PROVE  Inv'
<1> USE GlobalsAssumption DEF Inv, memory, list, Goto, Lock
<1>1. TypeInv'
  BY DEF TypeInv, Call, Label, String, NoCall
<1>2. LockInv'
  BY DEF LockInv, TypeInv, Call
<1>3. CallInv'
  BY DEF CallInv, TypeInv
<1>4. ListInv'
  BY DEF ListInv
<1>5. ContentInv'
  BY DEF ContentInv, Settled, StringAt, TypeInv
<1>6. SeenInv'
  BY DEF SeenInv, StringAt, TypeInv
<1> QED
  BY <1>1, <1>2, <1>3, <1>4, <1>5, <1>6

\* The copy is of what the variable is now, in a cell that nobody has.
LEMMA ReadInv ==
  ASSUME Inv, NEW t \in Thread, Read(t)
  PROVE  Inv'
<1> USE GlobalsAssumption DEF Inv
<1> DEFINE n == call[t].name
<1>0. /\ pc[t] = "read" /\ call[t].r = NIL
      /\ UNCHANGED <<global_vars, name, value, var_list_mtx, current, seen>>
      /\ \A u \in Thread \ {t} :
           pc[u] \notin {"find", "insert", "clear", "store", "read", "unlock"}
  BY DEF Read, list, LockInv, SeenInv
<1>1. CASE UNCHANGED <<mem, place, pc, call>>
  BY <1>0, <1>1 DEF TypeInv, Call, LockInv, CallInv, ListInv, ContentInv, Settled, SeenInv, StringAt
<1>2. ASSUME n # NIL \/ global_vars = {}, \A v \in Found(n) : value[v] = NIL,
             pc' = [pc EXCEPT ![t] = "unlock"], UNCHANGED <<mem, place, call>>
      PROVE  Inv'
  <2>1. TypeInv' /\ LockInv' /\ CallInv' /\ ListInv'
    BY <1>0, <1>2 DEF TypeInv, Call, Label, LockInv, CallInv, ListInv
  <2>2. ContentInv'
    BY <1>0, <1>2 DEF ContentInv, Settled, StringAt, TypeInv, Call
  <2>3. n # NIL => n \in GlobalName /\ current[n] = NIL
    <3> SUFFICES ASSUME n # NIL PROVE n \in GlobalName /\ current[n] = NIL
      OBVIOUS
    <3>1. n \in GlobalName /\ Settled(n)
      BY <1>0 DEF Settled, TypeInv, Call
    <3> QED
      BY <1>2, <3>1 DEF ContentInv, Found, StringAt
  <2>4. SeenInv'
    BY <1>0, <1>2, <2>3 DEF SeenInv, StringAt, TypeInv, Call
  <2> QED
    BY <2>1, <2>2, <2>4
<1>3. ASSUME NEW v \in Found(n), value[v] # NIL, NEW c \in Cell,
             Copy(c, mem[value[v]], t), call' = [call EXCEPT ![t].r = c],
             pc' = [pc EXCEPT ![t] = "unlock"]
      PROVE  Inv'
  <2>1. /\ v \in global_vars /\ name[v] = n /\ n \in GlobalName /\ Settled(n)
        /\ place[c] = NIL /\ mem[value[v]] \in String
    BY <1>0, <1>3 DEF Found, ListInv, Settled, TypeInv, Call, Copy
  <2>2. /\ mem'[c] = mem[value[v]] /\ place'[c] = t
        /\ \A d \in Cell : d # c => mem'[d] = mem[d] /\ place'[d] = place[d]
    BY <1>3 DEF Copy, TypeInv, Call
  <2>3. /\ call'[t].r = c /\ pc'[t] = "unlock"
        /\ \A u \in Thread : /\ call'[u].name = call[u].name /\ call'[u].value = call[u].value
                             /\ call'[u].v = call[u].v
                             /\ u # t => pc'[u] = pc[u] /\ call'[u] = call[u]
    BY <1>3 DEF TypeInv, Call
  <2>4. TypeInv'
    BY <1>0, <1>3, <2>1 DEF TypeInv, Call, Label, Copy
  <2>5. LockInv' /\ ListInv'
    BY <1>0, <1>3, <2>1, <2>2 DEF LockInv, ListInv, TypeInv, Call
  <2>6. CallInv'
    BY <1>0, <2>1, <2>2, <2>3 DEF CallInv, TypeInv, Call
  <2>7. \A w \in Var : StringAt(value[w])' = StringAt(value[w])
    BY <1>0, <2>1, <2>2 DEF StringAt, ListInv, TypeInv, Call
  <2>8. \A m \in GlobalName : Settled(m)' => Settled(m)
    BY <1>0, <2>3 DEF Settled
  <2>9. ContentInv'
    BY <1>0, <2>7, <2>8 DEF ContentInv, TypeInv, Call
  <2>10. StringAt(c)' = current[n]
    BY <1>3, <2>1, <2>2 DEF ContentInv, StringAt
  <2>11. \A u \in Thread : u # t => StringAt(call[u].r)' = StringAt(call[u].r)
    BY <2>1, <2>2, <2>3 DEF CallInv, StringAt, TypeInv, Call
  <2>12. current[n] \in seen[t]
    BY <1>0, <2>1 DEF SeenInv
  <2>13. SeenInv'
    BY <1>0, <2>3, <2>10, <2>11, <2>12 DEF SeenInv
  <2> QED
    BY <2>4, <2>5, <2>6, <2>9, <2>13
<1> QED
  BY <1>1, <1>2, <1>3 DEF Read, memory, Goto

\* The result stays where it is.
LEMMA UnlockInv ==
  ASSUME Inv, NEW t \in Thread, Unlock(t)
  PROVE  Inv'
<1> USE GlobalsAssumption DEF Inv, memory, list, Goto, Unlock, NoCall
<1>1. TypeInv'
  BY DEF TypeInv, Call, Label, String, NoCall
<1>2. LockInv'
  BY DEF LockInv, TypeInv, Call
<1>3. CallInv'
  BY DEF CallInv, TypeInv, Call
<1>4. ListInv'
  BY DEF ListInv
<1>5. ContentInv'
  BY DEF ContentInv, Settled, StringAt, TypeInv
<1>6. SeenInv'
  BY DEF SeenInv, StringAt, TypeInv, Call
<1> QED
  BY <1>1, <1>2, <1>3, <1>4, <1>5, <1>6

\* What goes is only the task's own.
LEMMA FinishInv ==
  ASSUME Inv, NEW t \in Thread, Finish(t)
  PROVE  Inv'
<1> USE GlobalsAssumption DEF Inv, memory, list, Goto, Finish, NoCall
<1>1. TypeInv'
  BY DEF TypeInv, Call, Label, String, NoCall
<1>2. LockInv'
  BY DEF LockInv, TypeInv, Call
<1>3. CallInv'
  BY DEF CallInv, TypeInv, Call
<1>4. ListInv'
  BY DEF ListInv, TypeInv
<1>5. ContentInv'
  BY DEF ListInv, ContentInv, Settled, StringAt, TypeInv
<1>6. SeenInv'
  BY DEF CallInv, SeenInv, StringAt, TypeInv, Call
<1> QED
  BY <1>1, <1>2, <1>3, <1>4, <1>5, <1>6

\* The invariant is inductive.
LEMMA NextInv == Inv /\ [GlobalsNext]_gvars => Inv'
<1> SUFFICES ASSUME Inv, [GlobalsNext]_gvars PROVE Inv'
  OBVIOUS
<1>1. ASSUME NEW t \in Thread, vmod_global_set(t) PROVE Inv'
  BY <1>1, CallSetInv, LockSetInv, FindInv, InsertInv, ClearInv, StoreInv DEF vmod_global_set
<1>2. ASSUME NEW t \in Thread, vmod_global_get(t) PROVE Inv'
  BY <1>2, CallGetInv, LockGetInv, ReadInv DEF vmod_global_get
<1>3. ASSUME UNCHANGED gvars PROVE Inv'
  BY <1>3 DEF gvars, list, memory, Inv, TypeInv, Call, LockInv, CallInv, ListInv, ContentInv,
              Settled, SeenInv, StringAt
<1> QED
  BY <1>1, <1>2, <1>3, UnlockInv, FinishInv DEF GlobalsNext, Halted

\* What global_get of vmod_var.c has returned to a task is, and stays, a value
\* that the variable had during the call, for any threads that call global_set
\* and global_get of any variables and end their tasks at any time.
THEOREM GlobalsReads == GlobalsSpec => []GlobalReads
<1>1. Inv => GlobalReads
  BY DEF Inv, SeenInv, GlobalReads
<1> QED
  BY <1>1, InitInv, NextInv, PTL DEF GlobalsSpec
=============================================================================
