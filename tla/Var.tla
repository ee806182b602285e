-------------------------------- MODULE Var ---------------------------------
(***************************************************************************)
(* vmod_var.c: variables of a task, in its workspace.  The global ones are *)
(* in module Globals.                                                      *)
(*                                                                         *)
(* A struct var, a name and a string take one unit of the workspace each.  *)
(* If a variable does not fit, AN() fails and varnishd panics; if the      *)
(* string of a variable does not, it is NULL.                              *)
(* VCL_INT is wider than the int it is stored in, which goes up to INT_MAX *)
(* here.  BACKEND stands for the types that are stored as they are (REAL,  *)
(* DURATION, BACKEND), STRING for those that are copied (STRING, IP).      *)
(***************************************************************************)
EXTENDS Integers, Sequences, SequencesExt, Places

CONSTANTS
  VarName, Text,  \* names, strings
  IntValue,  \* values of VCL_INT
  Backend,
  INT_MAX,
  NULL

VARIABLES
  vh,    \* the list of the task: name, type, value
  last,  \* ghost: what was last set, of each variable
  ws,    \* the free units of the workspace
  panic

Type == {"STRING", "INT", "BACKEND"}

ValueOf(type) ==
  CASE type = "STRING" -> Text [] type = "INT" -> IntValue [] type = "BACKEND" -> Backend

\* A VCL_INT as an int.
ToInt(n) ==
  LET m == 2 * (INT_MAX + 1)
      k == n % m
  IN IF k >= m \div 2 THEN k - m ELSE k

InRange(n) == -INT_MAX - 1 <= n /\ n <= INT_MAX

\* The place of a variable on a list, 0 if there is none.
vh_get_var(l, name) == SelectInSeq(l, LAMBDA v : v.name = name)

\* The list with the variable on it.
vh_get_var_alloc(name) ==
  IF vh_get_var(vh, name) # 0 THEN vh
  ELSE <<[name |-> name, type |-> "STRING", value |-> NULL]>> \o vh

\* What a variable costs that is set to a type, and what is stored in it if
\* w units are left for the value.
VarCost(name) == IF vh_get_var(vh, name) # 0 THEN 0 ELSE 2

Stored(type, value, w) ==
  CASE type = "STRING" -> IF w < 1 THEN NULL ELSE value
    [] type = "INT" -> ToInt(value)
    [] type = "BACKEND" -> value

\* Mutant: the type of a variable stays what it was first.
set_typed_once(name, type, value) ==
  LET w == ws - VarCost(name)
      l == vh_get_var_alloc(name)
      i == vh_get_var(l, name)
  IN IF w < 0 THEN panic' = TRUE /\ UNCHANGED <<vh, last, ws>>
     ELSE /\ vh' = [l EXCEPT ![i].value = Stored(type, value, w),
                             ![i].type = IF l = vh THEN @ ELSE type]
          /\ ws' = IF type = "STRING" /\ w >= 1 THEN w - 1 ELSE w
          /\ last' = [last EXCEPT ![name] = [type |-> type, value |-> value]]
          /\ UNCHANGED panic

\* set, set_string, set_ip, set_int, set_real, set_duration, set_backend.
vmod_set(name, type, value) ==
  LET w == ws - VarCost(name)
      l == vh_get_var_alloc(name)
      i == vh_get_var(l, name)
  IN IF w < 0 THEN panic' = TRUE /\ UNCHANGED <<vh, last, ws>>
     ELSE /\ vh' = [l EXCEPT ![i] = [name |-> name, type |-> type,
                                     value |-> Stored(type, value, w)]]
          /\ ws' = IF type = "STRING" /\ w >= 1 THEN w - 1 ELSE w
          /\ last' = [last EXCEPT ![name] = [type |-> type, value |-> value]]
          /\ UNCHANGED panic

\* What get and its siblings return.
vmod_get(name, type) ==
  LET i == vh_get_var(vh, name) IN
  IF i = 0 \/ vh[i].type # type THEN NULL ELSE vh[i].value

vmod_clear ==
  /\ vh' = <<>> /\ last' = [n \in VarName |-> NULL]
  /\ UNCHANGED <<ws, panic>>

Init == vh = <<>> /\ last = [n \in VarName |-> NULL] /\ panic = FALSE

Next ==
  \/ \E name \in VarName, type \in Type : \E value \in ValueOf(type) :
       vmod_set(name, type, value)
  \/ vmod_clear

-----------------------------------------------------------------------------
\* The workspace that the variables of the task take up.
SizeOf(v) == IF v.type = "STRING" /\ v.value # NULL THEN 3 ELSE 2

Size(l) == Total([i \in DOMAIN l |-> SizeOf(l[i])])

(***************************************************************************)
(* A variable has the type and the value that it was last set to since the *)
(* last clear, and no value of another type: integers if an int can hold   *)
(* them, strings unless there was no room for them.                        *)
(***************************************************************************)
GetsLast ==
  \A n \in VarName, type \in Type :
    IF last[n] = NULL \/ last[n].type # type THEN vmod_get(n, type) = NULL
    ELSE \/ vmod_get(n, type) = last[n].value
         \/ type = "STRING" /\ vmod_get(n, type) = NULL
         \/ type = "INT" /\ ~InRange(last[n].value)
=============================================================================
