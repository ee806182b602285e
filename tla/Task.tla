-------------------------------- MODULE Task --------------------------------
(***************************************************************************)
(* Tasks of varnishd, one after the other, that call vmod_cookie, vmod_var *)
(* and vmod_header in any order.  The modules share the workspace of the   *)
(* task; what they keep for it (PRIV_TASK) is freed when it ends.          *)
(***************************************************************************)
EXTENDS Integers, Sequences

CONSTANTS
  Atom, Value, CookieHeader,                   \* of Cookie
  VarName, Text, IntValue, Backend, INT_MAX,  \* of Var
  HeaderName, Content, MAX_HDR,                \* of Header
  Received,  \* the headers that a message may come with
  NULL,
  MaxWs      \* the size of the workspace

VARIABLES cookielist, vh, last, panic, hd, copying, ws

vars == <<cookielist, vh, last, panic, hd, copying, ws>>

C == INSTANCE Cookie
V == INSTANCE Var
H == INSTANCE Header

ASSUME TaskAssumption ==
  /\ MaxWs \in Nat
  /\ CookieHeader \subseteq Seq(C!Piece)
  /\ INT_MAX \in Nat /\ IntValue \subseteq Int
  /\ NULL \notin Text \cup IntValue \cup Backend
  /\ NULL \notin [type : V!Type, value : Text \cup IntValue \cup Backend]
  /\ MAX_HDR \in Nat /\ NULL \notin Content
  /\ Received \subseteq Seq([name : HeaderName, value : Content])
  /\ \A h \in Received : Len(h) <= MaxWs /\ Len(h) <= MAX_HDR

-----------------------------------------------------------------------------
Init ==
  /\ C!Init /\ V!Init
  /\ hd \in Received /\ copying = NULL
  /\ ws = MaxWs - Len(hd)  \* the received headers are in it, too

\* The task ends, and the next one begins.
EndTask ==
  /\ copying = NULL /\ ~panic
  /\ cookielist' = <<>>
  /\ vh' = <<>> /\ last' = [n \in VarName |-> NULL]
  /\ hd' \in Received /\ ws' = MaxWs - Len(hd')
  /\ UNCHANGED <<panic, copying>>

\* A thread is in one call at a time.
Ready == copying = NULL /\ ~panic

CookieCall ==
  /\ Ready /\ C!Next
  /\ UNCHANGED <<vh, last, panic, hd, copying>>

VarCall ==
  /\ Ready /\ V!Next
  /\ UNCHANGED <<cookielist, hd, copying>>

HeaderCall ==
  /\ Ready /\ H!Next
  /\ UNCHANGED <<cookielist, vh, last, panic>>

\* copy, which takes several steps.
CopyStep ==
  /\ H!Copy
  /\ UNCHANGED <<cookielist, vh, last, panic>>

Next == CookieCall \/ VarCall \/ HeaderCall \/ CopyStep \/ EndTask

Spec == Init /\ [][Next]_vars

\* A call that has begun goes on.
FairSpec == Spec /\ WF_vars(CopyStep)

-----------------------------------------------------------------------------
(***************************************************************************)
(* No memory is handed out twice and none is used that was not: what the   *)
(* lists of vmod_cookie.c, vmod_var.c and vmod_header.c take up is not     *)
(* more than what has been taken from the workspace that they share, and   *)
(* that is not more than there was; and the headers fit in their table,    *)
(* however often workspace and table have run out.                         *)
(***************************************************************************)
Accounted ==
  /\ C!Size(cookielist) + V!Size(vh) + Len(hd) <= MaxWs - ws
  /\ ws >= 0
  /\ Len(hd) <= MAX_HDR

\* As stated in Cookie, Var and Header, of the code of these modules.
RoundTrip == C!RoundTrip
ParseReads == C!ParseReads
GetsLast == V!GetsLast
RemoveExact == H!RemoveExact
CopyExact == H!CopyExact

\* copy ends, although it may append to what it goes through: the table of
\* headers has an end.
CopyEnds == copying # NULL ~> copying = NULL
=============================================================================
