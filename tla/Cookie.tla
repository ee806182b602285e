------------------------------- MODULE Cookie -------------------------------
(***************************************************************************)
(* vmod_cookie.c: the cookies of one task, a list of names and values in   *)
(* the workspace of the task.  The workspace is shared with the task's     *)
(* other modules and may run out between any two allocations.              *)
(*                                                                         *)
(* Text.  A Cookie header is the sequence of its pieces between ';'.  A    *)
(* piece is a pair <<n, v>> if it has a '=', else <<n>>.  parse looks for  *)
(* '=' past any ';', so that pieces without one become part of the next    *)
(* name: a name is a sequence of atoms, of which all but the last are such *)
(* pieces.  White space around names and the ',' of filter lists are left  *)
(* out.  An atom, a value and a struct cookie take one unit each.          *)
(***************************************************************************)
EXTENDS Integers, Sequences, SequencesExt, Places

CONSTANTS
  Atom, Value,  \* nonempty strings without separators
  CookieHeader  \* Cookie headers, of pieces over these and ""

VARIABLES
  cookielist,  \* the list, of records name, value
  ws           \* the free units of the workspace

Piece == {<<a>> : a \in Atom \cup {""}} \cup ((Atom \cup {""}) \X (Value \cup {""}))

\* The names that a VCL uses.
Name == {<<a>> : a \in Atom \cup {""}}

\* External: WS_Alloc and WS_Printf take nothing if there is too little left.
Alloc(w, n) == IF n <= w THEN w - n ELSE w

\* What set and parse work on.  name: what parse has read of the next name.
State(l, w) == [list |-> l, ws |-> w, name |-> <<>>]

-----------------------------------------------------------------------------
\* The place of the first cookie of that name, 0 if there is none.
find_cookie(l, name) == SelectInSeq(l, LAMBDA c : c.name = name)

\* Mutant: a cookie is linked if there is room for the name.
FitsName(w, name) == w >= 1 /\ Alloc(w, 1) >= Len(name)

Empty(name, value) == name = <<"">> \/ value = ""

\* Whether a new cookie, its name and its value get their memory.
Fits(w, name) ==
  /\ w >= 1
  /\ Alloc(w, 1) >= Len(name)
  /\ Alloc(Alloc(w, 1), Len(name)) >= 1

\* set.  A cookie that is there keeps its place, and its old value if the new
\* one does not fit.  A new one is linked only if all of it fits; name and
\* value are both tried, and what they got is lost otherwise.
Set(s, name, value) ==
  LET i == find_cookie(s.list, name)
      c == [name |-> name, value |-> value]
  IN IF Empty(name, value) THEN s
     ELSE IF i # 0
     THEN [s EXCEPT !.list = IF s.ws >= 1 THEN [@ EXCEPT ![i] = c] ELSE @,
                    !.ws = Alloc(@, 1)]
     ELSE [s EXCEPT !.list = IF Fits(s.ws, name) THEN Append(@, c) ELSE @,
                    !.ws = Alloc(Alloc(Alloc(@, 1), Len(name)), 1)]

\* Mutant: a name ends at ';', too.
ParsePieceOnly(s, piece) ==
  IF Len(piece) = 1 THEN s ELSE Set(s, <<piece[1]>>, piece[2])

\* One turn of the loop of parse: a piece without '=' is carried on.
ParsePiece(s, piece) ==
  IF Len(piece) = 1 THEN [s EXCEPT !.name = Append(@, piece[1])]
  ELSE [Set(s, Append(s.name, piece[1]), piece[2]) EXCEPT !.name = <<>>]

\* parse, with w units of workspace; the old cookies are cleaned out.
Parse(h, w) ==
  LET turn[i \in 0..Len(h)] ==
        IF i = 0 THEN State(<<>>, w) ELSE ParsePiece(turn[i - 1], h[i])
  IN turn[Len(h)]

\* Mutant: a cookie that is not the first is separated by ' ' only, so that
\* its text is part of the value before it.
TextUnseparated(l) ==
  IF l = <<>> THEN <<>>
  ELSE [j \in 1..Len(l[1].name) |->
         IF j < Len(l[1].name) THEN <<l[1].name[j]>> ELSE <<l[1].name[j], l[1].value>>]

\* The text that get_string writes, and its length.
CookieText(l) ==
  FlattenSeq([i \in DOMAIN l |->
    [j \in 1..Len(l[i].name) |->
      IF j < Len(l[i].name) THEN <<l[i].name[j]>>
                            ELSE <<l[i].name[j], l[i].value>>]])

TextLen(l) == Total([i \in DOMAIN l |-> Len(l[i].name) + 1])

-----------------------------------------------------------------------------
vmod_parse(h) ==
  LET s == Parse(h, ws) IN
  /\ h # <<>>  \* else there is nothing to parse, and the list stays
  /\ cookielist' = s.list /\ ws' = s.ws

vmod_set(name, value) ==
  LET s == Set(State(cookielist, ws), name, value) IN
  cookielist' = s.list /\ ws' = s.ws

vmod_delete(name) ==
  LET i == find_cookie(cookielist, name) IN
  /\ cookielist' = Select(cookielist, DOMAIN cookielist \ {i})
  /\ UNCHANGED ws

vmod_clean == cookielist' = <<>> /\ UNCHANGED ws

\* filter (action FALSE) drops the names listed, filter_except the others.
filter_cookies(names, action) ==
  /\ cookielist' = Select(cookielist, {i \in DOMAIN cookielist :
                                         (cookielist[i].name \in names) = action})
  /\ UNCHANGED ws

vmod_get_string == ws' = Alloc(ws, TextLen(cookielist) + 1) /\ UNCHANGED cookielist

Init == cookielist = <<>>

Next ==
  \/ \E h \in CookieHeader : vmod_parse(h)
  \/ \E name \in Name, value \in Value \cup {""} : vmod_set(name, value)
  \/ \E name \in Name : vmod_delete(name)
  \/ vmod_clean
  \/ \E names \in SUBSET Name, action \in BOOLEAN :
       filter_cookies(names, action)
  \/ vmod_get_string

-----------------------------------------------------------------------------
\* The workspace that the cookies of a list take up.
Size(l) == TextLen(l) + Len(l)

\* The name that parse gives to the value of the i-th piece, if it has one:
\* it begins after the last value before it.
NameAt(h, i) ==
  LET first == CHOOSE k \in 1..i : /\ k = 1 \/ Len(h[k - 1]) = 2
                                   /\ \A j \in k..(i - 1) : Len(h[j]) = 1
  IN [j \in 1..(i - first + 1) |-> h[first + j - 1][1]]

\* The places of a header that give a value to a name, and what they give.
Given(h) == {i \in DOMAIN h : Len(h[i]) = 2 /\ ~Empty(NameAt(h, i), h[i][2])}

Reads(h, I) == {[name |-> NameAt(h, i), value |-> h[i][2]] : i \in I}

(***************************************************************************)
(* get_string and parse are inverse to each other: whatever was set,       *)
(* parsed, filtered and lost for want of memory before, the text that goes *)
(* to the backend gives each cookie its value, once, and parse makes the   *)
(* same list of it.                                                        *)
(***************************************************************************)
RoundTrip ==
  LET t == CookieText(cookielist) IN
  /\ Reads(t, Given(t)) = ToSet(cookielist)
  /\ \A i, j \in Given(t) : NameAt(t, i) = NameAt(t, j) => i = j
  /\ Parse(t, Size(cookielist)).list = cookielist

(***************************************************************************)
(* What parse reads: for each name the last value that the header gives    *)
(* it, if the workspace has room for all.  If it has not, some cookies are *)
(* missing or have an older value, but there is none that the header does  *)
(* not have.  Asked for with the workspace that is left at any point of a  *)
(* task that has no cookies.                                               *)
(***************************************************************************)
ParseReads ==
  cookielist = <<>> =>
    \A h \in CookieHeader :
      LET l == ToSet(Parse(h, ws).list)
          last == {i \in Given(h) : \A j \in Given(h) : j > i => NameAt(h, j) # NameAt(h, i)}
      IN IF 3 * Len(h) <= ws THEN l = Reads(h, last) ELSE l \subseteq Reads(h, Given(h))
=============================================================================
