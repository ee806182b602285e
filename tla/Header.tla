------------------------------- MODULE Header -------------------------------
(***************************************************************************)
(* vmod_header.c: the headers of a message of a task, of which several may *)
(* have the same name.  append and copy take the text of a header from the *)
(* workspace, one unit each, and a slot of the table; either may run out.  *)
(* copy goes through the table while it appends to it.                     *)
(*                                                                         *)
(* A regular expression is the set of values that it matches; the empty    *)
(* value never is, whatever the expression.  That a call site keeps its    *)
(* first expression is the subject of module CallSite.                     *)
(***************************************************************************)
EXTENDS Integers, Sequences, SequencesExt, Places

CONSTANTS
  HeaderName,
  Content,   \* values of headers, "" among them
  MAX_HDR,   \* slots of the table (http_max_hdr)
  NULL

VARIABLES
  hd,       \* the headers: name, value
  copying,  \* where copy is: src, dst, u; as a ghost, what it began with
  ws        \* the free units of the workspace

-----------------------------------------------------------------------------
\* Whether a header has the name and, unless re is NULL, a value that re matches.
header_http_match(h, name, re) ==
  /\ h.name = name
  /\ re = NULL \/ (h.value # "" /\ h.value \in re)

\* External: http_SetHeader drops the header if the table is full.
http_SetHeader(h) == IF Len(hd) < MAX_HDR THEN Append(hd, h) ELSE hd

\* The header is lost if there is no workspace for it.
vmod_append(name, value) ==
  /\ hd' = IF ws < 1 THEN hd ELSE http_SetHeader([name |-> name, value |-> value])
  /\ ws' = IF ws < 1 THEN ws ELSE ws - 1

\* Mutant: the place to write to moves on with the place to read from.
UnsetSlot_gap(s, u, name, re) ==
  [hd |-> [s.hd EXCEPT ![s.v] = s.hd[u]], v |-> s.v + 1]

\* One turn of the loop: the headers that stay move up, within the table.
UnsetSlot(s, u, name, re) ==
  IF header_http_match(s.hd[u], name, re) THEN s
  ELSE [hd |-> [s.hd EXCEPT ![s.v] = s.hd[u]], v |-> s.v + 1]

header_http_Unset(name, re) ==
  LET turn[u \in 0..Len(hd)] ==
        IF u = 0 THEN [hd |-> hd, v |-> 1] ELSE UnsetSlot(turn[u - 1], u, name, re)
      s == turn[Len(hd)]
  IN SubSeq(s.hd, 1, s.v - 1)

vmod_remove(name, re) == hd' = header_http_Unset(name, re) /\ UNCHANGED ws

\* get: the value of the first header that matches.
vmod_get(name, re) ==
  LET u == SelectInSeq(hd, LAMBDA h : header_http_match(h, name, re)) IN
  IF u = 0 THEN NULL ELSE hd[u].value

-----------------------------------------------------------------------------
vmod_copy(src, dst) ==
  /\ copying = NULL
  /\ copying' = [src |-> src, dst |-> dst, u |-> 1, from |-> hd, room |-> ws]
  /\ UNCHANGED <<hd, ws>>

\* Mutant: tries again what could not be added.
cphdr_retry ==
  LET c == copying IN
  /\ c # NULL /\ c.u <= Len(hd)
  /\ IF header_http_match(hd[c.u], c.src, NULL)
     THEN vmod_append(c.dst, hd[c.u].value)
     ELSE UNCHANGED <<hd, ws>>
  /\ copying' = IF header_http_match(hd[c.u], c.src, NULL) /\ hd' = hd THEN c
                ELSE [c EXCEPT !.u = @ + 1]

\* Mutant: the header is copied under its own name.
cphdr_src ==
  LET c == copying IN
  /\ c # NULL /\ c.u <= Len(hd)
  /\ copying' = [c EXCEPT !.u = @ + 1]
  /\ IF header_http_match(hd[c.u], c.src, NULL)
     THEN vmod_append(c.src, hd[c.u].value)
     ELSE UNCHANGED <<hd, ws>>

\* One turn of the loop.  The table may have grown since the last one.
header_http_cphdr ==
  LET c == copying IN
  /\ c # NULL /\ c.u <= Len(hd)
  /\ copying' = [c EXCEPT !.u = @ + 1]
  /\ IF header_http_match(hd[c.u], c.src, NULL)
     THEN vmod_append(c.dst, hd[c.u].value)
     ELSE UNCHANGED <<hd, ws>>

cphdr_end ==
  /\ copying # NULL /\ copying.u > Len(hd)
  /\ copying' = NULL
  /\ UNCHANGED <<hd, ws>>

Copy == header_http_cphdr \/ cphdr_end

Next ==
  \/ /\ \/ \E name \in HeaderName, value \in Content : vmod_append(name, value)
        \/ \E name \in HeaderName, re \in SUBSET (Content \ {""}) : vmod_remove(name, re)
     /\ UNCHANGED copying
  \/ \E src, dst \in HeaderName : vmod_copy(src, dst)

-----------------------------------------------------------------------------
Matching(l, name, re) == {i \in DOMAIN l : header_http_match(l[i], name, re)}

(***************************************************************************)
(* remove takes away the headers of that name that the regex matches, and  *)
(* no other; the rest keep their order.  get finds what remove would take. *)
(***************************************************************************)
RemoveExact ==
  \A name \in HeaderName, re \in SUBSET (Content \ {""}) :
    /\ header_http_Unset(name, re) = Select(hd, DOMAIN hd \ Matching(hd, name, re))
    /\ vmod_get(name, re) = NULL <=> header_http_Unset(name, re) = hd

(***************************************************************************)
(* copy leaves the table as it was and adds to it: under the new name, in  *)
(* order, the first values that it had under the old one; all of them, if  *)
(* there are slots and workspace.  Of a header that is copied to itself    *)
(* there is more than that to find.                                        *)
(***************************************************************************)
CopyExact ==
  copying # NULL /\ copying.src # copying.dst =>
    LET had == Select(copying.from, Matching(copying.from, copying.src, NULL))
        new == SubSeq(hd, Len(copying.from) + 1, Len(hd))
        min(a, b) == IF a < b THEN a ELSE b
    IN /\ SubSeq(hd, 1, Len(copying.from)) = copying.from
       /\ Len(new) <= Len(had)
       /\ \A i \in DOMAIN new : new[i] = [name |-> copying.dst, value |-> had[i].value]
       /\ copying.u > Len(hd) =>
            Len(new) = min(Len(had), min(copying.room, MAX_HDR - Len(copying.from)))
=============================================================================
