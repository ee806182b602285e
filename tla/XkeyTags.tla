------------------------------ MODULE XkeyTags ------------------------------
(***************************************************************************)
(* What the index of vmod_xkey promises, without the trees, lists and      *)
(* pools that implement it: for every cached object and every key digest,  *)
(* how many times the object carries the key.  One unit is one xkey_oc     *)
(* record of vmod_xkey.c.  XkeyIndex implements this specification; Xkey   *)
(* uses its operators for the index its threads share.                     *)
(***************************************************************************)
EXTENDS Naturals

CONSTANTS
  ObjCore,  \* addresses of varnishd's cached objects (struct objcore *)
  Digest    \* SHA-256 digests of surrogate keys

VARIABLE links  \* links[o][d]: number of records that tie object o to key d

-----------------------------------------------------------------------------
NoLinks == [d \in Digest |-> 0]

NoTags == [o \in ObjCore |-> NoLinks]

\* xkey_insert: one more record, even when the object already has this key.
Linked(l, o, d) == [l EXCEPT ![o][d] = @ + 1]

\* xkey_remove: every record of the object goes.
Unlinked(l, o) == [l EXCEPT ![o] = NoLinks]

-----------------------------------------------------------------------------
Init == links = NoTags

Insert(o, d) == links' = Linked(links, o, d)

Remove(o) == links' = Unlinked(links, o)

Next == \E o \in ObjCore : Remove(o) \/ \E d \in Digest : Insert(o, d)

Spec == Init /\ [][Next]_links
=============================================================================
