------------------------------- MODULE MCTask -------------------------------
(***************************************************************************)
(* A finite instance of Task and of Globals, the two parts of what the     *)
(* vmods do for a task.  They share nothing, so that it is enough to look  *)
(* at one while the other stands still.                                    *)
(***************************************************************************)
EXTENDS Task, Globals

Piece == {<<"a">>, <<"a", "1">>, <<"a", "2">>, <<"b", "2">>, <<"b", "">>, <<"", "1">>}
MCCookieHeader ==
  {<<>>} \cup {<<p>> : p \in Piece} \cup {<<p, q>> : p, q \in Piece}
  \cup {<<<<"a", "1">>, <<"b", "2">>, <<"a", "2">>>>, <<<<"a">>, <<"">>, <<"b", "2">>>>}

MCIntValue == {1, 8}

MCReceived ==
  {<<>>, <<[name |-> "X", value |-> "1"], [name |-> "Y", value |-> ""]>>}

MCInit == Init /\ GlobalsInit

MCNext ==
  \/ GlobalsInit /\ Next /\ UNCHANGED gvars
  \/ Init /\ hd = <<>> /\ GlobalsNext /\ UNCHANGED vars

MCSpec == MCInit /\ [][MCNext]_<<vars, gvars>> /\ WF_vars(CopyStep)
=============================================================================
