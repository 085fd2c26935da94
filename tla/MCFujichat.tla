------------------------------ MODULE MCFujichat ------------------------------
(* What main() of src/fujichat.c keeps, for TLC: the session, and the line *)
(* the user types.  The session knows of the line only whether there is    *)
(* one, so each is checked on its own: part says which one runs.           *)
EXTENDS MCIrcSession, LineEditor

VARIABLE part

MCInit == Init /\ EditInit /\ part \in {"session", "editor"}

MCNext ==
  \/ part = "session" /\ Next     /\ UNCHANGED <<editVars, part>>
  \/ part = "editor"  /\ EditNext /\ UNCHANGED <<vars, part>>

MCSpec == MCInit /\ [][MCNext]_<<vars, editVars, part>>

(* The types of both. *)
TypesOK == TypeOK /\ EditTypeOK

(* Nicks of one and of two letters, one the beginning of the other. *)
MCFolded == [c \in {"a", "A"} |-> "a"]
MCSpeakers == {<<"A">>, <<"A", "a">>}
MCTalkers == {<<"A", "a">>}
===============================================================================
