---------------------------- MODULE MessageChannel ----------------------------
(***************************************************************************)
(* What telnet_send promises to the client that gets 0 back: while the     *)
(* connection is open, one message at a time is taken, its bytes arrive    *)
(* behind those of the messages before it, and the next one is taken only  *)
(* when all of them have arrived.  A connection may end at any time, and   *)
(* what was not yet delivered then may be lost.                            *)
(***************************************************************************)
EXTENDS Naturals, Sequences

VARIABLES
  open,   \* there is a connection
  busy,   \* a message was taken and is not yet acknowledged in full
  sent,   \* the bytes of all messages taken on this connection
  got     \* the bytes that arrived

cvars == <<open, busy, sent, got>>

Init == open = FALSE /\ busy = FALSE /\ sent = <<>> /\ got = <<>>

StrictlyExtends(t, s) == Len(t) > Len(s) /\ SubSeq(t, 1, Len(s)) = s

Open ==
  /\ ~open /\ open' = TRUE
  /\ busy' = FALSE /\ sent' = <<>> /\ got' = <<>>

(* The end of a connection, and of all traces of it. *)
Close == open /\ open' = FALSE /\ busy' = FALSE /\ UNCHANGED <<sent, got>>

Forget == ~open /\ sent' = <<>> /\ got' = <<>> /\ UNCHANGED <<open, busy>>

Take ==
  /\ open /\ busy => got = sent
  /\ open /\ StrictlyExtends(sent', sent)
  /\ busy' = TRUE
  /\ UNCHANGED <<open, got>>

(* Bytes may still arrive after the client's end is gone. *)
Arrive ==
  /\ StrictlyExtends(got', got) /\ Len(got') <= Len(sent)
  /\ got' = SubSeq(sent, 1, Len(got'))
  /\ UNCHANGED <<open, busy, sent>>

Free == busy /\ got = sent /\ busy' = FALSE /\ UNCHANGED <<open, sent, got>>

Next == Open \/ Close \/ Forget \/ Take \/ Arrive \/ Free

Spec == Init /\ [][Next]_cvars
===============================================================================
