----------------------------- MODULE Protosocket ------------------------------
(***************************************************************************)
(* Protosockets, uip/uip/psock.c: how a protothread sends and reads over   *)
(* the calls of the application.                                           *)
(*                                                                         *)
(* A sock is struct psock with the segment that the call finds at          *)
(* uip_appdata (seg), whether something is sent in the call (out), and     *)
(* whether the inner protothread is in the middle of something (busy).     *)
(* What is sent is a piece, [op, id, len]: len segments of a string, or    *)
(* one segment that a generator writes to the buffer.  What is read is a   *)
(* sequence of words, with the markers among them.  ev is the set of what  *)
(* uIP tells: "acked", "newdata", "rexmit", "poll".                        *)
(*                                                                         *)
(* data_acked(s) & send_data(s) is evaluated from left to right, which C   *)
(* leaves open; the other way round no PSOCK_SEND would ever end.          *)
(***************************************************************************)
EXTENDS Naturals, SequencesExt, FiniteSetsExt

NoChunk == <<<<>>, 0>>

NewSock ==
  [state |-> "NONE", sendptr |-> 1, sendlen |-> 0, busy |-> FALSE,
   line |-> <<>>, unread |-> <<>>, seg |-> NoChunk, out |-> FALSE]

Chunk(piece, n) == <<piece.id, n>>

(* Mutant: every call is taken for an acknowledgement. *)
DataAcked_Any(r, ev) == r.state = "DATA_SENT"

DataAcked(r, ev) == r.state = "DATA_SENT" /\ "acked" \in ev

data_acked(r, ev) ==
  IF DataAcked(r, ev)
  THEN [r EXCEPT !.sendptr = @ + 1, !.sendlen = @ - 1, !.state = "ACKED"] ELSE r

SendsData(r, ev) == r.state # "DATA_SENT" \/ "rexmit" \in ev

(* A segment of a string is copied to the buffer; what a generator wrote   *)
(* is already there, or was.                                               *)
send_data(r, ev, piece) ==
  CASE ~SendsData(r, ev)                 -> r
    [] SendsData(r, ev) /\ r.sendlen = 0 -> [r EXCEPT !.state = "DATA_SENT"]
    [] SendsData(r, ev) /\ r.sendlen > 0 ->
         [r EXCEPT !.state = "DATA_SENT", !.out = TRUE,
                   !.seg = IF piece.op = "generate" THEN @ ELSE Chunk(piece, r.sendptr)]

(* The loop round PT_WAIT_UNTIL.  When a segment is acknowledged, the next *)
(* one is sent and in the same call taken for acknowledged, too, so that   *)
(* the loop does not wait again: it turns once for each segment left.      *)
WaitSent(r, ev, piece) ==
  LET turns[n \in 0..r.sendlen] ==
        IF n = 0 THEN r ELSE send_data(data_acked(turns[n - 1], ev), ev, piece)
  IN  IF DataAcked(r, ev) THEN [turns[r.sendlen] EXCEPT !.state = "NONE", !.busy = FALSE]
      ELSE send_data(r, ev, piece)

(* psock_send, and psock_generator_send: the generator is called when it   *)
(* begins, and the wait is resumed behind the line that calls it again.    *)
psock_send(r, ev, piece) ==
  LET begun == [r EXCEPT !.busy = TRUE, !.sendptr = 1, !.sendlen = piece.len, !.state = "NONE",
                         !.seg = IF piece.op = "generate" THEN Chunk(piece, 1) ELSE @]
  IN  IF piece.op = "send" /\ piece.len = 0 THEN r
      ELSE WaitSent(IF r.busy THEN r ELSE begun, ev, piece)

-------------------------------------------------------------------------------
(* psock_readto: new data up to the marker becomes the line, and the line  *)
(* goes on with the next data if there is none; what it has no place for   *)
(* is dropped.  unread is what readptr and readlen leave of the data.      *)
psock_readto(r, data, marker, room) ==
  LET ends == {i \in DOMAIN data : data[i] = marker}
      n    == IF ends = {} THEN Len(data) ELSE Min(ends)
      line == (IF r.busy THEN r.line ELSE <<>>) \o SubSeq(data, 1, n)
  IN  [r EXCEPT !.line = SubSeq(line, 1, Min({room, Len(line)})), !.busy = ends = {},
                !.unread = SubSeq(data, n + 1, Len(data))]
===============================================================================
