----------------------------- MODULE LineAssembly -----------------------------
(***************************************************************************)
(* telnet_newdata of src/fujichat.c: the server's bytes, in segments that  *)
(* are cut anywhere, become lines in output_buf.                           *)
(*                                                                         *)
(* Bytes: "cr" ends a line, "nl" is skipped, "c2" and "b0" together are    *)
(* the degree sign in UTF-8, which becomes one character, "ball"; "x" is   *)
(* every other byte.  What a complete line does is in IrcSession.          *)
(***************************************************************************)
EXTENDS Naturals, SequencesExt

CONSTANTS
  OutSize,       \* OUTBUF_SIZE
  StaleBytes,    \* what an earlier packet may have left in uip_buf
  SegmentMax,    \* bound: bytes in a segment
  StreamMax,     \* bound: bytes the server sends in a session
  AsmSessions    \* bound: sessions

ServerByte == {"cr", "nl", "c2", "b0", "x"}

ASSUME AsmAssumption ==
  /\ {OutSize, SegmentMax, StreamMax, AsmSessions} \subseteq Nat \ {0}
  /\ StaleBytes \subseteq ServerByte /\ "x" \in StaleBytes

VARIABLES
  output_buf,    \* the first output_buf_len bytes of it
  handled,       \* history: the lines handled in this session
  stream,        \* history: the bytes the server sent in this session
  asmHarm,       \* history: what the cut could not survive, see below
  asmSess        \* number of the session

asmVars == <<output_buf, handled, stream, asmHarm, asmSess>>

-------------------------------------------------------------------------------
(* Mutant: a newline is kept. *)
TakeByte_KeepsNewline(data, st) ==
  LET c   == data[st.t]
      buf == Append(st.buf, c)
  IN  CASE st.over -> st
        [] ~st.over /\ Len(buf) >= OutSize -> [st EXCEPT !.buf = buf, !.over = TRUE]
        [] ~st.over /\ c = "cr" /\ Len(buf) < OutSize ->
             [st EXCEPT !.t = @ + 1, !.buf = <<>>, !.lines = Append(@, buf)]
        [] OTHER -> [st EXCEPT !.t = @ + 1, !.buf = buf]

(* One turn of the loop over the segment.  data is the segment and what    *)
(* lies behind it in uip_buf; st.t is the pointer t.  A degree sign moves  *)
(* t by two but counts as one of the segment's bytes.                      *)
TakeByte(data, st) ==
  LET c      == data[st.t]
      degree == c = "c2" /\ data[st.t + 1] = "b0"
      next   == st.t + IF degree THEN 2 ELSE 1
      buf    == Append(st.buf, IF degree THEN "ball" ELSE c)
  IN  CASE st.over              -> st
        [] ~st.over /\ c = "nl" -> [st EXCEPT !.t = next]
        [] ~st.over /\ c # "nl" /\ Len(buf) >= OutSize ->
             [st EXCEPT !.t = next, !.buf = buf, !.over = TRUE]
        [] ~st.over /\ c = "cr" /\ Len(buf) < OutSize ->
             [st EXCEPT !.t = next, !.buf = <<>>, !.lines = Append(@, buf)]
        [] OTHER                -> [st EXCEPT !.t = next, !.buf = buf]

telnet_newdata(segment, behind) ==
  LET loop[i \in 0..Len(segment)] ==
        IF i = 0 THEN [t |-> 1, buf |-> output_buf, lines |-> <<>>, over |-> FALSE]
        ELSE TakeByte(segment \o behind, loop[i - 1])
  IN  loop[Len(segment)]

AsmInit ==
  /\ output_buf = <<>> /\ handled = <<>> /\ stream = <<>>
  /\ asmHarm = {} /\ asmSess = 1

(* A segment arrives in order.  The harm it may do:                        *)
(*   past      bytes behind the segment were taken for the server's        *)
(*   split     a degree sign was cut in two                                *)
(*   overflow  the line did not fit                                        *)
AsmSegment(segment, behind) ==
  /\ Len(stream) + Len(segment) <= StreamMax
  /\ LET st == telnet_newdata(segment, behind)
     IN  /\ output_buf' = st.buf
         /\ handled' = handled \o st.lines
         /\ asmHarm' = asmHarm
              \cup (IF st.t > Len(segment) + 1 THEN {"past"} ELSE {})
              \cup (IF Last(segment) = "c2" THEN {"split"} ELSE {})
              \cup (IF st.over THEN {"overflow"} ELSE {})
  /\ stream' = stream \o segment
  /\ UNCHANGED asmSess

(* The next session: output_buf_len is not reset, so what is in the buffer *)
(* is now in front of the first line ("crossed").                          *)
AsmNewSession ==
  /\ asmSess < AsmSessions /\ asmSess' = asmSess + 1
  /\ handled' = <<>> /\ stream' = <<>>
  /\ asmHarm' = IF output_buf = <<>> THEN {} ELSE {"crossed"}
  /\ UNCHANGED output_buf

(* The bytes behind a segment only matter when it has a "c2". *)
Behind(segment) ==
  IF Contains(segment, "c2") THEN [1..Len(segment) -> StaleBytes]
  ELSE {[i \in 1..Len(segment) |-> "x"]}

AsmNext ==
  \/ AsmNewSession
  \/ \E n \in 1..SegmentMax : \E segment \in [1..n -> ServerByte] :
       \E behind \in Behind(segment) : AsmSegment(segment, behind)

AsmSpec == AsmInit /\ [][AsmNext]_asmVars

-------------------------------------------------------------------------------
(* The type of every variable; without an overflow there is room for the   *)
(* NUL behind the line.                                                    *)
AsmTypeOK ==
  /\ output_buf \in Seq(ServerByte \cup {"ball"})
  /\ handled \in Seq(Seq(ServerByte \cup {"ball"}))
  /\ stream \in Seq(ServerByte) /\ Len(stream) <= StreamMax
  /\ "overflow" \notin asmHarm => Len(output_buf) < OutSize \/ "crossed" \in asmHarm
  /\ asmHarm \subseteq {"past", "split", "overflow", "crossed"}
  /\ asmSess \in 1..AsmSessions

NoNewline(s) == FlattenSeq([i \in 1..Len(s) |-> IF s[i] = "nl" THEN <<>> ELSE <<s[i]>>])

(* telnet_newdata: however the server's bytes are cut into segments, the   *)
(* lines handled and the one begun are those bytes, in order and without   *)
(* newlines, cut exactly behind every carriage return.                     *)
LinesAsSent ==
  asmHarm = {} =>
    /\ FlattenSeq(handled) \o output_buf = NoNewline(stream)
    /\ ~Contains(output_buf, "cr")
    /\ \A i \in 1..Len(handled) :
         /\ Last(handled[i]) = "cr"
         /\ ~Contains(Front(handled[i]), "cr")

(* What the bytes mean: a degree sign is one character. *)
Decoded(s) ==
  NoNewline([i \in 1..Len(s) |->
    IF s[i] = "c2" /\ i < Len(s) /\ s[i + 1] = "b0" THEN "ball"
    ELSE IF s[i] = "b0" /\ i > 1 /\ s[i - 1] = "c2" THEN "nl" ELSE s[i]])

(* The comment before telnet_newdata has it that a message may be split    *)
(* into multiple packets: where that happens makes no difference.          *)
CutAnywhere ==
  asmHarm \cap {"crossed", "overflow"} = {} /\ stream # <<>> /\ Last(stream) # "c2" =>
    FlattenSeq(handled) \o output_buf = Decoded(stream)
===============================================================================
