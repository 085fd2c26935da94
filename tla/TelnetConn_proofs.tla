--------------------------- MODULE TelnetConn_proofs ---------------------------
(***************************************************************************)
(* Theorems about TelnetConn, for every value of its constants: its types, *)
(* and what a session sends and receives.                                  *)
(***************************************************************************)
EXTENDS TelnetConn, TLAPS

(* The operators of telnet.c keep the telnet_state well formed. *)
LEMMA MessageType ==
  ASSUME NEW m \in Nat, NEW n \in Nat
  PROVE  /\ Message(m, n) \in Seq(Byte) /\ Len(Message(m, n)) = n
         /\ \A i \in 1..n : Message(m, n)[i] = <<m, i>>
  BY DEF Message, Byte

(* What the operators leave in each field. *)
LEMMA SendFields ==
  ASSUME NEW o \in OutState, NEW n
  PROVE  LET t == telnet_send(o, n)
             free == tstate /\ o.text = Null
         IN  /\ t.buf = WriteBuf(o.buf, o.msgs + 1, n) /\ t.msgs = o.msgs + 1
             /\ t.text = (IF free THEN 0 ELSE o.text)
             /\ t.textlen = (IF free THEN n ELSE o.textlen)
             /\ t.sentlen = (IF free THEN 0 ELSE o.sentlen)
             /\ t.stream = (IF free /\ tcp = "ESTABLISHED"
                            THEN o.stream \o Message(o.msgs + 1, n) ELSE o.stream)
             /\ t.harm = o.harm \cup Harm("rewritten", o.text # Null /\ n > o.text)
  BY DEF telnet_send, OutState

LEMMA SenddataFields ==
  ASSUME NEW o \in OutState, NEW m
  PROVE  LET t == senddata(o, m)
         IN  /\ t.buf = o.buf /\ t.msgs = o.msgs /\ t.text = o.text
             /\ t.textlen = o.textlen /\ t.stream = o.stream /\ t.harm = o.harm
             /\ t.sentlen = (IF o.text = Null THEN o.sentlen ELSE MinOf(m, o.textlen))
  BY DEF senddata, OutState

LEMMA AckedFields ==
  ASSUME NEW o \in OutState
  PROVE  LET t == acked(o)
             left == o.textlen - o.sentlen
         IN  /\ t.buf = o.buf /\ t.msgs = o.msgs /\ t.stream = o.stream /\ t.harm = o.harm
             /\ t.text = (IF left = 0 THEN Null ELSE o.text + o.sentlen)
             /\ t.textlen = left /\ t.sentlen = 0
  BY DEF acked, OutState

LEMMA TransmittedFields ==
  ASSUME NEW o \in OutState, NEW l
  PROVE  LET t == Transmitted(o, l)
         IN  /\ t.buf = o.buf /\ t.msgs = o.msgs /\ t.text = o.text /\ t.textlen = o.textlen
             /\ t.sentlen = o.sentlen /\ t.stream = o.stream
             /\ t.harm = o.harm \cup Harm("mss", slen(o) \notin {0, SentLen(o, l)})
  BY DEF Transmitted, OutState

LEMMA SendOK ==
  ASSUME NEW o, OutOK(o), NEW n \in MsgLengths, tstate \in BOOLEAN
  PROVE  OutOK(telnet_send(o, n))
  <1>1. n \in 1..BufSize /\ BufSize \in Nat
    BY ConnAssumption
  <1>2. o \in OutState
    BY DEF OutOK
  <1>3. WriteBuf(o.buf, o.msgs + 1, n) \in [0..(BufSize - 1) -> Byte]
    BY <1>1, <1>2 DEF WriteBuf, OutState, Byte
  <1>4. o.stream \o Message(o.msgs + 1, n) \in Seq(Byte)
    BY <1>1, <1>2, MessageType DEF OutState
  <1>5. o.harm \cup Harm("rewritten", o.text # Null /\ n > o.text) \in SUBSET Harms
    BY <1>2 DEF OutState, Harm, Harms
  <1>6. telnet_send(o, n) \in OutState
    <2>1. o.msgs + 1 \in Nat
      BY <1>2 DEF OutState
    <2>2. /\ (IF tstate /\ o.text = Null THEN 0 ELSE o.text) \in {Null} \cup 0..BufSize
          /\ (IF tstate /\ o.text = Null THEN n ELSE o.textlen) \in 0..BufSize
          /\ (IF tstate /\ o.text = Null THEN 0 ELSE o.sentlen) \in 0..BufSize
      BY <1>1, <1>2 DEF OutState
    <2>3. (IF (tstate /\ o.text = Null) /\ tcp = "ESTABLISHED"
           THEN o.stream \o Message(o.msgs + 1, n) ELSE o.stream) \in Seq(Byte)
      BY <1>2, <1>4 DEF OutState
    <2>4. QED
      BY <1>2, <1>3, <1>5, <2>1, <2>2, <2>3 DEF telnet_send, OutState
  <1>7. QED
    BY <1>1, <1>2, <1>6, SendFields DEF OutOK, Null

LEMMA SenddataOK ==
  ASSUME NEW o, OutOK(o), NEW m \in Nat \ {0}
  PROVE  /\ OutOK(senddata(o, m))
         /\ o.text # Null => senddata(o, m).sentlen \in 1..o.textlen
  <1>1. o \in OutState /\ BufSize \in Nat
    BY ConnAssumption DEF OutOK
  <1>2. o.text # Null => MinOf(m, o.textlen) \in 1..o.textlen
    BY <1>1 DEF OutOK, OutState, MinOf
  <1>3. o.textlen \in 0..BufSize /\ o.sentlen \in 0..BufSize
    BY <1>1 DEF OutState
  <1>4. (IF o.text = Null THEN o.sentlen ELSE MinOf(m, o.textlen)) \in 0..BufSize
    BY <1>1, <1>2, <1>3
  <1>5. senddata(o, m) \in OutState
    BY <1>1, <1>4 DEF senddata, OutState
  <1>6. QED
    BY <1>1, <1>2, <1>5, SenddataFields DEF OutOK

LEMMA AckedOK ==
  ASSUME NEW o, OutOK(o), o.text # Null
  PROVE  OutOK(acked(o))
  <1>1. o \in OutState /\ BufSize \in Nat
    BY ConnAssumption DEF OutOK
  <1>2. /\ o.text \in 0..BufSize /\ o.textlen \in 1..BufSize /\ o.sentlen \in 0..o.textlen
        /\ o.text + o.textlen <= BufSize
    BY <1>1 DEF OutState, OutOK, Null
  <1>3. o.textlen - o.sentlen \in 0..BufSize /\ 0 \in 0..BufSize
    BY <1>1, <1>2
  <1>4. (IF o.textlen - o.sentlen = 0 THEN Null ELSE o.text + o.sentlen)
           \in {Null} \cup 0..BufSize
    BY <1>1, <1>2
  <1>5. acked(o) \in OutState
    BY <1>1, <1>3, <1>4 DEF acked, OutState
  <1>6. o.textlen - o.sentlen # 0
          => o.textlen - o.sentlen > 0 /\ o.text + o.sentlen + (o.textlen - o.sentlen) <= BufSize
    BY <1>1, <1>2
  <1>7. QED
    BY <1>1, <1>3, <1>5, <1>6, AckedFields DEF OutOK

LEMMA PayloadType ==
  ASSUME NEW o, OutOK(o), o.text # Null, NEW n \in Nat
  PROVE  Payload(o, n) \in Seq(Byte) /\ Len(Payload(o, n)) = n
  <1>1. NoByte \in Byte
    BY DEF NoByte, Byte
  <1>2. ASSUME NEW i \in 1..n
        PROVE (IF i <= o.sentlen THEN o.buf[o.text + i - 1] ELSE NoByte) \in Byte
    <2>1. o.buf \in [0..(BufSize - 1) -> Byte] /\ o.text \in 0..BufSize
          /\ o.sentlen \in 0..BufSize /\ o.textlen \in 0..BufSize /\ BufSize \in Nat
      BY ConnAssumption DEF OutOK, OutState, Null
    <2>2. i <= o.sentlen => o.text + i - 1 \in 0..(BufSize - 1)
      BY <2>1 DEF OutOK
    <2>3. i <= o.sentlen => o.buf[o.text + i - 1] \in Byte
      BY <2>1, <2>2
    <2>4. QED
      BY <1>1, <2>3
  <1>3. QED
    BY <1>2 DEF Payload

LEMMA TransmittedOK ==
  ASSUME NEW o, OutOK(o), NEW l
  PROVE  OutOK(Transmitted(o, l))
  <1>1. o \in OutState
    BY DEF OutOK
  <1>2. o.harm \cup Harm("mss", slen(o) \notin {0, SentLen(o, l)}) \in SUBSET Harms
    BY <1>1 DEF OutState, Harm, Harms
  <1>3. Transmitted(o, l) \in OutState
    BY <1>1, <1>2 DEF Transmitted, OutState
  <1>4. QED
    BY <1>1, <1>3, TransmittedFields DEF OutOK

LEMMA ReplyType ==
  ASSUME NEW o, OutOK(o), sess \in Nat, NEW l \in Nat, NEW seq \in Nat, NEW ack \in Nat, NEW nd
  PROVE  Reply(o, l, seq, ack, nd) \subseteq FromClient
  <1>1. CASE slen(o) > 0
    <2>1. o.text # Null /\ slen(o) \in Nat
      BY <1>1, ConnAssumption DEF slen, OutOK, OutState
    <2>2. SentLen(o, l) \in Nat
      BY <2>1 DEF SentLen
    <2>3. Payload(o, SentLen(o, l)) \in Seq(Byte)
      BY <2>1, <2>2, PayloadType
    <2>4. CSeg("ACK", seq, ack, Payload(o, SentLen(o, l))) \in FromClient
      BY <2>3 DEF CSeg, FromClient
    <2>5. QED
      BY <1>1, <2>4 DEF Reply
  <1>2. CASE ~(slen(o) > 0)
    <2>1. CSeg("ACK", seq, ack, <<>>) \in FromClient
      BY DEF CSeg, FromClient
    <2>2. QED
      BY <1>2, <2>1 DEF Reply
  <1>3. QED
    BY <1>1, <1>2

(* The inductive strengthening of TypeOK: data in flight belongs to a      *)
(* pending message, and a SYNACK offers some MSS.                          *)
InFlight  == tcp = "ESTABLISHED" /\ len > 0 => out.text # Null
SynAckWin == \A m \in s2c : m.kind = "SYNACK" => m.win > 0

ITypeOK == TypeOK /\ InFlight /\ SynAckWin

LEMMA TypeInit == Init => ITypeOK
  <1> SUFFICES ASSUME Init PROVE ITypeOK
    OBVIOUS
  <1>1. out \in OutState
    BY ConnAssumption DEF Init, OutState, Byte, NoByte, Null, Harms
  <1>2. OutOK(out)
    BY <1>1 DEF Init, OutOK
  <1>3. srv \in ServerState
    BY DEF Init, NoServer, ServerState
  <1>4. LoopOK
    BY DEF Init, LoopOK, States
  <1>5. ConnOK
    BY ConnAssumption DEF Init, ConnOK
  <1>6. delivered \in Seq(Nat \X Nat) /\ c2s \subseteq FromClient /\ s2c \subseteq FromServer
    BY DEF Init
  <1>7. InFlight /\ SynAckWin
    BY DEF Init, InFlight, SynAckWin
  <1>8. QED
    BY <1>2, <1>3, <1>4, <1>5, <1>6, <1>7 DEF ITypeOK, TypeOK

LEMMA CSegType ==
  ASSUME sess \in Nat, NEW k \in {"SYN", "ACK", "FIN", "RST"}, NEW seq \in Nat,
         NEW ack \in Nat
  PROVE  CSeg(k, seq, ack, <<>>) \in FromClient
  BY DEF CSeg, FromClient

(* The main loop and the timer. *)
LEMMA TypeStart == ITypeOK /\ StartSession => ITypeOK'
  <1> SUFFICES ASSUME ITypeOK, StartSession PROVE ITypeOK'
    OBVIOUS
  <1>1. TypeOK /\ InFlight /\ SynAckWin
    BY DEF ITypeOK
  <1>2. LoopOK'
    BY <1>1 DEF StartSession, TypeOK, LoopOK, States
  <1>3. ConnOK'
    <2>1. /\ sess < MaxSessions /\ sess' = sess + 1
          /\ UNCHANGED <<iss, snd_nxt, rcv_nxt, len, nrtx, initialmss, mss>>
      BY DEF StartSession
    <2>2. QED
      BY <1>1, <2>1, ConnAssumption DEF TypeOK, ConnOK
  <1>4. out' \in OutState
    <2>1. out \in OutState /\ <<>> \in Seq(Byte) /\ {} \in SUBSET Harms
      BY <1>1 DEF TypeOK, OutOK
    <2>2. out' = [out EXCEPT !.stream = <<>>, !.harm = {}]
      BY DEF StartSession
    <2>3. QED
      BY <2>1, <2>2 DEF OutState
  <1>5. OutOK(out)'
    BY <1>1, <1>4 DEF StartSession, TypeOK, OutOK, OutState
  <1>6. UNCHANGED <<srv, c2s, s2c>> /\ delivered' = <<>> /\ tcp' = "CLOSED"
    BY DEF StartSession, net
  <1>7. QED
    BY <1>1, <1>2, <1>3, <1>5, <1>6 DEF ITypeOK, TypeOK, InFlight, SynAckWin

LEMMA TypeConnect == ITypeOK /\ Connect => ITypeOK'
  <1> SUFFICES ASSUME ITypeOK, Connect PROVE ITypeOK'
    OBVIOUS
  <1>1. TypeOK /\ InFlight /\ SynAckWin
    BY DEF ITypeOK
  <1>2. LoopOK'
    BY <1>1 DEF Connect, TypeOK, LoopOK, States, loop
  <1>3. ConnOK'
    BY <1>1, ConnAssumption DEF Connect, TypeOK, ConnOK, loop
  <1>4. UNCHANGED <<out, delivered, srv, c2s, s2c>> /\ tcp' = "SYN_SENT"
    BY DEF Connect, net
  <1>5. QED
    BY <1>1, <1>2, <1>3, <1>4 DEF ITypeOK, TypeOK, InFlight, SynAckWin

LEMMA TypeLoop == ITypeOK /\ (HostNotFound \/ LeaveLoop) => ITypeOK'
  <1> SUFFICES ASSUME ITypeOK, HostNotFound \/ LeaveLoop PROVE ITypeOK'
    OBVIOUS
  <1>1. TypeOK /\ InFlight /\ SynAckWin
    BY DEF ITypeOK
  <1>2. UNCHANGED <<sess, tstate, conn, out, delivered, srv, net>>
    BY DEF HostNotFound, LeaveLoop
  <1>3. LoopOK'
    BY <1>1, <1>2 DEF HostNotFound, LeaveLoop, TypeOK, LoopOK, conn
  <1>4. ConnOK'
    BY <1>1, <1>2 DEF TypeOK, ConnOK, conn
  <1>5. QED
    BY <1>1, <1>2, <1>3, <1>4 DEF ITypeOK, TypeOK, InFlight, SynAckWin, net, conn

LEMMA TypeUserSend == ITypeOK /\ UserSend => ITypeOK'
  <1> SUFFICES ASSUME ITypeOK, UserSend PROVE ITypeOK'
    OBVIOUS
  <1>1. TypeOK /\ InFlight /\ SynAckWin /\ tstate \in BOOLEAN
    BY DEF ITypeOK, TypeOK, LoopOK
  <1>2. UNCHANGED <<loop, conn, delivered, srv, net>>
    BY DEF UserSend
  <1>3. PICK n \in MsgLengths : out' = telnet_send(out, n)
    BY DEF UserSend
  <1>4. OutOK(out)'
    BY <1>1, <1>3, SendOK DEF TypeOK
  <1>5. out.text # Null => out'.text # Null
    BY <1>1, <1>3, SendFields DEF TypeOK, OutOK
  <1>6. LoopOK'
    BY <1>1, <1>2 DEF TypeOK, LoopOK, loop, conn
  <1>7. ConnOK'
    BY <1>1, <1>2 DEF TypeOK, ConnOK, loop, conn
  <1>8. QED
    BY <1>1, <1>2, <1>4, <1>5, <1>6, <1>7 DEF ITypeOK, TypeOK, InFlight, SynAckWin, net, conn

LEMMA TypeGivesUp == ITypeOK /\ TimerGivesUp => ITypeOK'
  <1> SUFFICES ASSUME ITypeOK, TimerGivesUp PROVE ITypeOK'
    OBVIOUS
  <1>1. TypeOK /\ InFlight /\ SynAckWin
    BY DEF ITypeOK
  <1>2. LoopOK'
    BY <1>1 DEF TimerGivesUp, TypeOK, LoopOK, States
  <1>3. ConnOK'
    BY <1>1 DEF TimerGivesUp, TypeOK, ConnOK
  <1>4. c2s' \subseteq FromClient
    <2>1. CSeg("RST", snd_nxt, rcv_nxt, <<>>) \in FromClient
      BY <1>1, ConnAssumption, CSegType DEF TypeOK, ConnOK
    <2>2. QED
      BY <1>1, <2>1 DEF TimerGivesUp, TypeOK
  <1>5. UNCHANGED <<out, delivered, srv, s2c>> /\ tcp' = "CLOSED"
    BY DEF TimerGivesUp
  <1>6. QED
    BY <1>1, <1>2, <1>3, <1>4, <1>5 DEF ITypeOK, TypeOK, InFlight, SynAckWin

LEMMA TypeTimerSyn == ITypeOK /\ TimerSyn => ITypeOK'
  <1> SUFFICES ASSUME ITypeOK, TimerSyn PROVE ITypeOK'
    OBVIOUS
  <1>1. TypeOK /\ InFlight /\ SynAckWin
    BY DEF ITypeOK
  <1>2. UNCHANGED <<loop, tcp, len, out, delivered, srv, s2c>>
    BY DEF TimerSyn
  <1>3. LoopOK'
    BY <1>1, <1>2 DEF TypeOK, LoopOK, loop
  <1>4. ConnOK'
    BY <1>1, <1>2 DEF TimerSyn, TypeOK, ConnOK, loop
  <1>5. c2s' \subseteq FromClient
    <2>1. CSeg("SYN", snd_nxt, 0, <<>>) \in FromClient
      BY <1>1, ConnAssumption, CSegType DEF TypeOK, ConnOK
    <2>2. QED
      BY <1>1, <2>1 DEF TimerSyn, TypeOK
  <1>6. QED
    BY <1>1, <1>2, <1>3, <1>4, <1>5 DEF ITypeOK, TypeOK, InFlight, SynAckWin

(* What every call of telnet_app ends with. *)
LEMMA SentOK ==
  ASSUME NEW p, OutOK(p), NEW w \in Nat \ {0}, NEW l \in 0..BufSize, l > 0 => p.text # Null,
         sess \in Nat, NEW seq \in Nat, NEW ack \in Nat, NEW nd
  PROVE  LET o == senddata(p, w)
         IN  /\ OutOK(Transmitted(o, l)) /\ SentLen(o, l) \in 0..BufSize
             /\ SentLen(o, l) > 0 => Transmitted(o, l).text # Null
             /\ Reply(o, l, seq, ack, nd) \subseteq FromClient
  <1> DEFINE o == senddata(p, w)
  <1>1. OutOK(o) /\ o.text = p.text /\ o.sentlen \in 0..BufSize
    BY SenddataOK, SenddataFields DEF OutOK, OutState
  <1> HIDE DEF o
  <1>2. OutOK(Transmitted(o, l)) /\ Transmitted(o, l).text = o.text
    BY <1>1, TransmittedOK, TransmittedFields DEF OutOK
  <1>3. SentLen(o, l) \in 0..BufSize /\ (SentLen(o, l) > 0 => o.text # Null)
    BY <1>1, ConnAssumption DEF SentLen, slen
  <1>4. Reply(o, l, seq, ack, nd) \subseteq FromClient
    <2>1. l \in Nat
      BY ConnAssumption
    <2>2. QED
      BY <1>1, <2>1, ReplyType
  <1>5. QED
    BY <1>2, <1>3, <1>4 DEF o

LEMMA TypeTimerRexmit == ITypeOK /\ TimerRexmit => ITypeOK'
  <1> SUFFICES ASSUME ITypeOK, TimerRexmit PROVE ITypeOK'
    OBVIOUS
  <1>1. TypeOK /\ InFlight /\ SynAckWin
    BY DEF ITypeOK
  <1>2. UNCHANGED <<loop, tcp, iss, snd_nxt, rcv_nxt, len, initialmss, mss, delivered, srv, s2c>>
    BY DEF TimerRexmit
  <1>3. LoopOK'
    BY <1>1, <1>2 DEF TypeOK, LoopOK, loop
  <1>4. ConnOK'
    BY <1>1, <1>2 DEF TimerRexmit, TypeOK, ConnOK, loop
  <1>5. /\ mss \in Nat \ {0} /\ len \in 0..BufSize /\ sess \in Nat /\ snd_nxt \in Nat
        /\ rcv_nxt \in Nat /\ OutOK(out) /\ out.text # Null
    BY <1>1, ConnAssumption DEF TimerRexmit, TypeOK, ConnOK, InFlight
  <1>6. OutOK(out') /\ (SentLen(senddata(out, mss), len) > 0 => out'.text # Null)
    BY <1>5, SentOK DEF TimerRexmit
  <1>7. c2s' \subseteq FromClient
    BY <1>1, <1>5, SentOK DEF TimerRexmit, TypeOK
  <1>8. InFlight'
    BY <1>2, <1>5, <1>6 DEF InFlight, SentLen
  <1>9. QED
    BY <1>1, <1>2, <1>3, <1>4, <1>6, <1>7, <1>8 DEF ITypeOK, TypeOK, SynAckWin

LEMMA TypeTimerPoll == ITypeOK /\ TimerPoll => ITypeOK'
  <1> SUFFICES ASSUME ITypeOK, TimerPoll PROVE ITypeOK'
    OBVIOUS
  <1>1. TypeOK /\ InFlight /\ SynAckWin
    BY DEF ITypeOK
  <1>2. /\ UNCHANGED <<loop, tcp, iss, snd_nxt, rcv_nxt, initialmss, mss, delivered, srv, s2c>>
        /\ nrtx' = 0 /\ len = 0
    BY DEF TimerPoll
  <1>3. LoopOK'
    BY <1>1, <1>2 DEF TypeOK, LoopOK, loop
  <1>4. /\ mss \in Nat \ {0} /\ len \in 0..BufSize /\ sess \in Nat /\ snd_nxt \in Nat
        /\ rcv_nxt \in Nat /\ OutOK(out) /\ ~(len > 0)
    BY <1>1, <1>2, ConnAssumption DEF TypeOK, ConnOK
  <1>5. /\ OutOK(out') /\ (len' > 0 => out'.text # Null) /\ len' \in 0..BufSize
    BY <1>4, SentOK DEF TimerPoll
  <1>6. ConnOK'
    BY <1>1, <1>2, <1>5 DEF TypeOK, ConnOK, loop
  <1>7. c2s' \subseteq FromClient
    BY <1>1, <1>4, SentOK DEF TimerPoll, TypeOK
  <1>8. QED
    BY <1>1, <1>2, <1>3, <1>5, <1>6, <1>7 DEF ITypeOK, TypeOK, SynAckWin, InFlight

(* The arrival of a segment. *)
LEMMA TypeSegment ==
  ASSUME ITypeOK, NEW m \in s2c
  PROVE  /\ m.sess \in Nat /\ m.seq \in Nat /\ m.ack \in Nat /\ m.n \in 0..1 /\ m.win \in Nat
         /\ m.kind = "SYNACK" => m.win > 0
  BY DEF ITypeOK, TypeOK, FromServer, SynAckWin

(* The segments answered without a call of the application. *)
LEMMA TypeAnswered ==
  ASSUME ITypeOK, NEW m \in s2c, RecvNoConn(m) \/ RecvRst(m) \/ RecvOutOfOrder(m)
  PROVE  ITypeOK'
  <1>1. TypeOK /\ InFlight /\ SynAckWin
    BY DEF ITypeOK
  <1>2. /\ UNCHANGED <<sess, up, connected, tstate, iss, snd_nxt, rcv_nxt, len, nrtx, initialmss,
                       mss, out, delivered, srv, s2c>>
        /\ tcp' \in {tcp, "CLOSED"}
    BY DEF RecvNoConn, RecvRst, RecvOutOfOrder, loop, conn, net
  <1>3. LoopOK'
    BY <1>1, <1>2 DEF RecvNoConn, RecvRst, RecvOutOfOrder, TypeOK, LoopOK, States, loop
  <1>4. ConnOK'
    BY <1>1, <1>2 DEF TypeOK, ConnOK
  <1>5. c2s' \subseteq FromClient
    <2>1. /\ CSeg("RST", m.ack, m.seq + 1, <<>>) \in FromClient
          /\ CSeg("ACK", snd_nxt, rcv_nxt, <<>>) \in FromClient
      BY <1>1, ConnAssumption, CSegType, TypeSegment DEF TypeOK, ConnOK
    <2>2. QED
      BY <1>1, <2>1 DEF RecvNoConn, RecvRst, RecvOutOfOrder, TypeOK, net
  <1>6. InFlight'
    BY <1>1, <1>2 DEF InFlight
  <1>7. QED
    BY <1>1, <1>2, <1>3, <1>4, <1>5, <1>6 DEF ITypeOK, TypeOK, SynAckWin

LEMMA TypeSynAck ==
  ASSUME ITypeOK, NEW m \in s2c, RecvSynAck(m)
  PROVE  ITypeOK'
  <1>1. TypeOK /\ InFlight /\ SynAckWin
    BY DEF ITypeOK
  <1>2. UNCHANGED <<sess, up, done, iss, delivered, srv, s2c>>
    BY DEF RecvSynAck
  <1>3. LoopOK'
    BY <1>1, <1>2 DEF RecvSynAck, TypeOK, LoopOK, States
  <1>4. MinOf(m.win, TcpMss) \in 1..TcpMss
    BY TypeSegment, ConnAssumption DEF RecvSynAck, HandshakeReply, MinOf
  <1>5. snd_nxt' \in Nat /\ rcv_nxt' \in Nat /\ len' = 0
    <2>1. /\ snd_nxt \in Nat /\ len \in Nat /\ m.seq \in Nat
      BY <1>1, TypeSegment, ConnAssumption DEF TypeOK, ConnOK
    <2>2. snd_nxt' = snd_nxt + len /\ rcv_nxt' = m.seq + 1 /\ len' = 0
      BY DEF RecvSynAck
    <2>3. QED
      BY <2>1, <2>2
  <1>6. ConnOK'
    <2>1. nrtx' = 0 /\ initialmss' = MinOf(m.win, TcpMss) /\ mss' = MinOf(m.win, TcpMss)
      BY DEF RecvSynAck
    <2>2. QED
      BY <1>1, <1>2, <1>4, <1>5, <2>1, ConnAssumption DEF TypeOK, ConnOK
  <1>7. OutOK(out)'
    <2>1. out \in OutState /\ {} \in SUBSET Harms /\ 0 \in 0..BufSize
      BY <1>1, ConnAssumption DEF TypeOK, OutOK
    <2>2. out' = [out EXCEPT !.text = Null, !.textlen = 0, !.harm = {}]
      BY DEF RecvSynAck
    <2>3. out' \in OutState
      BY <2>1, <2>2 DEF OutState
    <2>4. out'.text = Null
      BY <2>1, <2>2 DEF OutState
    <2>5. QED
      BY <2>3, <2>4 DEF OutOK
  <1>8. c2s' \subseteq FromClient
    <2>1. CSeg("ACK", snd_nxt', rcv_nxt', <<>>) \in FromClient
      BY <1>1, <1>5, ConnAssumption, CSegType DEF TypeOK, ConnOK
    <2>2. QED
      BY <1>1, <2>1 DEF RecvSynAck, TypeOK
  <1>9. QED
    BY <1>1, <1>2, <1>3, <1>5, <1>6, <1>7, <1>8 DEF ITypeOK, TypeOK, InFlight, SynAckWin

LEMMA TypeAbort ==
  ASSUME ITypeOK, NEW m \in s2c, RecvAbort(m)
  PROVE  ITypeOK'
  <1>1. TypeOK /\ InFlight /\ SynAckWin
    BY DEF ITypeOK
  <1>2. /\ UNCHANGED <<sess, up, connected, tstate, iss, rcv_nxt, nrtx, initialmss, mss, out,
                       delivered, srv, s2c>>
        /\ tcp' = "CLOSED"
    BY DEF RecvAbort
  <1>3. LoopOK'
    BY <1>1, <1>2 DEF RecvAbort, TypeOK, LoopOK, States
  <1>4. snd_nxt' \in Nat /\ len' \in 0..BufSize
    BY <1>1, ConnAssumption DEF RecvAbort, TypeOK, ConnOK
  <1>5. ConnOK'
    BY <1>1, <1>2, <1>4 DEF TypeOK, ConnOK
  <1>6. c2s' \subseteq FromClient
    <2>1. CSeg("RST", m.ack, m.seq + 1, <<>>) \in FromClient
      BY <1>1, ConnAssumption, CSegType, TypeSegment DEF TypeOK, ConnOK
    <2>2. QED
      BY <1>1, <2>1 DEF RecvAbort, TypeOK
  <1>7. QED
    BY <1>1, <1>2, <1>3, <1>5, <1>6 DEF ITypeOK, TypeOK, InFlight, SynAckWin

LEMMA TypeFin ==
  ASSUME ITypeOK, NEW m \in s2c, RecvFin(m)
  PROVE  ITypeOK'
  <1>1. TypeOK /\ InFlight /\ SynAckWin
    BY DEF ITypeOK
  <1>2. UNCHANGED <<sess, up, connected, tstate, iss, initialmss, mss, out, delivered, srv, s2c>>
    BY DEF RecvFin
  <1>3. LoopOK' /\ tcp' = "LAST_ACK"
    BY <1>1, <1>2 DEF RecvFin, TypeOK, LoopOK, States
  <1>4. snd_nxt' \in Nat /\ rcv_nxt' \in Nat
    BY <1>1, TypeSegment, ConnAssumption DEF RecvFin, TypeOK, ConnOK
  <1>5. ConnOK'
    <2>1. len' = 1 /\ nrtx' = 0
      BY DEF RecvFin
    <2>2. QED
      BY <1>1, <1>2, <1>4, <2>1, ConnAssumption DEF TypeOK, ConnOK
  <1>6. c2s' \subseteq FromClient
    <2>1. CSeg("FIN", snd_nxt', rcv_nxt', <<>>) \in FromClient
      BY <1>1, <1>4, ConnAssumption, CSegType DEF TypeOK, ConnOK
    <2>2. QED
      BY <1>1, <2>1 DEF RecvFin, TypeOK
  <1>7. QED
    BY <1>1, <1>2, <1>3, <1>5, <1>6 DEF ITypeOK, TypeOK, InFlight, SynAckWin

LEMMA TypeWindow ==
  ASSUME ITypeOK, NEW m \in s2c, RecvWindow(m)
  PROVE  ITypeOK'
  <1>1. TypeOK /\ InFlight /\ SynAckWin
    BY DEF ITypeOK
  <1>2. UNCHANGED <<loop, tcp, iss, snd_nxt, rcv_nxt, len, nrtx, initialmss, out, delivered, srv,
                    net>>
    BY DEF RecvWindow
  <1>3. LoopOK'
    BY <1>1, <1>2 DEF TypeOK, LoopOK, loop
  <1>4. ConnOK'
    BY <1>1, <1>2, TypeSegment, ConnAssumption DEF RecvWindow, NewMss, TypeOK, ConnOK, loop
  <1>5. QED
    BY <1>1, <1>2, <1>3, <1>4 DEF ITypeOK, TypeOK, InFlight, SynAckWin, net

(* Data or an acknowledgment: telnet_app runs, and a line may be answered. *)
LEMMA AnsweredType ==
  ASSUME ITypeOK, NEW m \in s2c, RecvData(m), NEW p \in Answered(m, AfterAck(m))
  PROVE  /\ OutOK(AfterAck(m)) /\ OutOK(p)
         /\ len > 0 /\ ~AcksData(m) => p.text # Null
  <1>1. InFlight /\ OutOK(out) /\ tstate \in BOOLEAN
    BY DEF ITypeOK, TypeOK, LoopOK
  <1>2. OutOK(AfterAck(m)) /\ (len > 0 /\ ~AcksData(m) => AfterAck(m).text # Null)
    <2>1. CASE AcksData(m)
      <3>1. out.text # Null
        BY <1>1, <2>1 DEF AcksData, InFlight, RecvData
      <3>2. OutOK(acked(out))
        BY <1>1, <3>1, AckedOK
      <3> DEFINE H == out.harm \cup Harm("staleAck", m.sess # sess)
                               \cup Harm("mss", out.sentlen # len)
      <3>3. H \in SUBSET Harms
        BY <1>1 DEF OutOK, OutState, Harm, Harms
      <3>4. AfterAck(m) = [acked(out) EXCEPT !.harm = H]
        BY <2>1 DEF AfterAck
      <3> HIDE DEF H
      <3>5. OutOK(AfterAck(m))
        BY <3>2, <3>3, <3>4 DEF OutOK, OutState
      <3>6. QED
        BY <2>1, <3>5
    <2>2. CASE ~AcksData(m)
      BY <1>1, <2>2 DEF AfterAck, RecvData, InFlight
    <2>3. QED
      BY <2>1, <2>2
  <1>3. OutOK(p) /\ (len > 0 /\ ~AcksData(m) => p.text # Null)
    <2>1. CASE p = AfterAck(m)
      BY <1>2, <2>1
    <2>2. CASE p # AfterAck(m)
      <3>1. PICK n \in MsgLengths : p = telnet_send(AfterAck(m), n)
        BY <2>2 DEF Answered
      <3>2. OutOK(p)
        BY <1>1, <1>2, <3>1, SendOK
      <3>3. AfterAck(m).text # Null => p.text # Null
        BY <1>2, <3>1, SendFields DEF OutOK
      <3>4. QED
        BY <1>2, <3>2, <3>3
    <2>3. QED
      BY <2>1, <2>2
  <1>4. QED
    BY <1>2, <1>3

LEMMA TypeData ==
  ASSUME ITypeOK, NEW m \in s2c, RecvData(m)
  PROVE  ITypeOK'
  <1>1. TypeOK /\ InFlight /\ SynAckWin /\ OutOK(out) /\ tstate \in BOOLEAN
    BY DEF ITypeOK, TypeOK, LoopOK
  <1>2. UNCHANGED <<loop, tcp, iss, initialmss, srv, s2c>> /\ nrtx' = 0
    BY DEF RecvData
  <1>3. LoopOK'
    BY <1>1, <1>2 DEF TypeOK, LoopOK, loop
  <1>4. /\ mss' \in 1..TcpMss /\ mss' \in Nat \ {0}
    BY <1>1, TypeSegment, ConnAssumption DEF RecvData, NewMss, TypeOK, ConnOK
  <1>5. snd_nxt' \in Nat /\ rcv_nxt' \in Nat /\ sess \in Nat
    BY <1>1, TypeSegment, ConnAssumption DEF RecvData, TypeOK, ConnOK
  <1>6. PICK p \in Answered(m, AfterAck(m)) :
          LET o == senddata(p, mss')
              l == IF AcksData(m) THEN 0 ELSE len
          IN  /\ out' = Transmitted(o, l)
              /\ len' = SentLen(o, l)
              /\ c2s' = c2s \cup Reply(o, l, snd_nxt', rcv_nxt', m.n > 0)
    BY DEF RecvData
  <1>7. OutOK(p) /\ (len > 0 /\ ~AcksData(m) => p.text # Null)
    BY AnsweredType
  <1> DEFINE l == IF AcksData(m) THEN 0 ELSE len
  <1>8. l \in 0..BufSize /\ (l > 0 => p.text # Null)
    <2>1. len \in 0..BufSize /\ BufSize \in Nat
      BY <1>1, ConnAssumption DEF TypeOK, ConnOK
    <2>2. CASE AcksData(m)
      BY <2>1, <2>2
    <2>3. CASE ~AcksData(m)
      BY <1>7, <2>1, <2>3
    <2>4. QED
      BY <2>2, <2>3
  <1> HIDE DEF l
  <1>9. OutOK(out') /\ len' \in 0..BufSize /\ (len' > 0 => out'.text # Null)
    BY <1>4, <1>5, <1>6, <1>7, <1>8, SentOK DEF l
  <1>10. c2s' \subseteq FromClient
    <2>1. Reply(senddata(p, mss'), l, snd_nxt', rcv_nxt', m.n > 0) \subseteq FromClient
      BY <1>4, <1>5, <1>7, <1>8, SentOK
    <2>2. QED
      BY <1>1, <1>6, <2>1 DEF TypeOK, l
  <1>11. ConnOK'
    BY <1>1, <1>2, <1>4, <1>5, <1>9 DEF TypeOK, ConnOK, loop
  <1>12. delivered' \in Seq(Nat \X Nat)
    BY <1>1, TypeSegment DEF RecvData, TypeOK
  <1>13. QED
    BY <1>1, <1>2, <1>3, <1>9, <1>10, <1>11, <1>12 DEF ITypeOK, TypeOK, InFlight, SynAckWin

(* The server. *)
LEMMA SSegType ==
  ASSUME TypeOK, NEW k \in {"ACK", "FIN", "RST"}, NEW n \in 0..1, NEW w \in Nat
  PROVE  /\ SSeg(k, n, w) \in FromServer /\ SSeg(k, n, w).kind = k
         /\ SrvNext \in Nat
  <1>1. srv.sess \in Nat /\ srv.cliIss \in Nat /\ srv.rcv \in Seq(Byte) /\ srv.sent \in Nat
    BY DEF TypeOK, ServerState
  <1>2. SrvNext \in Nat
    BY <1>1 DEF SrvNext
  <1>3. SrvIss \in Nat
    BY <1>1, ConnAssumption DEF SrvIss
  <1>4. SrvIss + 1 + srv.sent \in Nat
    BY <1>1, <1>3
  <1>5. QED
    BY <1>1, <1>2, <1>4 DEF SSeg, FromServer

LEMMA TypeSrvSyn ==
  ASSUME ITypeOK, NEW m \in c2s, SrvSyn(m)
  PROVE  ITypeOK'
  <1>1. TypeOK /\ InFlight /\ SynAckWin
    BY DEF ITypeOK
  <1>2. UNCHANGED <<loop, conn, out, delivered, c2s>>
    BY DEF SrvSyn, SrvUnchanged
  <1>3. m.sess \in Nat /\ m.seq \in Nat
    BY <1>1 DEF TypeOK, FromClient
  <1>4. srv' \in ServerState
    BY <1>3 DEF SrvSyn, ServerState
  <1>5. PICK w \in Windows \ {0} :
          s2c' = s2c \cup {[sess |-> m.sess, kind |-> "SYNACK", seq |-> m.sess * SrvGap,
                            ack |-> m.seq + 1, n |-> 0, win |-> w]}
    BY DEF SrvSyn
  <1>6. w \in Nat /\ w > 0 /\ m.sess * SrvGap \in Nat
    BY <1>3, ConnAssumption
  <1>7. s2c' \subseteq FromServer /\ SynAckWin'
    <2>1. [sess |-> m.sess, kind |-> "SYNACK", seq |-> m.sess * SrvGap,
           ack |-> m.seq + 1, n |-> 0, win |-> w] \in FromServer
      BY <1>3, <1>6 DEF FromServer
    <2>2. QED
      BY <1>1, <1>5, <1>6, <2>1 DEF TypeOK, SynAckWin
  <1>8. LoopOK'
    BY <1>1, <1>2 DEF TypeOK, LoopOK, loop, conn
  <1>9. ConnOK'
    BY <1>1, <1>2 DEF TypeOK, ConnOK, loop, conn
  <1>10. QED
    BY <1>1, <1>2, <1>4, <1>7, <1>8, <1>9 DEF ITypeOK, TypeOK, InFlight, conn

(* What the server does later in a session. *)
LEMMA TypeSrvSends ==
  ASSUME ITypeOK, SrvLine \/ SrvClose \/ SrvReset \/ \E m \in c2s : SrvRecv(m)
  PROVE  ITypeOK'
  <1>1. TypeOK /\ InFlight /\ SynAckWin
    BY DEF ITypeOK
  <1>2. UNCHANGED <<loop, conn, out, delivered, c2s>>
    BY DEF SrvLine, SrvClose, SrvReset, SrvRecv, SrvUnchanged
  <1>3. srv' \in ServerState /\ s2c' \subseteq FromServer /\ SynAckWin'
    <2>1. CASE SrvLine
      <3>1. PICK w \in Windows : s2c' = s2c \cup {SSeg("ACK", 1, w)}
        BY <2>1 DEF SrvLine
      <3>2. SSeg("ACK", 1, w) \in FromServer /\ SSeg("ACK", 1, w).kind = "ACK"
        BY <1>1, ConnAssumption, SSegType
      <3>3. srv' \in ServerState
        BY <1>1, <2>1 DEF SrvLine, TypeOK, ServerState
      <3>4. QED
        BY <1>1, <3>1, <3>2, <3>3 DEF TypeOK, SynAckWin
    <2>2. CASE SrvClose
      <3>1. PICK n \in 0..1, w \in Windows :
              /\ s2c' = s2c \cup {SSeg("FIN", n, w)}
              /\ srv' = [srv EXCEPT !.state = "FINISHED", !.sent = @ + n]
        BY <2>2 DEF SrvClose
      <3>2. SSeg("FIN", n, w) \in FromServer /\ SSeg("FIN", n, w).kind = "FIN"
        BY <1>1, ConnAssumption, SSegType
      <3>3. srv' \in ServerState
        <4>1. srv.sent \in Nat /\ srv.sent + n \in Nat
          BY <1>1 DEF TypeOK, ServerState
        <4>2. QED
          BY <1>1, <3>1, <4>1 DEF TypeOK, ServerState
      <3>4. QED
        BY <1>1, <3>1, <3>2, <3>3 DEF TypeOK, SynAckWin
    <2>3. CASE SrvReset
      <3>1. SSeg("RST", 0, 0) \in FromServer /\ SSeg("RST", 0, 0).kind = "RST"
        BY <1>1, SSegType
      <3>2. srv' \in ServerState
        BY <1>1, <2>3 DEF SrvReset, TypeOK, ServerState
      <3>3. QED
        BY <1>1, <2>3, <3>1, <3>2 DEF SrvReset, TypeOK, SynAckWin
    <2>4. ASSUME NEW m \in c2s, SrvRecv(m)
          PROVE  srv' \in ServerState /\ s2c' \subseteq FromServer /\ SynAckWin'
      <3>1. m.data \in Seq(Byte)
        BY <1>1 DEF TypeOK, FromClient
      <3>2. srv' \in ServerState
        <4>1. /\ (IF srv.state = "SYNRCVD" THEN "OPEN" ELSE srv.state)
                   \in {"CLOSED", "SYNRCVD", "OPEN", "FINISHED"}
              /\ (IF m.seq = SrvNext THEN srv.rcv \o m.data ELSE srv.rcv) \in Seq(Byte)
          BY <1>1, <3>1 DEF TypeOK, ServerState
        <4>2. QED
          BY <1>1, <2>4, <4>1 DEF SrvRecv, TypeOK, ServerState
      <3>3. SrvNext' \in Nat
        BY <3>2 DEF SrvNext, ServerState
      <3>4. CASE m.data = <<>>
        BY <1>1, <2>4, <3>2, <3>4 DEF SrvRecv, TypeOK, SynAckWin
      <3>5. CASE m.data # <<>>
        <4>1. PICK w \in Windows : s2c' = s2c \cup {[SSeg("ACK", 0, w) EXCEPT !.ack = SrvNext']}
          BY <2>4, <3>5 DEF SrvRecv
        <4>2. SSeg("ACK", 0, w) \in FromServer /\ SSeg("ACK", 0, w).kind = "ACK"
          BY <1>1, ConnAssumption, SSegType
        <4>3. /\ [SSeg("ACK", 0, w) EXCEPT !.ack = SrvNext'] \in FromServer
              /\ [SSeg("ACK", 0, w) EXCEPT !.ack = SrvNext'].kind = "ACK"
          BY <3>3, <4>2 DEF FromServer
        <4>4. QED
          BY <1>1, <3>2, <4>1, <4>3 DEF TypeOK, SynAckWin
      <3>6. QED
        BY <3>4, <3>5
    <2>5. QED
      BY <2>1, <2>2, <2>3, <2>4
  <1>4. LoopOK'
    BY <1>1, <1>2 DEF TypeOK, LoopOK, loop, conn
  <1>5. ConnOK'
    BY <1>1, <1>2 DEF TypeOK, ConnOK, loop, conn
  <1>6. QED
    BY <1>1, <1>2, <1>3, <1>4, <1>5 DEF ITypeOK, TypeOK, InFlight, conn

LEMMA TypeStutter == ITypeOK /\ UNCHANGED vars => ITypeOK'
  BY DEF ITypeOK, TypeOK, LoopOK, ConnOK, InFlight, SynAckWin, vars, loop, conn, net

LEMMA TypeNext == ITypeOK /\ [Next]_vars => ITypeOK'
  <1> SUFFICES ASSUME ITypeOK, [Next]_vars PROVE ITypeOK'
    OBVIOUS
  <1>1. CASE Client
    <2>1. CASE StartSession \/ Connect \/ HostNotFound \/ UserSend \/ LeaveLoop
      BY <2>1, TypeStart, TypeConnect, TypeLoop, TypeUserSend
    <2>2. CASE Timer
      BY <2>2, TypeGivesUp, TypeTimerSyn, TypeTimerRexmit, TypeTimerPoll DEF Timer
    <2>3. ASSUME NEW m \in s2c, Receive(m) PROVE ITypeOK'
      BY <2>3, TypeAnswered, TypeSynAck, TypeAbort, TypeFin, TypeWindow, TypeData DEF Receive
    <2>4. QED
      BY <1>1, <2>1, <2>2, <2>3 DEF Client
  <1>2. CASE Server
    BY <1>2, TypeSrvSyn, TypeSrvSends DEF Server
  <1>3. CASE UNCHANGED vars
    BY <1>3, TypeStutter
  <1>4. QED
    BY <1>1, <1>2, <1>3 DEF Next

LEMMA ITypeCorrect == Spec => []ITypeOK
  BY TypeInit, TypeNext, PTL DEF Spec

(* The type invariant: in particular the arithmetic of telnet.c on text,   *)
(* textlen and sentlen stays inside serv_msg_buf, and the MSS is never 0.  *)
THEOREM TypeCorrect == Spec => []TypeOK
  <1>1. ITypeOK => TypeOK
    BY DEF ITypeOK
  <1>2. QED
    BY <1>1, ITypeCorrect, PTL

-------------------------------------------------------------------------------
(***************************************************************************)
(* What a session sends and receives.                                      *)
(***************************************************************************)
(* The session has had no connection yet. *)
NotYet == tcp = "SYN_SENT" \/ (tcp = "CLOSED" /\ ~done)

Syn(k, seq) == \E m \in c2s : m.kind = "SYN" /\ m.sess = k /\ m.seq = seq

(* Every session has one initial sequence number at most, which is past    *)
(* those of the sessions before it.                                        *)
OneSyn ==
  /\ \A m \in c2s : m.sess <= sess
  /\ \A m \in c2s : m.kind = "SYN" =>
       /\ m.seq <= iss /\ (m.sess = sess => m.seq = iss)
       /\ tcp = "SYN_SENT" /\ m.seq = iss => m.sess = sess
       /\ tcp = "CLOSED" /\ ~done => m.sess # sess
  /\ tcp = "SYN_SENT" => snd_nxt = iss /\ len = 1

(* The server's end belongs to a SYN, and so does every SYNACK; the other  *)
(* segments of a session are numbered after its SYNACK, and acknowledge no *)
(* more than was received.                                                 *)
ServerSegment(m) ==
  /\ m.sess <= srv.sess
  /\ m.kind = "SYNACK" =>
       /\ m.seq = m.sess * SrvGap /\ m.n = 0
       /\ m.ack > 0 /\ Syn(m.sess, m.ack - 1)
       /\ m.sess = srv.sess => m.ack = srv.cliIss + 1
  /\ m.kind # "SYNACK" =>
       /\ m.sess * SrvGap < m.seq /\ m.seq + m.n <= m.sess * SrvGap + 1 + MaxUnits
       /\ m.sess = srv.sess => /\ m.seq + m.n <= m.sess * SrvGap + 1 + srv.sent
                               /\ m.ack <= SrvNext

OneServer ==
  /\ srv.sess # 0 => Syn(srv.sess, srv.cliIss)
  /\ srv.sent <= MaxUnits
  /\ \A m \in s2c : ServerSegment(m)

(* Before there is a connection, nothing is sent or received on it.        *)
Begun ==
  /\ NotYet => /\ out.stream = <<>> /\ delivered = <<>>
               /\ \A m \in c2s : m.sess = sess => m.data = <<>>
               /\ srv.sess = sess => srv.rcv = <<>>
  /\ tcp = "ESTABLISHED" => tstate /\ snd_nxt > iss

IHandshake == ITypeOK /\ OneSyn /\ OneServer /\ Begun /\ ThisSession

(* What a concatenation holds, and where.                                  *)
LEMMA Joined ==
  ASSUME NEW S, NEW s \in Seq(S), NEW t \in Seq(S)
  PROVE  /\ s \o t \in Seq(S) /\ Len(s) \in Nat /\ Len(t) \in Nat
         /\ Len(s \o t) = Len(s) + Len(t)
         /\ \A i \in 1..Len(s) : (s \o t)[i] = s[i]
         /\ \A i \in 1..Len(t) : (s \o t)[Len(s) + i] = t[i]
  OBVIOUS

LEMMA NetTypes ==
  ASSUME TypeOK
  PROVE  /\ sess \in Nat /\ iss \in Nat /\ snd_nxt \in Nat /\ rcv_nxt \in Nat /\ len \in Nat
         /\ srv.sess \in Nat /\ srv.cliIss \in Nat /\ srv.sent \in Nat /\ srv.rcv \in Seq(Byte)
         /\ \A m \in c2s : m.sess \in Nat /\ m.seq \in Nat /\ m.ack \in Nat /\ m.data \in Seq(Byte)
         /\ \A m \in s2c : /\ m.sess \in Nat /\ m.seq \in Nat /\ m.ack \in Nat /\ m.n \in 0..1
                           /\ m.kind \in {"SYNACK", "ACK", "FIN", "RST"}
         /\ out.stream \in Seq(Byte) /\ SrvNext \in Nat
  <1>1. /\ sess \in Nat /\ iss \in Nat /\ snd_nxt \in Nat /\ rcv_nxt \in Nat /\ len \in Nat
    BY ConnAssumption DEF TypeOK, ConnOK
  <1>2. /\ srv.sess \in Nat /\ srv.cliIss \in Nat /\ srv.sent \in Nat /\ srv.rcv \in Seq(Byte)
    BY DEF TypeOK, ServerState
  <1>3. \A m \in c2s : m.sess \in Nat /\ m.seq \in Nat /\ m.ack \in Nat /\ m.data \in Seq(Byte)
    BY DEF TypeOK, FromClient
  <1>4. \A m \in s2c : /\ m.sess \in Nat /\ m.seq \in Nat /\ m.ack \in Nat /\ m.n \in 0..1
                      /\ m.kind \in {"SYNACK", "ACK", "FIN", "RST"}
    BY DEF TypeOK, FromServer
  <1>5. out.stream \in Seq(Byte)
    BY DEF TypeOK, OutOK, OutState
  <1>6. SrvNext \in Nat
    BY <1>2 DEF SrvNext
  <1> QED
    BY <1>1, <1>2, <1>3, <1>4, <1>5, <1>6

(* The numbers of different sessions are far apart.                        *)
LEMMA Apart ==
  ASSUME NEW j \in Nat, NEW k \in Nat, NEW G \in Nat, j < k
  PROVE  j * G \in Nat /\ k * G \in Nat /\ j * G + G <= k * G
  <1>1. PICK d \in Nat : k = j + 1 + d
    <2>1. k - j - 1 \in Nat /\ k = j + 1 + (k - j - 1)
      OBVIOUS
    <2> QED
      BY <2>1
  <1>2. d * G \in Nat /\ j * G \in Nat /\ k * G = j * G + G + d * G
    BY <1>1
  <1> QED
    BY <1>2

(* A segment numbered rcv_nxt, whose number counts, is of this session.    *)
LEMMA OwnSegment ==
  ASSUME TypeOK, OneServer, ThisSession, tcp = "ESTABLISHED", NEW m \in s2c, m.seq = rcv_nxt
  PROVE  /\ m.kind # "SYNACK" /\ m.sess = sess
         /\ rcv_nxt = sess * SrvGap + 1 + Len(delivered)
         /\ Len(delivered) + m.n <= srv.sent
  <1> DEFINE D == Len(delivered)
  <1>1. /\ sess \in Nat /\ m.sess \in Nat /\ m.n \in 0..1 /\ m.seq \in Nat /\ srv.sent \in Nat
        /\ SrvGap \in Nat /\ MaxUnits \in Nat /\ SrvGap > MaxUnits + 2
    BY NetTypes, ConnAssumption
  <1>2. delivered \in Seq(Nat \X Nat)
    BY DEF TypeOK
  <1>3. D \in Nat /\ D <= srv.sent /\ srv.sent <= MaxUnits /\ srv.sess = sess
    BY <1>2 DEF ThisSession, FreshHandshake, LinesInOrder, OneServer
  <1>4. m.seq = sess * SrvGap + 1 + D
    BY DEF ThisSession, LinesInOrder
  <1>5. ServerSegment(m)
    BY DEF OneServer
  <1> HIDE DEF D
  <1>6. m.sess <= sess
    BY <1>3, <1>5 DEF ServerSegment
  <1>7. sess * SrvGap \in Nat /\ m.sess * SrvGap \in Nat
    BY <1>1
  <1>8. m.sess < sess => m.sess * SrvGap + SrvGap <= sess * SrvGap
    BY <1>1, Apart
  <1>9. m.kind # "SYNACK"
    <2> SUFFICES ASSUME m.kind = "SYNACK" PROVE FALSE
      OBVIOUS
    <2>1. m.seq = m.sess * SrvGap
      BY <1>5 DEF ServerSegment
    <2>2. m.sess = sess \/ m.sess < sess
      BY <1>1, <1>6
    <2> QED
      BY <1>1, <1>3, <1>4, <1>7, <1>8, <2>1, <2>2
  <1>10. /\ m.seq + m.n <= m.sess * SrvGap + 1 + MaxUnits
         /\ m.sess = srv.sess => m.seq + m.n <= m.sess * SrvGap + 1 + srv.sent
    BY <1>5, <1>9 DEF ServerSegment
  <1>11. m.sess = sess
    BY <1>1, <1>3, <1>4, <1>6, <1>7, <1>8, <1>10
  <1>12. D + m.n <= srv.sent
    BY <1>1, <1>3, <1>4, <1>7, <1>10, <1>11
  <1> QED
    BY <1>4, <1>9, <1>11, <1>12 DEF D

(* A segment that is taken while the connection is established, and has a  *)
(* line, a SYN or a FIN, is numbered rcv_nxt.                              *)
LEMMA AcceptedSegment ==
  ASSUME NEW m \in s2c, Accepts(m), tcp = "ESTABLISHED",
         m.n > 0 \/ m.kind \in {"SYNACK", "FIN"}
  PROVE  m.seq = rcv_nxt
  BY DEF Accepts, OutOfOrder, HandshakeReply

LEMMA HandshakeInit == Init => IHandshake
  <1> SUFFICES ASSUME Init PROVE IHandshake
    OBVIOUS
  <1>1. ITypeOK
    BY TypeInit
  <1>2. OneSyn /\ OneServer
    BY ConnAssumption DEF Init, OneSyn, OneServer, NoServer
  <1>3. Begun /\ ThisSession
    BY DEF Init, NoServer, Begun, ThisSession, FreshHandshake, LinesInOrder
  <1> QED
    BY <1>1, <1>2, <1>3 DEF IHandshake

(* What the server's end is known to be stays so while only the client     *)
(* sends.                                                                  *)
LEMMA ServerStays ==
  ASSUME OneServer, UNCHANGED <<srv, s2c>>, c2s \subseteq c2s'
  PROVE  OneServer'
  <1>1. \A k, q : Syn(k, q) => Syn(k, q)'
    BY DEF Syn
  <1>2. \A m \in s2c : ServerSegment(m) => ServerSegment(m)'
    BY <1>1 DEF ServerSegment, SrvNext
  <1> QED
    BY <1>1, <1>2 DEF OneServer

(* A step of the client that starts nothing: what it sends is of this      *)
(* session, and no SYN.                                                    *)
LEMMA SynStays ==
  ASSUME OneSyn, TypeOK, UNCHANGED <<sess, iss>>,
         \A m \in c2s' : m \in c2s \/ (m.sess = sess /\ m.kind # "SYN"),
         tcp' = "SYN_SENT" => tcp = "SYN_SENT" /\ UNCHANGED <<snd_nxt, len>>,
         tcp' = "CLOSED" /\ ~done' => tcp = "CLOSED" /\ ~done
  PROVE  OneSyn'
  <1>1. sess \in Nat
    BY NetTypes
  <1>2. \A m \in c2s' : m.sess <= sess
    BY <1>1 DEF OneSyn
  <1>3. \A m \in c2s' : m.kind = "SYN" => m \in c2s
    OBVIOUS
  <1>4. \A m \in c2s' : m.kind = "SYN" =>
           /\ m.seq <= iss /\ (m.sess = sess => m.seq = iss)
           /\ tcp' = "SYN_SENT" /\ m.seq = iss => m.sess = sess
           /\ tcp' = "CLOSED" /\ ~done' => m.sess # sess
    BY <1>3 DEF OneSyn
  <1> QED
    BY <1>2, <1>4 DEF OneSyn
  
(* The same, with no connection made.                                      *)
LEMMA ClientStays ==
  ASSUME IHandshake, ITypeOK', UNCHANGED <<sess, iss, srv, s2c>>, c2s \subseteq c2s',
         \A m \in c2s' : m \in c2s \/ (m.sess = sess /\ m.kind # "SYN"),
         NotYet' => /\ tcp' = tcp /\ done' = done /\ UNCHANGED <<snd_nxt, len, delivered>>
                    /\ out'.stream = out.stream
                    /\ \A m \in c2s' : m \in c2s \/ m.data = <<>>,
         tcp' = "ESTABLISHED" => /\ tcp = "ESTABLISHED" /\ tstate' /\ snd_nxt' >= snd_nxt
                                 /\ UNCHANGED <<delivered, rcv_nxt>>
  PROVE  IHandshake'
  <1>1. OneServer'
    BY ServerStays DEF IHandshake
  <1>2. OneSyn'
    <2>1. /\ tcp' = "SYN_SENT" => tcp = "SYN_SENT" /\ UNCHANGED <<snd_nxt, len>>
          /\ tcp' = "CLOSED" /\ ~done' => tcp = "CLOSED" /\ ~done
      BY DEF NotYet
    <2> QED
      BY <2>1, SynStays DEF IHandshake, ITypeOK
  <1>3. Begun'
    <2>1. NotYet' => NotYet
      BY DEF NotYet
    <2>2. NotYet' => /\ out'.stream = <<>> /\ delivered' = <<>>
                     /\ \A m \in c2s' : m.sess = sess => m.data = <<>>
                     /\ srv.sess = sess => srv.rcv = <<>>
      BY <2>1 DEF IHandshake, Begun
    <2>3. tcp' = "ESTABLISHED" => tstate' /\ snd_nxt' > iss
      <3>1. snd_nxt \in Nat /\ snd_nxt' \in Nat /\ iss \in Nat
        BY NetTypes DEF IHandshake, ITypeOK, TypeOK, ConnOK
      <3> QED
        BY <3>1 DEF IHandshake, Begun
    <2> QED
      BY <2>2, <2>3 DEF Begun
  <1>4. ThisSession'
    BY DEF IHandshake, ThisSession, FreshHandshake, LinesInOrder
  <1> QED
    BY <1>1, <1>2, <1>3, <1>4 DEF IHandshake

LEMMA HandshakeStart == IHandshake /\ StartSession => IHandshake'
  <1> SUFFICES ASSUME IHandshake, StartSession PROVE IHandshake'
    OBVIOUS
  <1>1. ITypeOK'
    BY TypeStart DEF IHandshake
  <1>2. /\ sess' = sess + 1 /\ tcp' = "CLOSED" /\ ~done' /\ UNCHANGED <<iss, snd_nxt, len, srv, c2s, s2c>>
        /\ delivered' = <<>> /\ out'.stream = <<>>
    BY DEF StartSession, net, IHandshake, ITypeOK, TypeOK, OutOK, OutState
  <1>3. sess \in Nat /\ srv.sess \in Nat /\ \A m \in c2s : m.sess \in Nat
    BY NetTypes DEF IHandshake, ITypeOK
  <1>4. \A m \in c2s : m.sess <= sess
    BY DEF IHandshake, OneSyn
  <1>5. srv.sess <= sess
    BY <1>3, <1>4 DEF IHandshake, OneServer, Syn
  <1>6. OneServer'
    BY <1>2, ServerStays DEF IHandshake
  <1>7. OneSyn'
    BY <1>2, <1>3, <1>4 DEF IHandshake, OneSyn
  <1>8. Begun'
    BY <1>2, <1>3, <1>4, <1>5 DEF Begun, NotYet
  <1>9. ThisSession'
    BY <1>2 DEF ThisSession, FreshHandshake, LinesInOrder
  <1> QED
    BY <1>1, <1>6, <1>7, <1>8, <1>9 DEF IHandshake

(* The new initial sequence number is past all that were taken.            *)
LEMMA HandshakeConnect == IHandshake /\ Connect => IHandshake'
  <1> SUFFICES ASSUME IHandshake, Connect PROVE IHandshake'
    OBVIOUS
  <1>1. ITypeOK'
    BY TypeConnect DEF IHandshake
  <1>2. /\ tcp = "CLOSED" /\ ~done /\ tcp' = "SYN_SENT" /\ len' = 1 /\ snd_nxt' = iss'
        /\ UNCHANGED <<sess, done, out, delivered, srv, c2s, s2c>>
    BY DEF Connect, Running, loop, net
  <1>3. iss' > iss /\ iss \in Nat /\ iss' \in Nat
    BY NetTypes, ConnAssumption DEF Connect, IHandshake, ITypeOK
  <1>4. OneServer'
    BY <1>2, ServerStays DEF IHandshake
  <1>5. \A m \in c2s : m.seq \in Nat /\ (m.kind = "SYN" => m.seq <= iss /\ m.sess # sess)
    BY <1>2, NetTypes DEF IHandshake, OneSyn, ITypeOK
  <1>6. OneSyn'
    BY <1>2, <1>3, <1>5 DEF IHandshake, OneSyn
  <1>7. Begun'
    BY <1>2 DEF IHandshake, Begun, NotYet
  <1>8. ThisSession'
    BY <1>2 DEF ThisSession, FreshHandshake, LinesInOrder
  <1> QED
    BY <1>1, <1>4, <1>6, <1>7, <1>8 DEF IHandshake

LEMMA HandshakeTimerSyn == IHandshake /\ TimerSyn => IHandshake'
  <1> SUFFICES ASSUME IHandshake, TimerSyn PROVE IHandshake'
    OBVIOUS
  <1>1. ITypeOK'
    BY TypeTimerSyn DEF IHandshake
  <1>2. /\ tcp = "SYN_SENT" /\ UNCHANGED <<sess, done, tcp, iss, snd_nxt, len, out, delivered, srv, s2c>>
        /\ c2s' = c2s \cup {CSeg("SYN", snd_nxt, 0, <<>>)}
    BY DEF TimerSyn, loop
  <1>3. snd_nxt = iss /\ iss \in Nat /\ sess \in Nat
    BY <1>2, NetTypes DEF IHandshake, OneSyn, ITypeOK
  <1>4. \A m \in c2s' : m \in c2s \/ (m.kind = "SYN" /\ m.sess = sess /\ m.seq = iss /\ m.data = <<>>)
    BY <1>2, <1>3 DEF CSeg
  <1>5. OneServer'
    BY <1>2, ServerStays DEF IHandshake
  <1>6. OneSyn'
    BY <1>2, <1>3, <1>4 DEF IHandshake, OneSyn
  <1>7. Begun'
    BY <1>2, <1>4 DEF IHandshake, Begun, NotYet
  <1>8. ThisSession'
    BY <1>2 DEF ThisSession, FreshHandshake, LinesInOrder
  <1> QED
    BY <1>1, <1>5, <1>6, <1>7, <1>8 DEF IHandshake

(* The steps of the client that make no connection and deliver no line.    *)
LEMMA HandshakeQuiet ==
  ASSUME IHandshake,
         \/ HostNotFound \/ LeaveLoop \/ TimerGivesUp
         \/ \E m \in s2c : RecvNoConn(m) \/ RecvRst(m) \/ RecvOutOfOrder(m) \/ RecvAbort(m)
                             \/ RecvFin(m) \/ RecvWindow(m)
  PROVE  IHandshake'
  <1>1. ITypeOK'
    BY TypeLoop, TypeGivesUp, TypeAnswered, TypeAbort, TypeFin, TypeWindow DEF IHandshake
  <1>2. UNCHANGED <<sess, iss, srv, s2c, delivered, out, tstate>>
    BY DEF HostNotFound, LeaveLoop, TimerGivesUp, RecvNoConn, RecvRst, RecvOutOfOrder, RecvAbort,
       RecvFin, RecvWindow, loop, conn, net
  <1>3. /\ c2s \subseteq c2s'
        /\ \A m \in c2s' : m \in c2s \/ (m.sess = sess /\ m.kind # "SYN" /\ m.data = <<>>)
    <2>1. CASE HostNotFound \/ LeaveLoop
      BY <2>1 DEF HostNotFound, LeaveLoop, net
    <2>2. CASE TimerGivesUp
      BY <2>2 DEF TimerGivesUp, CSeg
    <2>3. ASSUME NEW m \in s2c, RecvNoConn(m) \/ RecvOutOfOrder(m) \/ RecvAbort(m) \/ RecvFin(m)
          PROVE  /\ c2s \subseteq c2s'
                 /\ \A x \in c2s' : x \in c2s \/ (x.sess = sess /\ x.kind # "SYN" /\ x.data = <<>>)
      BY <2>3 DEF RecvNoConn, RecvOutOfOrder, RecvAbort, RecvFin, CSeg
    <2>4. ASSUME NEW m \in s2c, RecvRst(m) \/ RecvWindow(m)
          PROVE  c2s' = c2s
      BY <2>4 DEF RecvRst, RecvWindow, net
    <2> QED
      BY <2>1, <2>2, <2>3, <2>4
  <1>4. NotYet' => /\ tcp' = tcp /\ done' = done /\ UNCHANGED <<snd_nxt, len>>
    BY DEF HostNotFound, LeaveLoop, TimerGivesUp, RecvNoConn, RecvRst, RecvOutOfOrder, RecvAbort,
       RecvFin, RecvWindow, loop, conn, NotYet
  <1>5. tcp' = "ESTABLISHED" => tcp = "ESTABLISHED" /\ UNCHANGED <<snd_nxt, rcv_nxt>>
    BY DEF HostNotFound, LeaveLoop, TimerGivesUp, RecvNoConn, RecvRst, RecvOutOfOrder, RecvAbort,
       RecvFin, RecvWindow, loop, conn
  <1>6. tcp' = "ESTABLISHED" => tstate' /\ snd_nxt' >= snd_nxt
    <2>1. snd_nxt \in Nat
      BY NetTypes DEF IHandshake, ITypeOK
    <2> QED
      BY <1>2, <1>5, <2>1 DEF IHandshake, Begun
  <1> QED
    BY <1>1, <1>2, <1>3, <1>4, <1>5, <1>6, ClientStays

(* A message in the buffer is in the stream only while established.        *)
LEMMA HandshakeUserSend == IHandshake /\ UserSend => IHandshake'
  <1> SUFFICES ASSUME IHandshake, UserSend PROVE IHandshake'
    OBVIOUS
  <1>1. ITypeOK'
    BY TypeUserSend DEF IHandshake
  <1>2. UNCHANGED <<sess, done, tstate, tcp, iss, snd_nxt, rcv_nxt, len, delivered, srv, c2s, s2c>>
    BY DEF UserSend, loop, conn, net
  <1>3. PICK n \in MsgLengths : out' = telnet_send(out, n)
    BY DEF UserSend
  <1>4. tcp # "ESTABLISHED" => out'.stream = out.stream
    BY <1>3, SendFields DEF IHandshake, ITypeOK, TypeOK, OutOK
  <1>5. tcp = "ESTABLISHED" => tstate /\ snd_nxt >= snd_nxt
    BY NetTypes DEF IHandshake, Begun, ITypeOK
  <1> QED
    BY <1>1, <1>2, <1>4, <1>5, ClientStays DEF NotYet

(* What the end of telnet_app sends is data or an ACK of this session.     *)
LEMMA ReplyIs ==
  ASSUME NEW o, NEW l, NEW seq, NEW ack, NEW nd
  PROVE  \A m \in Reply(o, l, seq, ack, nd) :
           /\ m.sess = sess /\ m.kind = "ACK" /\ m.seq = seq
           /\ m.data # <<>> => slen(o) > 0 /\ m.data = Payload(o, SentLen(o, l))
  BY DEF Reply, CSeg

LEMMA HandshakeResend == IHandshake /\ (TimerRexmit \/ TimerPoll) => IHandshake'
  <1> SUFFICES ASSUME IHandshake, TimerRexmit \/ TimerPoll PROVE IHandshake'
    OBVIOUS
  <1>1. ITypeOK'
    BY TypeTimerRexmit, TypeTimerPoll DEF IHandshake
  <1>2. /\ tcp = "ESTABLISHED"
        /\ UNCHANGED <<sess, done, tstate, tcp, iss, snd_nxt, rcv_nxt, delivered, srv, s2c>>
        /\ c2s' = c2s \cup Reply(senddata(out, mss), len, snd_nxt, rcv_nxt, FALSE)
    BY DEF TimerRexmit, TimerPoll, loop
  <1>3. \A m \in c2s' : m \in c2s \/ (m.sess = sess /\ m.kind # "SYN")
    <2>1. \A m \in Reply(senddata(out, mss), len, snd_nxt, rcv_nxt, FALSE) :
            m.sess = sess /\ m.kind # "SYN"
      BY DEF Reply, CSeg
    <2> QED
      BY <1>2, <2>1
  <1>4. tstate /\ snd_nxt >= snd_nxt
    BY <1>2, NetTypes DEF IHandshake, Begun, ITypeOK
  <1> QED
    BY <1>1, <1>2, <1>3, <1>4, ClientStays DEF NotYet

(* The SYNACK that is waited for answers this session's SYN.               *)
LEMMA OwnSynAck ==
  ASSUME IHandshake, NEW m \in s2c, RecvSynAck(m)
  PROVE  /\ m.sess = sess /\ m.seq = sess * SrvGap /\ m.ack = iss + 1
         /\ srv.sess = sess /\ srv.cliIss = iss /\ snd_nxt = iss /\ len = 1
  <1>1. TypeOK /\ OneSyn /\ OneServer /\ tcp = "SYN_SENT" /\ m.kind = "SYNACK"
    BY DEF IHandshake, ITypeOK, RecvSynAck, HandshakeReply
  <1>2. /\ m.sess \in Nat /\ m.ack \in Nat /\ iss \in Nat /\ sess \in Nat /\ srv.sess \in Nat
        /\ \A s \in c2s : s.sess \in Nat /\ s.seq \in Nat
    BY <1>1, NetTypes
  <1>3. snd_nxt = iss /\ len = 1
    BY <1>1 DEF OneSyn
  <1>4. m.ack = iss + 1
    BY <1>3 DEF RecvSynAck, AcksData
  <1>5. m.seq = m.sess * SrvGap /\ m.sess <= srv.sess /\ Syn(m.sess, m.ack - 1)
    BY <1>1 DEF OneServer, ServerSegment
  <1>6. PICK s \in c2s : s.kind = "SYN" /\ s.sess = m.sess /\ s.seq = m.ack - 1
    BY <1>5 DEF Syn
  <1>7. s.seq = iss
    BY <1>2, <1>4, <1>6
  <1>8. m.sess = sess
    BY <1>1, <1>6, <1>7 DEF OneSyn
  <1>9. \A x \in c2s : x.kind = "SYN" => x.sess <= sess /\ (x.sess = sess => x.seq = iss)
    BY <1>1 DEF OneSyn
  <1>10. srv.sess = sess
    <2>1. CASE srv.sess = 0
      BY <1>2, <1>5, <1>8, <2>1
    <2>2. CASE srv.sess # 0
      <3>1. srv.sess <= sess
        BY <1>1, <1>9, <2>2 DEF OneServer, Syn
      <3> QED
        BY <1>2, <1>5, <1>8, <3>1
    <2> QED
      BY <2>1, <2>2
  <1>11. srv.cliIss = iss
    <2>1. m.ack = srv.cliIss + 1 /\ srv.cliIss \in Nat
      BY <1>1, <1>8, <1>10, NetTypes DEF OneServer, ServerSegment
    <2> QED
      BY <1>2, <1>4, <2>1
  <1> QED
    BY <1>3, <1>4, <1>5, <1>8, <1>10, <1>11

LEMMA HandshakeSynAck ==
  ASSUME IHandshake, NEW m \in s2c, RecvSynAck(m)
  PROVE  IHandshake'
  <1>1. ITypeOK'
    BY TypeSynAck DEF IHandshake
  <1>2. /\ m.seq = sess * SrvGap /\ srv.sess = sess /\ srv.cliIss = iss /\ snd_nxt = iss /\ len = 1
    BY OwnSynAck
  <1>3. /\ tcp = "SYN_SENT" /\ tcp' = "ESTABLISHED" /\ snd_nxt' = snd_nxt + len
        /\ rcv_nxt' = m.seq + 1 /\ tstate'
        /\ UNCHANGED <<sess, done, iss, delivered, srv, s2c>>
        /\ c2s' = c2s \cup {CSeg("ACK", snd_nxt', rcv_nxt', <<>>)}
    BY DEF RecvSynAck, HandshakeReply
  <1>4. iss \in Nat /\ srv.sent \in Nat /\ sess * SrvGap \in Nat
    BY NetTypes, ConnAssumption DEF IHandshake, ITypeOK
  <1>5. OneServer'
    BY <1>3, ServerStays DEF IHandshake
  <1>6. OneSyn'
    <2>1. \A x \in c2s' : x \in c2s \/ (x.sess = sess /\ x.kind # "SYN")
      BY <1>3 DEF CSeg
    <2> QED
      BY <1>3, <2>1, SynStays DEF IHandshake, ITypeOK
  <1>7. Begun'
    BY <1>2, <1>3, <1>4 DEF Begun, NotYet
  <1>8. ThisSession'
    <2>1. delivered = <<>>
      BY <1>3 DEF IHandshake, Begun, NotYet
    <2> QED
      BY <1>2, <1>3, <1>4, <2>1 DEF ThisSession, FreshHandshake, LinesInOrder
  <1> QED
    BY <1>1, <1>5, <1>6, <1>7, <1>8 DEF IHandshake

(* A line that is delivered is the next one of this session.               *)
LEMMA HandshakeData ==
  ASSUME IHandshake, NEW m \in s2c, RecvData(m)
  PROVE  IHandshake'
  <1>1. ITypeOK' /\ TypeOK
    BY TypeData DEF IHandshake, ITypeOK
  <1>2. /\ tcp = "ESTABLISHED" /\ Accepts(m)
        /\ snd_nxt' = (IF AcksData(m) THEN snd_nxt + len ELSE snd_nxt)
        /\ rcv_nxt' = rcv_nxt + m.n
        /\ delivered' = (IF m.n > 0 THEN Append(delivered, <<m.sess, m.seq>>) ELSE delivered)
        /\ UNCHANGED <<sess, done, tstate, tcp, iss, srv, s2c>>
    BY DEF RecvData, loop
  <1>3. PICK p, l : c2s' = c2s \cup Reply(senddata(p, mss'), l, snd_nxt', rcv_nxt', m.n > 0)
    BY DEF RecvData
  <1>4. \A x \in c2s' : x \in c2s \/ (x.sess = sess /\ x.kind # "SYN")
    <2>1. \A x \in Reply(senddata(p, mss'), l, snd_nxt', rcv_nxt', m.n > 0) :
            x.sess = sess /\ x.kind # "SYN"
      BY ReplyIs
    <2> QED
      BY <1>3, <2>1
  <1>5. /\ snd_nxt \in Nat /\ len \in Nat /\ iss \in Nat /\ sess \in Nat /\ m.n \in 0..1
        /\ delivered \in Seq(Nat \X Nat) /\ rcv_nxt \in Nat /\ m.seq \in Nat /\ m.sess \in Nat
    BY <1>1, NetTypes DEF TypeOK
  <1>6. OneServer'
    BY <1>2, <1>3, ServerStays DEF IHandshake
  <1>7. OneSyn'
    BY <1>1, <1>2, <1>4, SynStays DEF IHandshake
  <1>8. Begun'
    BY <1>2, <1>5 DEF IHandshake, Begun, NotYet
  <1>9. ThisSession'
    <2>1. CASE m.n = 0
      <3>1. delivered' = delivered /\ rcv_nxt' = rcv_nxt
        BY <1>2, <1>5, <2>1
      <3> QED
        BY <1>2, <3>1 DEF IHandshake, ThisSession, FreshHandshake, LinesInOrder
    <2>2. CASE m.n = 1
      <3>1. m.seq = rcv_nxt
        BY <1>2, <2>2, AcceptedSegment
      <3>2. /\ m.sess = sess /\ rcv_nxt = sess * SrvGap + 1 + Len(delivered)
            /\ Len(delivered) + 1 <= srv.sent
        BY <1>1, <1>2, <2>2, <3>1, OwnSegment DEF IHandshake
      <3>3. \A i \in 1..Len(delivered) : delivered[i] = <<sess, sess * SrvGap + i>>
        BY <1>2 DEF IHandshake, ThisSession, LinesInOrder
      <3>4. sess * SrvGap \in Nat
        BY <1>5, ConnAssumption
      <3> DEFINE line == <<m.sess, m.seq>>
      <3>5. line \in Nat \X Nat
        BY <1>5
      <3>6. line = <<sess, sess * SrvGap + (Len(delivered) + 1)>>
        BY <3>1, <3>2, <3>4
      <3>7. delivered' = Append(delivered, line) /\ rcv_nxt' = rcv_nxt + 1
        BY <1>2, <2>2
      <3> HIDE DEF line
      <3>8. /\ Len(delivered') = Len(delivered) + 1
            /\ \A i \in 1..Len(delivered) : delivered'[i] = delivered[i]
            /\ delivered'[Len(delivered) + 1] = line
        BY <1>5, <3>5, <3>7
      <3>9. \A i \in 1..Len(delivered') : delivered'[i] = <<sess, sess * SrvGap + i>>
        <4> TAKE i \in 1..Len(delivered')
        <4>1. CASE i \in 1..Len(delivered)
          BY <4>1, <3>3, <3>8
        <4>2. CASE i = Len(delivered) + 1
          BY <4>2, <3>6, <3>8
        <4>3. Len(delivered) \in Nat
          BY <1>5
        <4> QED
          BY <4>1, <4>2, <4>3, <3>8
      <3>10. rcv_nxt' = sess * SrvGap + 1 + Len(delivered') /\ Len(delivered') <= srv.sent
        BY <1>5, <3>2, <3>4, <3>7, <3>8
      <3> QED
        BY <1>2, <3>9, <3>10 DEF IHandshake, ThisSession, FreshHandshake, LinesInOrder
    <2> QED
      BY <1>5, <2>1, <2>2
  <1> QED
    BY <1>1, <1>6, <1>7, <1>8, <1>9 DEF IHandshake

(* While the connection is established, the server takes no other SYN.     *)
LEMMA HandshakeSrvSyn ==
  ASSUME IHandshake, NEW m \in c2s, SrvSyn(m)
  PROVE  IHandshake'
  <1>1. ITypeOK' /\ TypeOK
    BY TypeSrvSyn DEF IHandshake, ITypeOK
  <1>2. UNCHANGED <<sess, done, tstate, tcp, iss, snd_nxt, rcv_nxt, len, out, delivered, c2s>>
    BY DEF SrvSyn, SrvUnchanged, loop, conn
  <1>3. /\ m.kind = "SYN" /\ m.sess > srv.sess
        /\ srv'.sess = m.sess /\ srv'.cliIss = m.seq /\ srv'.rcv = <<>> /\ srv'.sent = 0
    BY DEF SrvSyn
  <1>4. PICK w \in Windows \ {0} :
          s2c' = s2c \cup {[sess |-> m.sess, kind |-> "SYNACK", seq |-> m.sess * SrvGap,
                            ack |-> m.seq + 1, n |-> 0, win |-> w]}
    BY DEF SrvSyn
  <1>5. /\ m.sess \in Nat /\ m.seq \in Nat /\ srv.sess \in Nat /\ sess \in Nat
        /\ \A x \in s2c : x.sess \in Nat
    BY <1>1, NetTypes
  <1>6. OneServer'
    <2>1. \A k, q : Syn(k, q)' <=> Syn(k, q)
      BY <1>2 DEF Syn
    <2>2. Syn(m.sess, m.seq)
      BY <1>3 DEF Syn
    <2>3. MaxUnits \in Nat
      BY ConnAssumption
    <2>4. \A x \in s2c : ServerSegment(x) /\ x.sess <= srv.sess /\ x.sess # m.sess
      BY <1>3, <1>5 DEF IHandshake, OneServer, ServerSegment
    <2>5. ASSUME NEW x \in s2c PROVE ServerSegment(x)'
      BY <1>3, <1>5, <2>1, <2>4, <2>5 DEF ServerSegment
    <2>6. ASSUME NEW x, x.sess = m.sess, x.kind = "SYNACK", x.seq = m.sess * SrvGap, x.ack = m.seq + 1,
                 x.n = 0
          PROVE  ServerSegment(x)'
      BY <1>3, <1>5, <2>1, <2>2, <2>6 DEF ServerSegment
    <2>7. \A x \in s2c' : ServerSegment(x)'
      BY <1>4, <2>5, <2>6
    <2> QED
      BY <1>3, <2>1, <2>2, <2>3, <2>7 DEF OneServer
  <1>7. OneSyn'
    BY <1>2 DEF IHandshake, OneSyn
  <1>8. Begun'
    BY <1>2, <1>3 DEF IHandshake, Begun, NotYet
  <1>9. m.sess <= sess
    BY DEF IHandshake, OneSyn
  <1>10. ThisSession'
    <2>1. tcp # "ESTABLISHED"
      BY <1>3, <1>5, <1>9 DEF IHandshake, ThisSession, FreshHandshake
    <2> QED
      BY <1>2, <2>1 DEF ThisSession, FreshHandshake, LinesInOrder
  <1> QED
    BY <1>1, <1>6, <1>7, <1>8, <1>10 DEF IHandshake

(* What the server end does later: it takes what is next, and numbers its  *)
(* segments one after another.                                             *)
LEMMA ServerGoesOn ==
  ASSUME IHandshake, SrvLine \/ SrvClose \/ SrvReset \/ \E m \in c2s : SrvRecv(m)
  PROVE  /\ UNCHANGED <<sess, done, tstate, tcp, iss, snd_nxt, rcv_nxt, len, out, delivered, c2s>>
         /\ srv'.sess = srv.sess /\ srv'.cliIss = srv.cliIss
         /\ srv'.sent \in Nat /\ srv'.sent >= srv.sent /\ srv'.sent <= MaxUnits
         /\ \/ srv'.rcv = srv.rcv
            \/ \E m \in c2s : /\ m.kind = "ACK" /\ m.sess = srv.sess /\ m.seq = SrvNext
                              /\ srv'.rcv = srv.rcv \o m.data
         /\ \A x \in s2c' : \/ x \in s2c
                            \/ /\ x.kind # "SYNACK" /\ x.sess = srv.sess /\ x.n \in 0..1
                               /\ x.seq = srv.sess * SrvGap + 1 + srv.sent
                               /\ srv.sent + x.n <= srv'.sent
                               /\ x.ack = SrvNext'
  <1>1. UNCHANGED <<sess, done, tstate, tcp, iss, snd_nxt, rcv_nxt, len, out, delivered, c2s>>
    BY DEF SrvLine, SrvClose, SrvReset, SrvRecv, SrvUnchanged, loop, conn
  <1>2. /\ srv \in ServerState /\ srv.sent \in Nat /\ srv.sent <= MaxUnits /\ MaxUnits \in Nat
    BY ConnAssumption DEF IHandshake, ITypeOK, TypeOK, ServerState, OneServer
  <1>3. CASE SrvLine
    <2>1. PICK w \in Windows : s2c' = s2c \cup {SSeg("ACK", 1, w)}
      BY <1>3 DEF SrvLine
    <2>2. srv' = [srv EXCEPT !.sent = @ + 1] /\ srv.sent < MaxUnits
      BY <1>3 DEF SrvLine
    <2>3. srv'.sess = srv.sess /\ srv'.cliIss = srv.cliIss /\ srv'.rcv = srv.rcv /\ srv'.sent = srv.sent + 1
      BY <1>2, <2>2 DEF ServerState
    <2> QED
      BY <1>1, <1>2, <2>1, <2>2, <2>3 DEF SSeg, SrvNext, SrvIss
  <1>4. CASE SrvClose
    <2>1. PICK n \in 0..1, w \in Windows :
            /\ srv.sent + n <= MaxUnits
            /\ s2c' = s2c \cup {SSeg("FIN", n, w)}
            /\ srv' = [srv EXCEPT !.state = "FINISHED", !.sent = @ + n]
      BY <1>4 DEF SrvClose
    <2>2. srv'.sess = srv.sess /\ srv'.cliIss = srv.cliIss /\ srv'.rcv = srv.rcv /\ srv'.sent = srv.sent + n
      BY <1>2, <2>1 DEF ServerState
    <2> QED
      BY <1>1, <1>2, <2>1, <2>2 DEF SSeg, SrvNext, SrvIss
  <1>5. CASE SrvReset
    <2>1. s2c' = s2c \cup {SSeg("RST", 0, 0)} /\ srv' = [srv EXCEPT !.state = "CLOSED"]
      BY <1>5 DEF SrvReset
    <2>2. srv'.sess = srv.sess /\ srv'.cliIss = srv.cliIss /\ srv'.rcv = srv.rcv /\ srv'.sent = srv.sent
      BY <1>2, <2>1 DEF ServerState
    <2> QED
      BY <1>1, <1>2, <2>1, <2>2 DEF SSeg, SrvNext, SrvIss
  <1>6. ASSUME NEW m \in c2s, SrvRecv(m)
        PROVE  /\ srv'.sess = srv.sess /\ srv'.cliIss = srv.cliIss /\ srv'.sent = srv.sent
               /\ srv'.rcv = IF m.seq = SrvNext THEN srv.rcv \o m.data ELSE srv.rcv
               /\ m.kind = "ACK" /\ m.sess = srv.sess
               /\ \A x \in s2c' : \/ x \in s2c
                                  \/ /\ x.kind # "SYNACK" /\ x.sess = srv.sess /\ x.n = 0
                                     /\ x.seq = srv.sess * SrvGap + 1 + srv.sent
                                     /\ x.ack = SrvNext'
    <2>1. /\ srv'.sess = srv.sess /\ srv'.cliIss = srv.cliIss /\ srv'.sent = srv.sent
          /\ srv'.rcv = IF m.seq = SrvNext THEN srv.rcv \o m.data ELSE srv.rcv
      BY <1>2, <1>6 DEF SrvRecv, ServerState
    <2>2. m.data = <<>> => s2c' = s2c
      BY <1>6 DEF SrvRecv
    <2>3. m.data # <<>> => \E w \in Windows : s2c' = s2c \cup {[SSeg("ACK", 0, w) EXCEPT !.ack = SrvNext']}
      BY <1>6 DEF SrvRecv
    <2>4. \A w \in Windows :
            LET x == [SSeg("ACK", 0, w) EXCEPT !.ack = SrvNext']
            IN  /\ x.kind # "SYNACK" /\ x.sess = srv.sess /\ x.n = 0
                /\ x.seq = srv.sess * SrvGap + 1 + srv.sent /\ x.ack = SrvNext'
      BY DEF SSeg, SrvIss
    <2>5. m.kind = "ACK" /\ m.sess = srv.sess
      BY <1>6 DEF SrvRecv
    <2>6. \A x \in s2c' : \/ x \in s2c
                          \/ /\ x.kind # "SYNACK" /\ x.sess = srv.sess /\ x.n = 0
                             /\ x.seq = srv.sess * SrvGap + 1 + srv.sent
                             /\ x.ack = SrvNext'
      <3>1. CASE m.data = <<>>
        BY <3>1, <2>2
      <3>2. CASE m.data # <<>>
        <4>1. PICK w \in Windows : s2c' = s2c \cup {[SSeg("ACK", 0, w) EXCEPT !.ack = SrvNext']}
          BY <3>2, <2>3
        <4> DEFINE y == [SSeg("ACK", 0, w) EXCEPT !.ack = SrvNext']
        <4>2. /\ y.kind # "SYNACK" /\ y.sess = srv.sess /\ y.n = 0
              /\ y.seq = srv.sess * SrvGap + 1 + srv.sent /\ y.ack = SrvNext'
          BY <2>4
        <4>3. s2c' = s2c \cup {y}
          BY <4>1
        <4> HIDE DEF y
        <4> QED
          BY <4>2, <4>3
      <3> QED
        BY <3>1, <3>2
    <2> QED
      BY <2>1, <2>5, <2>6
  <1>7. CASE \E m \in c2s : SrvRecv(m)
    <2>1. PICK m \in c2s : SrvRecv(m)
      BY <1>7
    <2>2. /\ srv'.sess = srv.sess /\ srv'.cliIss = srv.cliIss /\ srv'.sent = srv.sent
          /\ \A x \in s2c' : \/ x \in s2c
                             \/ /\ x.kind # "SYNACK" /\ x.sess = srv.sess /\ x.n = 0
                                /\ x.seq = srv.sess * SrvGap + 1 + srv.sent
                                /\ x.ack = SrvNext'
      BY <1>6, <2>1
    <2>3. \/ srv'.rcv = srv.rcv
          \/ \E y \in c2s : /\ y.kind = "ACK" /\ y.sess = srv.sess /\ y.seq = SrvNext
                            /\ srv'.rcv = srv.rcv \o y.data
      BY <1>6, <2>1
    <2>4. srv'.sent \in Nat /\ srv'.sent >= srv.sent /\ srv'.sent <= MaxUnits
      BY <1>2, <2>2
    <2>5. \A x \in s2c' : \/ x \in s2c
                          \/ /\ x.kind # "SYNACK" /\ x.sess = srv.sess /\ x.n \in 0..1
                             /\ x.seq = srv.sess * SrvGap + 1 + srv.sent
                             /\ srv.sent + x.n <= srv'.sent
                             /\ x.ack = SrvNext'
      BY <1>2, <2>2
    <2> QED
      BY <1>1, <2>2, <2>3, <2>4, <2>5
  <1> QED
    BY <1>3, <1>4, <1>5, <1>7

LEMMA HandshakeServer ==
  ASSUME IHandshake, SrvLine \/ SrvClose \/ SrvReset \/ \E m \in c2s : SrvRecv(m)
  PROVE  IHandshake'
  <1>1. ITypeOK' /\ TypeOK /\ TypeOK'
    BY TypeSrvSends DEF IHandshake, ITypeOK
  <1>2. /\ UNCHANGED <<sess, done, tstate, tcp, iss, snd_nxt, rcv_nxt, len, out, delivered, c2s>>
        /\ srv'.sess = srv.sess /\ srv'.cliIss = srv.cliIss
        /\ srv'.sent \in Nat /\ srv'.sent >= srv.sent /\ srv'.sent <= MaxUnits
        /\ \/ srv'.rcv = srv.rcv
           \/ \E m \in c2s : /\ m.kind = "ACK" /\ m.sess = srv.sess /\ m.seq = SrvNext
                             /\ srv'.rcv = srv.rcv \o m.data
        /\ \A x \in s2c' : \/ x \in s2c
                           \/ /\ x.kind # "SYNACK" /\ x.sess = srv.sess /\ x.n \in 0..1
                              /\ x.seq = srv.sess * SrvGap + 1 + srv.sent
                              /\ srv.sent + x.n <= srv'.sent
                              /\ x.ack = SrvNext'
    BY ServerGoesOn
  <1>3. /\ srv.sess \in Nat /\ srv.cliIss \in Nat /\ srv.sent \in Nat /\ srv.rcv \in Seq(Byte)
        /\ srv'.rcv \in Seq(Byte) /\ SrvNext \in Nat /\ SrvNext' \in Nat
        /\ srv.sess * SrvGap \in Nat /\ MaxUnits \in Nat
    <2>1. srv.sess \in Nat /\ srv.cliIss \in Nat /\ srv.sent \in Nat /\ srv.rcv \in Seq(Byte)
      BY <1>1, NetTypes
    <2>2. srv'.cliIss \in Nat /\ srv'.rcv \in Seq(Byte)
      BY <1>1 DEF TypeOK, ServerState
    <2>3. Len(srv.rcv) \in Nat /\ Len(srv'.rcv) \in Nat
      BY <2>1, <2>2
    <2>4. SrvNext \in Nat
      BY <2>1, <2>3 DEF SrvNext
    <2>5. SrvNext' \in Nat
      BY <2>2, <2>3 DEF SrvNext
    <2>6. SrvGap \in Nat /\ MaxUnits \in Nat
      BY ConnAssumption
    <2> QED
      BY <2>1, <2>2, <2>4, <2>5, <2>6
  <1>4. SrvNext <= SrvNext'
    <2>1. Len(srv.rcv) <= Len(srv'.rcv)
      <3>1. CASE srv'.rcv = srv.rcv
        BY <1>3, <3>1
      <3>2. ASSUME NEW m \in c2s, srv'.rcv = srv.rcv \o m.data
            PROVE  Len(srv.rcv) <= Len(srv'.rcv)
        <4>1. m.data \in Seq(Byte) /\ srv.rcv \in Seq(Byte)
          BY <1>1, <1>3, NetTypes
        <4>2. \A s, t \in Seq(Byte) : Len(s) <= Len(s \o t)
          OBVIOUS
        <4>3. Len(srv.rcv) <= Len(srv.rcv \o m.data)
          BY <4>1, <4>2
        <4> DEFINE later == srv'.rcv
        <4>4. later = srv.rcv \o m.data
          BY <3>2
        <4> HIDE DEF later
        <4>5. Len(srv.rcv) <= Len(later)
          BY <4>3, <4>4
        <4> QED
          BY <4>5 DEF later
      <3> QED
        BY <1>2, <3>1, <3>2
    <2>2. srv'.cliIss = srv.cliIss
      BY <1>2
    <2> QED
      BY <1>3, <2>1, <2>2 DEF SrvNext
  <1>5. OneServer'
    <2>1. \A k, q : Syn(k, q)' <=> Syn(k, q)
      BY <1>2 DEF Syn
    <2>2. srv'.sess = srv.sess /\ srv'.cliIss = srv.cliIss /\ srv'.sent \in Nat /\ srv'.sent >= srv.sent
          /\ srv'.sent <= MaxUnits
      BY <1>2
    <2>3. ASSUME NEW x \in s2c PROVE ServerSegment(x)'
      <3>1. ServerSegment(x)
        BY DEF IHandshake, OneServer
      <3>2. x.seq \in Nat /\ x.ack \in Nat /\ x.n \in Nat
        BY <1>1, NetTypes
      <3> QED
        <4> DEFINE base == x.sess * SrvGap
        <4>1. base \in Nat
          BY <1>1, NetTypes, ConnAssumption
        <4>2. /\ srv'.sess = srv.sess /\ srv'.cliIss = srv.cliIss /\ srv'.sent \in Nat /\ srv'.sent >= srv.sent
              /\ srv.sent \in Nat /\ SrvNext \in Nat /\ SrvNext' \in Nat /\ MaxUnits \in Nat
          BY <1>3, <2>2
        <4>3. /\ x.sess <= srv.sess
              /\ x.kind = "SYNACK" =>
                   /\ x.seq = base /\ x.n = 0
                   /\ x.ack > 0 /\ Syn(x.sess, x.ack - 1)
                   /\ x.sess = srv.sess => x.ack = srv.cliIss + 1
              /\ x.kind # "SYNACK" =>
                   /\ base < x.seq /\ x.seq + x.n <= base + 1 + MaxUnits
                   /\ x.sess = srv.sess => /\ x.seq + x.n <= base + 1 + srv.sent
                                           /\ x.ack <= SrvNext
          BY <3>1 DEF ServerSegment
        <4> SUFFICES /\ x.sess <= srv'.sess
                     /\ x.kind = "SYNACK" =>
                          /\ x.seq = base /\ x.n = 0
                          /\ x.ack > 0 /\ Syn(x.sess, x.ack - 1)'
                          /\ x.sess = srv'.sess => x.ack = srv'.cliIss + 1
                     /\ x.kind # "SYNACK" =>
                          /\ base < x.seq /\ x.seq + x.n <= base + 1 + MaxUnits
                          /\ x.sess = srv'.sess => /\ x.seq + x.n <= base + 1 + srv'.sent
                                                   /\ x.ack <= SrvNext'
          BY DEF ServerSegment
        <4> HIDE DEF base
        <4> QED
          BY <1>4, <2>1, <3>2, <4>1, <4>2, <4>3
    <2>4. ASSUME NEW x, x.kind # "SYNACK", x.sess = srv.sess, x.n \in 0..1,
                 x.seq = srv.sess * SrvGap + 1 + srv.sent, srv.sent + x.n <= srv'.sent,
                 x.ack = SrvNext'
          PROVE  ServerSegment(x)'
      <3> DEFINE base == x.sess * SrvGap
      <3>1. base \in Nat /\ x.seq = base + 1 + srv.sent
        BY <1>3, <2>4
      <3>2. /\ srv.sent \in Nat /\ srv'.sent \in Nat /\ srv'.sent <= MaxUnits /\ MaxUnits \in Nat
            /\ srv.sent + x.n <= srv'.sent /\ x.n \in 0..1
        BY <1>3, <2>2, <2>4
      <3>3. SrvNext' <= SrvNext' /\ x.sess <= srv'.sess
        BY <1>3, <2>2, <2>4
      <3> SUFFICES /\ base < x.seq /\ x.seq + x.n <= base + 1 + MaxUnits
                   /\ x.seq + x.n <= base + 1 + srv'.sent
        BY <2>4, <3>3 DEF ServerSegment
      <3> HIDE DEF base
      <3> QED
        BY <3>1, <3>2
    <2>5. \A x \in s2c' : ServerSegment(x)'
      BY <1>2, <2>3, <2>4
    <2> QED
      BY <1>2, <2>1, <2>5 DEF IHandshake, OneServer
  <1>6. OneSyn'
    BY <1>2 DEF IHandshake, OneSyn
  <1>7. Begun'
    <2>1. ASSUME NotYet, srv.sess = sess PROVE srv'.rcv = <<>>
      <3>1. srv.rcv = <<>> /\ \A m \in c2s : m.sess = sess => m.data = <<>>
        BY <2>1 DEF IHandshake, Begun
      <3>2. <<>> \o <<>> = <<>>
        OBVIOUS
      <3> QED
        BY <1>2, <2>1, <3>1, <3>2
    <2> QED
      BY <1>2, <2>1 DEF IHandshake, Begun, NotYet
  <1>8. ThisSession'
    <2>1. Len(delivered) \in Nat
      BY <1>1 DEF TypeOK
    <2> QED
      BY <1>2, <1>3, <2>1 DEF IHandshake, ThisSession, FreshHandshake, LinesInOrder
  <1> QED
    BY <1>1, <1>5, <1>6, <1>7, <1>8 DEF IHandshake

LEMMA HandshakeNext == IHandshake /\ [Next]_vars => IHandshake'
  <1> SUFFICES ASSUME IHandshake, [Next]_vars PROVE IHandshake'
    OBVIOUS
  <1>1. CASE Client
    <2>1. CASE StartSession \/ Connect \/ UserSend \/ HostNotFound \/ LeaveLoop
      BY <2>1, HandshakeStart, HandshakeConnect, HandshakeUserSend, HandshakeQuiet
    <2>2. CASE Timer
      BY <2>2, HandshakeQuiet, HandshakeTimerSyn, HandshakeResend DEF Timer
    <2>3. ASSUME NEW m \in s2c, Receive(m) PROVE IHandshake'
      BY <2>3, HandshakeQuiet, HandshakeSynAck, HandshakeData DEF Receive
    <2> QED
      BY <1>1, <2>1, <2>2, <2>3 DEF Client
  <1>2. CASE Server
    BY <1>2, HandshakeSrvSyn, HandshakeServer DEF Server
  <1>3. CASE UNCHANGED vars
    <2>1. ITypeOK'
      BY <1>3, TypeStutter DEF IHandshake
    <2> QED
      BY <1>3, <2>1 DEF IHandshake, OneSyn, OneServer, Begun, ThisSession, FreshHandshake, LinesInOrder,
         NotYet, Syn, ServerSegment, SrvNext, vars, loop, conn, net
  <1> QED
    BY <1>1, <1>2, <1>3 DEF Next

(* Whatever segments of earlier sessions still come, lost, late or twice:  *)
(* an established connection is that to the server end that answered this  *)
(* session's SYN, and the lines handed to telnet_newdata are its lines, in *)
(* their order, none skipped and none twice.                               *)
THEOREM ThisSessionHolds == Spec => []ThisSession
  <1>1. IHandshake => ThisSession
    BY DEF IHandshake
  <1> QED
    BY <1>1, HandshakeInit, HandshakeNext, PTL DEF Spec

-------------------------------------------------------------------------------
(***************************************************************************)
(* The stream.                                                             *)
(***************************************************************************)

(* The server's end of session 0 does not exist.                           *)
Answering == srv.state # "CLOSED" => srv.sess # 0

(* What the stream holds after its first u bytes is pending in the buffer. *)
Holds(o, u) ==
  IF o.text = Null THEN u = Len(o.stream)
  ELSE /\ u + o.textlen = Len(o.stream)
       /\ \A i \in 1..o.textlen : o.buf[o.text + i - 1] = o.stream[u + i]

InBuffer == Clean /\ tcp = "ESTABLISHED" => Holds(out, Una)

(* What is on the way of this session is in the stream, where it says.     *)
PartOf(m, s) ==
  /\ m.seq > iss /\ (m.seq - iss - 1) + Len(m.data) <= Len(s)
  /\ \A i \in 1..Len(m.data) : m.data[i] = s[(m.seq - iss - 1) + i]

OnWire == Clean => \A m \in c2s : m.sess = sess /\ m.data # <<>> => PartOf(m, out.stream)

StreamOK == InBuffer /\ OnWire /\ StopAndWait /\ StreamIntact

IStream == IHandshake /\ Answering /\ StreamOK

LEMMA Prefixes ==
  ASSUME NEW r \in Seq(Byte), NEW s \in Seq(Byte), NEW t \in Seq(Byte),
         PrefixOf(r, s), PrefixOf(s, t)
  PROVE  PrefixOf(r, t)
  BY DEF PrefixOf

LEMMA PartOfMore ==
  ASSUME NEW m, m.seq \in Nat, m.data \in Seq(Byte), iss \in Nat,
         NEW s \in Seq(Byte), NEW t \in Seq(Byte), PartOf(m, s), PrefixOf(s, t)
  PROVE  PartOf(m, t)
  <1> DEFINE o == m.seq - iss - 1
             d == m.data
  <1>1. o \in Nat /\ o + Len(d) <= Len(s) /\ \A i \in 1..Len(d) : d[i] = s[o + i]
    BY DEF PartOf
  <1>2. d \in Seq(Byte) /\ Len(s) <= Len(t) /\ \A i \in 1..Len(s) : s[i] = t[i]
    BY DEF PrefixOf
  <1>3. m.seq > iss
    BY DEF PartOf
  <1> SUFFICES o + Len(d) <= Len(t) /\ \A i \in 1..Len(d) : d[i] = t[o + i]
    BY <1>3 DEF PartOf
  <1> HIDE DEF o, d
  <1>4. Len(d) \in Nat /\ Len(s) \in Nat /\ Len(t) \in Nat
    BY <1>2
  <1>5. \A i \in 1..Len(d) : o + i \in 1..Len(s)
    BY <1>1, <1>4
  <1>6. \A i \in 1..Len(d) : d[i] = t[o + i]
    <2> TAKE i \in 1..Len(d)
    <2>1. s[o + i] = t[o + i]
      BY <1>2, <1>5
    <2> QED
      BY <1>1, <2>1
  <1>7. o + Len(d) <= Len(t)
    BY <1>1, <1>2, <1>4
  <1> QED
    BY <1>6, <1>7

(* What is pending depends on these fields only.                           *)
LEMMA HoldsStill ==
  ASSUME NEW o, NEW t, NEW u, Holds(o, u),
         t.text = o.text, t.textlen = o.textlen, t.buf = o.buf, t.stream = o.stream
  PROVE  Holds(t, u)
  BY DEF Holds

LEMMA OutTypes ==
  ASSUME NEW o, OutOK(o)
  PROVE  /\ o \in OutState /\ BufSize \in Nat /\ o.stream \in Seq(Byte)
         /\ o.buf \in [0..(BufSize - 1) -> Byte]
         /\ o.textlen \in 0..BufSize /\ o.sentlen \in 0..BufSize /\ o.msgs \in Nat
         /\ o.text # Null => /\ o.text \in Nat /\ o.textlen > 0
                             /\ o.text + o.textlen <= BufSize /\ o.sentlen <= o.textlen
  <1>1. o \in OutState /\ BufSize \in Nat
    BY ConnAssumption DEF OutOK
  <1>2. /\ o.stream \in Seq(Byte) /\ o.buf \in [0..(BufSize - 1) -> Byte]
        /\ o.textlen \in 0..BufSize /\ o.sentlen \in 0..BufSize /\ o.msgs \in Nat
        /\ o.text \in {Null} \cup 0..BufSize
    BY <1>1 DEF OutState
  <1>3. o.text # Null => /\ o.textlen > 0 /\ o.text + o.textlen <= BufSize
                         /\ o.sentlen <= o.textlen
    BY DEF OutOK
  <1>4. o.text # Null => o.text \in Nat
    BY <1>1, <1>2
  <1> QED
    BY <1>1, <1>2, <1>3, <1>4

(* telnet_send of an established connection: the message is behind what    *)
(* the stream has, and the buffer keeps what is pending.                   *)
LEMMA SendHolds ==
  ASSUME NEW o, OutOK(o), tstate, tcp = "ESTABLISHED", NEW n \in MsgLengths,
         NEW u \in Nat, Holds(o, u), NEW t, t = telnet_send(o, n), t.harm = {}
  PROVE  /\ Holds(t, u) /\ PrefixOf(o.stream, t.stream) /\ o.harm = {} /\ t.text # Null
         /\ o.text # Null => t.text = o.text /\ t.sentlen = o.sentlen /\ t.stream = o.stream
         /\ o.text = Null => t.stream # o.stream
  <1>1. /\ o \in OutState /\ BufSize \in Nat /\ o.stream \in Seq(Byte) /\ o.msgs \in Nat
        /\ o.buf \in [0..(BufSize - 1) -> Byte]
        /\ o.text # Null => /\ o.text \in Nat /\ o.textlen \in Nat /\ o.textlen > 0
                            /\ o.text + o.textlen <= BufSize
    BY OutTypes
  <1>2. n \in 1..BufSize
    BY ConnAssumption
  <1>3. /\ t.buf = WriteBuf(o.buf, o.msgs + 1, n)
        /\ t.text = (IF tstate /\ o.text = Null THEN 0 ELSE o.text)
        /\ t.textlen = (IF tstate /\ o.text = Null THEN n ELSE o.textlen)
        /\ t.sentlen = (IF tstate /\ o.text = Null THEN 0 ELSE o.sentlen)
        /\ t.stream = (IF (tstate /\ o.text = Null) /\ tcp = "ESTABLISHED"
                       THEN o.stream \o Message(o.msgs + 1, n) ELSE o.stream)
        /\ t.harm = o.harm \cup Harm("rewritten", o.text # Null /\ n > o.text)
    BY <1>1, SendFields
  <1>4. o.harm = {} /\ ~(o.text # Null /\ n > o.text)
    BY <1>3 DEF Harm
  <1>5. t.text # Null
    BY <1>3 DEF Null
  <1>6. \A i \in 0..(BufSize - 1) : t.buf[i] = IF i < n THEN <<o.msgs + 1, i + 1>> ELSE o.buf[i]
    BY <1>3 DEF WriteBuf
  <1>7. CASE o.text = Null
    <2> DEFINE M == Message(o.msgs + 1, n)
               before == o.stream
               after == t.stream
               text == t.buf
    <2>1. M \in Seq(Byte) /\ Len(M) = n /\ \A i \in 1..n : M[i] = <<o.msgs + 1, i>>
      <3>1. o.msgs + 1 \in Nat /\ n \in Nat
        BY <1>1, <1>2
      <3> QED
        BY <3>1, MessageType
    <2>2. after = before \o M /\ t.text = 0 /\ t.textlen = n /\ before \in Seq(Byte)
      BY <1>1, <1>3, <1>7
    <2>4. u = Len(before)
      BY <1>7 DEF Holds
    <2>5. \A i \in 1..n : text[i - 1] = <<o.msgs + 1, i>>
      <3>1. \A i \in 1..n : i - 1 \in 0..(BufSize - 1) /\ i - 1 < n /\ (i - 1) + 1 = i
        BY <1>1, <1>2
      <3> QED
        BY <1>6, <3>1
    <2> HIDE DEF M, before, after, text
    <2>3. /\ Len(after) = Len(before) + n /\ Len(before) \in Nat
          /\ \A i \in 1..Len(before) : after[i] = before[i]
          /\ \A i \in 1..n : after[Len(before) + i] = M[i]
      <3>1. /\ Len(before \o M) = Len(before) + Len(M) /\ Len(before) \in Nat
            /\ \A i \in 1..Len(before) : (before \o M)[i] = before[i]
            /\ \A i \in 1..Len(M) : (before \o M)[Len(before) + i] = M[i]
        BY <2>1, <2>2, Joined
      <3> QED
        BY <2>1, <2>2, <3>1
    <2>8. u + n = Len(after) /\ \A i \in 1..n : text[0 + i - 1] = after[u + i]
      <3>1. u + n = Len(after)
        BY <2>3, <2>4
      <3>2. ASSUME NEW i \in 1..n PROVE text[0 + i - 1] = after[u + i]
        <4>1. 0 + i - 1 = i - 1
          BY <1>1, <1>2
        <4>2. after[u + i] = M[i]
          BY <2>3, <2>4
        <4> QED
          BY <2>1, <2>5, <4>1, <4>2
      <3> QED
        BY <3>1, <3>2
    <2>6. Holds(t, u)
      BY <1>5, <2>2, <2>8 DEF Holds, after, text
    <2>7. PrefixOf(o.stream, t.stream)
      BY <1>2, <2>3 DEF PrefixOf, before, after
    <2>9. t.stream # o.stream
      BY <1>2, <2>3 DEF before, after
    <2> QED
      BY <1>4, <1>5, <1>7, <2>6, <2>7, <2>9
  <1>8. CASE o.text # Null
    <2>1. t.text = o.text /\ t.textlen = o.textlen /\ t.sentlen = o.sentlen /\ t.stream = o.stream
      BY <1>3, <1>8
    <2>2. n <= o.text
      BY <1>1, <1>2, <1>4, <1>8
    <2>3. \A i \in 1..o.textlen : o.text + i - 1 \in 0..(BufSize - 1) /\ ~(o.text + i - 1 < n)
      BY <1>1, <1>2, <1>8, <2>2
    <2>4. \A i \in 1..o.textlen : t.buf[o.text + i - 1] = o.buf[o.text + i - 1]
      BY <1>6, <2>3
    <2>5. Holds(t, u)
      BY <1>8, <2>1, <2>4 DEF Holds
    <2>6. PrefixOf(o.stream, t.stream)
      BY <1>1, <2>1 DEF PrefixOf
    <2> QED
      BY <1>4, <1>5, <1>8, <2>1, <2>5, <2>6
  <1> QED
    BY <1>7, <1>8

(* acked() moves on by what was sent.                                      *)
LEMMA AckHolds ==
  ASSUME NEW o, OutOK(o), o.text # Null, NEW u \in Nat, Holds(o, u)
  PROVE  Holds(acked(o), u + o.sentlen)
  <1> DEFINE t == acked(o)
             left == o.textlen - o.sentlen
  <1>1. /\ o \in OutState /\ o.text \in Nat /\ o.textlen \in Nat /\ o.sentlen \in Nat
        /\ o.sentlen <= o.textlen /\ o.stream \in Seq(Byte)
    BY OutTypes
  <1>2. /\ t.buf = o.buf /\ t.stream = o.stream /\ t.textlen = left
        /\ t.text = (IF left = 0 THEN Null ELSE o.text + o.sentlen)
    BY <1>1, AckedFields
  <1>3. /\ u + o.textlen = Len(o.stream)
        /\ \A i \in 1..o.textlen : o.buf[o.text + i - 1] = o.stream[u + i]
    BY DEF Holds
  <1>4. CASE left = 0
    BY <1>1, <1>2, <1>3, <1>4 DEF Holds
  <1>5. CASE left # 0
    <2>1. t.text = o.text + o.sentlen /\ t.text # Null
      BY <1>1, <1>2, <1>5 DEF Null
    <2>2. (u + o.sentlen) + left = Len(o.stream) /\ left \in Nat
      BY <1>1, <1>3
    <2>3. ASSUME NEW i \in 1..left
          PROVE  o.buf[(o.text + o.sentlen) + i - 1] = o.stream[(u + o.sentlen) + i]
      <3>1. o.sentlen + i \in 1..o.textlen
        BY <1>1, <2>3
      <3>2. o.buf[o.text + (o.sentlen + i) - 1] = o.stream[u + (o.sentlen + i)]
        BY <1>3, <3>1
      <3>3. /\ o.text + (o.sentlen + i) - 1 = (o.text + o.sentlen) + i - 1
            /\ u + (o.sentlen + i) = (u + o.sentlen) + i
        BY <1>1, <2>2
      <3> QED
        BY <3>2, <3>3
    <2> HIDE DEF left, t
    <2> QED
      BY <1>2, <2>1, <2>2, <2>3 DEF Holds, t
  <1> QED
    BY <1>4, <1>5

(* senddata and what follows it: the segment carries what comes next of    *)
(* the stream, and sentlen is the length uIP waits for.                    *)
LEMMA SendsKeep ==
  ASSUME NEW p, OutOK(p), NEW w \in Nat \ {0}, NEW l \in 0..BufSize, l > 0 => p.text # Null,
         NEW o, o = senddata(p, w), NEW t, t = Transmitted(o, l), t.harm = {},
         iss \in Nat, NEW seq \in Nat, seq > iss, Holds(p, seq - iss - 1)
  PROVE  /\ p.harm = {} /\ t.stream = p.stream /\ Holds(t, seq - iss - 1)
         /\ SentLen(o, l) > 0 => t.sentlen = SentLen(o, l)
         /\ \A m : m.seq = seq /\ slen(o) > 0 /\ m.data = Payload(o, SentLen(o, l))
                     => PartOf(m, p.stream)
  <1>1. /\ p \in OutState /\ p.textlen \in Nat /\ p.stream \in Seq(Byte)
        /\ p.text # Null => p.text \in Nat /\ p.textlen > 0
    BY OutTypes
  <1>2. /\ o.buf = p.buf /\ o.text = p.text /\ o.textlen = p.textlen /\ o.stream = p.stream
        /\ o.harm = p.harm
        /\ o.sentlen = (IF p.text = Null THEN p.sentlen ELSE MinOf(w, p.textlen))
    BY <1>1, SenddataFields
  <1>3. OutOK(o) /\ o \in OutState
    BY SenddataOK DEF OutOK
  <1>4. /\ t.buf = o.buf /\ t.text = o.text /\ t.textlen = o.textlen /\ t.stream = o.stream
        /\ t.sentlen = o.sentlen
        /\ t.harm = o.harm \cup Harm("mss", slen(o) \notin {0, SentLen(o, l)})
    BY <1>3, TransmittedFields
  <1>5. p.harm = {} /\ slen(o) \in {0, SentLen(o, l)}
    BY <1>2, <1>4 DEF Harm
  <1>6. Holds(t, seq - iss - 1)
    BY <1>2, <1>4, HoldsStill
  <1>7. CASE p.text = Null
    <2>1. slen(o) = 0 /\ SentLen(o, l) = 0
      BY <1>2, <1>7 DEF slen, SentLen
    <2> QED
      BY <1>2, <1>4, <1>5, <1>6, <2>1
  <1>8. CASE p.text # Null
    <2>1. o.sentlen = MinOf(w, p.textlen) /\ slen(o) = o.sentlen
      BY <1>2, <1>8 DEF slen
    <2>2. o.sentlen \in Nat /\ o.sentlen > 0 /\ o.sentlen <= p.textlen
      BY <1>1, <1>8, <2>1 DEF MinOf
    <2>3. SentLen(o, l) = o.sentlen
      BY <1>5, <2>1, <2>2
    <2>4. ASSUME NEW m, m.seq = seq, m.data = Payload(o, SentLen(o, l))
          PROVE  PartOf(m, p.stream)
      <3> DEFINE d == m.data
                 u == seq - iss - 1
      <3>1. d = Payload(o, o.sentlen) /\ Len(d) = o.sentlen
        BY <1>2, <1>3, <1>8, <2>2, <2>3, <2>4, PayloadType
      <3>2. \A i \in 1..o.sentlen : d[i] = o.buf[o.text + i - 1]
        <4> TAKE i \in 1..o.sentlen
        <4>1. i <= o.sentlen
          BY <2>2
        <4> HIDE DEF d
        <4> QED
          BY <3>1, <4>1 DEF Payload
      <3>3. /\ u + p.textlen = Len(p.stream) /\ u \in Nat
            /\ \A i \in 1..p.textlen : p.buf[p.text + i - 1] = p.stream[u + i]
        BY <1>8 DEF Holds
      <3> SUFFICES u + Len(d) <= Len(p.stream) /\ \A i \in 1..Len(d) : d[i] = p.stream[u + i]
        BY <2>4 DEF PartOf
      <3> HIDE DEF d, u
      <3>4. u + Len(d) <= Len(p.stream)
        BY <1>1, <2>2, <3>1, <3>3
      <3>5. \A i \in 1..o.sentlen : i \in 1..p.textlen
        BY <1>1, <2>2
      <3> QED
        BY <1>2, <3>1, <3>2, <3>3, <3>4, <3>5
    <2> QED
      BY <1>2, <1>4, <1>5, <1>6, <2>3, <2>4
  <1> QED
    BY <1>7, <1>8

LEMMA StreamInit == Init => IStream
  <1> SUFFICES ASSUME Init PROVE IStream
    OBVIOUS
  <1>1. IHandshake
    BY HandshakeInit
  <1>2. Answering
    BY DEF Init, NoServer, Answering
  <1>3. InBuffer /\ OnWire /\ StopAndWait
    BY DEF Init, InBuffer, OnWire, StopAndWait, AckedIsReceived, SentlenIsLen
  <1>4. StreamIntact
    BY DEF Init, NoServer, StreamIntact, PrefixOf, Received
  <1> QED
    BY <1>1, <1>2, <1>3, <1>4 DEF IStream, StreamOK

(* Only a SYN that the server takes begins another end of it.              *)
LEMMA AnsweringNext ==
  ASSUME IHandshake, Answering, [Next]_vars
  PROVE  Answering'
  <1>1. srv \in ServerState /\ \A m \in c2s : m.sess \in Nat
    BY NetTypes DEF IHandshake, ITypeOK, TypeOK
  <1>2. CASE srv' = srv
    BY <1>2 DEF Answering
  <1>3. ASSUME NEW m \in c2s, SrvSyn(m) PROVE Answering'
    <2>1. m.sess > srv.sess /\ srv'.sess = m.sess /\ srv.sess \in Nat /\ m.sess \in Nat
      BY <1>1, <1>3 DEF SrvSyn, ServerState
    <2> QED
      BY <2>1 DEF Answering
  <1>4. ASSUME NEW m \in c2s, SrvRecv(m) PROVE Answering'
    BY <1>1, <1>4 DEF SrvRecv, Answering, ServerState
  <1>5. CASE SrvLine
    BY <1>1, <1>5 DEF SrvLine, Answering, ServerState
  <1>6. CASE SrvClose
    BY <1>1, <1>6 DEF SrvClose, Answering, ServerState
  <1>7. CASE SrvReset
    BY <1>1, <1>7 DEF SrvReset, Answering, ServerState
  <1>8. CASE UNCHANGED vars
    BY <1>2, <1>8 DEF vars
  <1>9. CASE Client
    <2>1. srv' = srv
      BY <1>9 DEF Client, Timer, Receive, StartSession, Connect, HostNotFound, UserSend, LeaveLoop,
         TimerGivesUp, TimerSyn, TimerRexmit, TimerPoll, RecvNoConn, RecvRst, RecvOutOfOrder,
         RecvSynAck, RecvAbort, RecvFin, RecvWindow, RecvData
    <2> QED
      BY <1>2, <2>1
  <1> QED
    BY <1>3, <1>4, <1>5, <1>6, <1>7, <1>8, <1>9 DEF Next, Server

LEMMA StreamTypes ==
  ASSUME IStream
  PROVE  /\ TypeOK /\ OutOK(out) /\ out.stream \in Seq(Byte) /\ Received \in Seq(Byte)
         /\ sess \in Nat /\ iss \in Nat /\ snd_nxt \in Nat /\ len \in 0..BufSize /\ mss \in Nat \ {0}
         /\ srv.sess \in Nat /\ srv.cliIss \in Nat /\ srv.rcv \in Seq(Byte)
         /\ \A m \in c2s : m.sess \in Nat /\ m.seq \in Nat /\ m.data \in Seq(Byte)
  <1>1. TypeOK
    BY DEF IStream, IHandshake, ITypeOK
  <1>2. OutOK(out) /\ len \in 0..BufSize
    BY <1>1 DEF TypeOK, ConnOK
  <1>3. mss \in Nat \ {0}
    BY <1>1, ConnAssumption DEF TypeOK, ConnOK
  <1>4. srv.rcv \in Seq(Byte) /\ <<>> \in Seq(Byte)
    BY <1>1, NetTypes
  <1>5. Received \in Seq(Byte)
    BY <1>4 DEF Received
  <1> QED
    BY <1>1, <1>2, <1>3, <1>4, <1>5, NetTypes

(* A step that writes nothing into the stream and sends nothing of it.     *)
LEMMA StreamSame ==
  ASSUME IStream, UNCHANGED <<sess, iss, srv>>, out'.stream = out.stream, Clean' => Clean,
         \A m \in c2s' : m \in c2s \/ m.data = <<>>,
         tcp' = "ESTABLISHED" => tcp = "ESTABLISHED" /\ UNCHANGED <<snd_nxt, len, out>>
  PROVE  StreamOK'
  <1>1. Received' = Received
    BY DEF Received
  <1>2. InBuffer'
    BY DEF IStream, StreamOK, InBuffer, Una
  <1>3. OnWire'
    BY DEF IStream, StreamOK, OnWire, PartOf
  <1>4. StopAndWait'
    BY <1>1 DEF IStream, StreamOK, StopAndWait, AckedIsReceived, SentlenIsLen, Una, Clean
  <1>5. StreamIntact'
    BY <1>1 DEF IStream, StreamOK, StreamIntact
  <1> QED
    BY <1>2, <1>3, <1>4, <1>5 DEF StreamOK

(* A step of an established connection that may extend the stream, sends   *)
(* of it, or finds some of it acknowledged.                                *)
LEMMA StreamSent ==
  ASSUME IStream, ITypeOK', UNCHANGED <<sess, iss, srv>>,
         tcp = "ESTABLISHED", tcp' = "ESTABLISHED",
         Clean' => /\ Clean /\ PrefixOf(out.stream, out'.stream) /\ Holds(out', Una')
                   /\ Una' <= Len(Received)
                   /\ \A m \in c2s' : m \in c2s \/ m.data = <<>> \/ PartOf(m, out'.stream)
                   /\ len' > 0 => out'.sentlen = len'
  PROVE  StreamOK'
  <1>1. Received' = Received
    BY DEF Received
  <1>2. out'.stream \in Seq(Byte)
    BY DEF ITypeOK, TypeOK, OutOK, OutState
  <1>3. InBuffer'
    BY DEF InBuffer, Holds
  <1>4. OnWire'
    <2>1. SUFFICES ASSUME Clean', NEW m \in c2s', m.sess = sess, m.data # <<>>
                   PROVE  PartOf(m, out'.stream)
      BY DEF OnWire, PartOf
    <2>2. CASE m \in c2s
      <3>1. PartOf(m, out.stream)
        BY <2>1, <2>2 DEF IStream, StreamOK, OnWire
      <3> QED
        BY <1>2, <2>1, <2>2, <3>1, StreamTypes, PartOfMore
    <2> QED
      BY <2>1, <2>2
  <1>5. StopAndWait'
    BY <1>1 DEF StopAndWait, AckedIsReceived, SentlenIsLen, ITypeOK, InFlight
  <1>6. StreamIntact'
    <2>1. SUFFICES ASSUME Clean' PROVE PrefixOf(Received, out'.stream)
      BY <1>1 DEF StreamIntact, PrefixOf
    <2>2. PrefixOf(Received, out.stream)
      BY <2>1 DEF IStream, StreamOK, StreamIntact
    <2> QED
      BY <1>2, <2>1, <2>2, StreamTypes, Prefixes
  <1> QED
    BY <1>3, <1>4, <1>5, <1>6 DEF StreamOK

LEMMA StreamQuiet ==
  ASSUME IStream,
         \/ HostNotFound \/ LeaveLoop \/ TimerGivesUp \/ TimerSyn
         \/ \E m \in s2c : RecvNoConn(m) \/ RecvRst(m) \/ RecvOutOfOrder(m) \/ RecvAbort(m)
                             \/ RecvFin(m) \/ RecvWindow(m)
  PROVE  StreamOK'
  <1>1. /\ UNCHANGED <<sess, iss, srv, out>>
        /\ tcp' = "ESTABLISHED" => tcp = "ESTABLISHED" /\ UNCHANGED <<snd_nxt, len>>
    BY DEF HostNotFound, LeaveLoop, TimerGivesUp, TimerSyn, RecvNoConn, RecvRst, RecvOutOfOrder,
       RecvAbort, RecvFin, RecvWindow, loop, conn
  <1>2. \A m \in c2s' : m \in c2s \/ m.data = <<>>
    BY DEF HostNotFound, LeaveLoop, TimerGivesUp, TimerSyn, RecvNoConn, RecvRst, RecvOutOfOrder,
       RecvAbort, RecvFin, RecvWindow, net, CSeg
  <1> QED
    BY <1>1, <1>2, StreamSame DEF Clean

LEMMA StreamStart == IStream /\ StartSession => StreamOK'
  <1> SUFFICES ASSUME IStream, StartSession PROVE StreamOK'
    OBVIOUS
  <1>1. /\ sess' = sess + 1 /\ tcp' = "CLOSED" /\ UNCHANGED <<srv, c2s>>
    BY DEF StartSession, net
  <1>2. sess \in Nat /\ srv.sess \in Nat /\ \A m \in c2s : m.sess \in Nat
    BY StreamTypes
  <1>3. \A m \in c2s : m.sess <= sess
    BY DEF IStream, IHandshake, OneSyn
  <1>4. srv.sess <= sess
    BY <1>2, <1>3 DEF IStream, IHandshake, OneServer, Syn
  <1>5. OnWire'
    BY <1>1, <1>2, <1>3 DEF OnWire
  <1>6. StreamIntact'
    <2>1. Received' = <<>>
      BY <1>1, <1>2, <1>4 DEF Received
    <2>2. out'.stream = <<>>
      BY DEF StartSession, IStream, IHandshake, ITypeOK, TypeOK, OutOK, OutState
    <2> QED
      BY <2>1, <2>2 DEF StreamIntact, PrefixOf
  <1> QED
    BY <1>1, <1>5, <1>6 DEF StreamOK, InBuffer, StopAndWait, AckedIsReceived, SentlenIsLen

(* The initial sequence number changes while the stream is empty.          *)
LEMMA StreamConnect == IStream /\ Connect => StreamOK'
  <1> SUFFICES ASSUME IStream, Connect PROVE StreamOK'
    OBVIOUS
  <1>1. /\ tcp = "CLOSED" /\ ~done /\ tcp' = "SYN_SENT" /\ UNCHANGED <<sess, out, srv, c2s>>
    BY DEF Connect, Running, loop, net
  <1>2. \A m \in c2s : m.sess = sess => m.data = <<>>
    BY <1>1 DEF IStream, IHandshake, Begun, NotYet
  <1>3. OnWire'
    BY <1>1, <1>2 DEF OnWire
  <1>4. StreamIntact'
    BY <1>1 DEF IStream, StreamOK, StreamIntact, Clean, Received
  <1> QED
    BY <1>1, <1>3, <1>4 DEF StreamOK, InBuffer, StopAndWait, AckedIsReceived, SentlenIsLen

LEMMA StreamSynAck ==
  ASSUME IStream, NEW m \in s2c, RecvSynAck(m)
  PROVE  StreamOK'
  <1>1. snd_nxt = iss /\ len = 1 /\ srv.sess = sess
    BY OwnSynAck DEF IStream
  <1>2. /\ tcp = "SYN_SENT" /\ snd_nxt' = snd_nxt + len /\ len' = 0 /\ UNCHANGED <<sess, iss, srv>>
        /\ out' = [out EXCEPT !.text = Null, !.textlen = 0, !.harm = {}]
        /\ c2s' = c2s \cup {CSeg("ACK", snd_nxt', rcv_nxt', <<>>)}
    BY DEF RecvSynAck, HandshakeReply
  <1>3. /\ out.stream = <<>> /\ srv.rcv = <<>>
        /\ \A x \in c2s : x.sess = sess => x.data = <<>>
    BY <1>1, <1>2 DEF IStream, IHandshake, Begun, NotYet
  <1>4. out'.text = Null /\ out'.stream = <<>>
    BY <1>2, <1>3, StreamTypes, OutTypes DEF OutState
  <1>5. Una' = 0 /\ Received' = <<>>
    BY <1>1, <1>2, <1>3, StreamTypes DEF Una, Received
  <1>6. InBuffer'
    BY <1>4, <1>5 DEF InBuffer, Holds
  <1>7. OnWire'
    BY <1>2, <1>3 DEF OnWire, CSeg
  <1>8. StopAndWait' /\ StreamIntact'
    BY <1>2, <1>4, <1>5 DEF StopAndWait, AckedIsReceived, SentlenIsLen, StreamIntact, PrefixOf
  <1> QED
    BY <1>6, <1>7, <1>8 DEF StreamOK

LEMMA StreamUserSend == IStream /\ UserSend => StreamOK'
  <1> SUFFICES ASSUME IStream, UserSend PROVE StreamOK'
    OBVIOUS
  <1>1. UNCHANGED <<sess, tstate, tcp, iss, snd_nxt, len, srv, c2s>>
    BY DEF UserSend, loop, conn, net
  <1>2. PICK n \in MsgLengths : out' = telnet_send(out, n)
    BY DEF UserSend
  <1>3. OutOK(out) /\ out \in OutState
    BY StreamTypes DEF OutOK
  <1>4. CASE tcp # "ESTABLISHED"
    <2>1. out'.stream = out.stream /\ out.harm \subseteq out'.harm
      BY <1>2, <1>3, <1>4, SendFields
    <2> QED
      BY <1>1, <1>4, <2>1, StreamSame DEF Clean
  <1>5. CASE tcp = "ESTABLISHED"
    <2>1. ITypeOK'
      BY TypeUserSend DEF IStream, IHandshake
    <2>2. tstate /\ snd_nxt > iss
      BY <1>5 DEF IStream, IHandshake, Begun
    <2>3. Una \in Nat /\ Una' = Una
      BY <1>1, <2>2, StreamTypes DEF Una
    <2>4. ASSUME Clean'
          PROVE  /\ Clean /\ PrefixOf(out.stream, out'.stream) /\ Holds(out', Una)
                 /\ len > 0 => out'.sentlen = len
      <3>1. out.harm = {}
        BY <1>2, <1>3, <2>4, SendFields DEF Clean
      <3>2. Holds(out, Una)
        BY <1>5, <3>1 DEF IStream, StreamOK, InBuffer, Clean
      <3>3. /\ Holds(out', Una) /\ PrefixOf(out.stream, out'.stream)
            /\ out.text # Null => out'.sentlen = out.sentlen
        BY <1>2, <1>3, <1>5, <2>2, <2>3, <2>4, <3>2, SendHolds DEF Clean
      <3>4. len > 0 => out.text # Null /\ out.sentlen = len
        BY <1>5, <3>1 DEF IStream, StreamOK, StopAndWait, SentlenIsLen, Clean
      <3> QED
        BY <3>1, <3>3, <3>4 DEF Clean
    <2>5. Clean => Una <= Len(Received)
      BY <1>5 DEF IStream, StreamOK, StopAndWait, AckedIsReceived
    <2> QED
      BY <1>1, <1>5, <2>1, <2>3, <2>4, <2>5, StreamSent
  <1> QED
    BY <1>4, <1>5

LEMMA StreamResend == IStream /\ (TimerRexmit \/ TimerPoll) => StreamOK'
  <1> SUFFICES ASSUME IStream, TimerRexmit \/ TimerPoll PROVE StreamOK'
    OBVIOUS
  <1> DEFINE o == senddata(out, mss)
  <1>1. ITypeOK'
    BY TypeTimerRexmit, TypeTimerPoll DEF IStream, IHandshake
  <1>2. /\ tcp = "ESTABLISHED" /\ tcp' = "ESTABLISHED"
        /\ UNCHANGED <<sess, iss, snd_nxt, srv>>
        /\ out' = Transmitted(o, len)
        /\ c2s' = c2s \cup Reply(o, len, snd_nxt, rcv_nxt, FALSE)
    BY DEF TimerRexmit, TimerPoll, loop
  <1>3. len' = SentLen(o, len)
    <2>1. CASE TimerRexmit
      <3>1. len' = len /\ len > 0
        BY <2>1 DEF TimerRexmit
      <3>2. len \in Nat
        BY NetTypes DEF IStream, IHandshake, ITypeOK
      <3> QED
        BY <3>1, <3>2 DEF SentLen
    <2>2. CASE TimerPoll
      BY <2>2 DEF TimerPoll
    <2> QED
      BY <2>1, <2>2
  <1>4. \A m \in c2s' : m \in c2s \/ m.data = <<>>
                        \/ (m.seq = snd_nxt /\ slen(o) > 0 /\ m.data = Payload(o, SentLen(o, len)))
    <2>1. \A m \in Reply(o, len, snd_nxt, rcv_nxt, FALSE) :
            m.data = <<>> \/ (m.seq = snd_nxt /\ slen(o) > 0 /\ m.data = Payload(o, SentLen(o, len)))
      BY DEF Reply, CSeg
    <2> QED
      BY <1>2, <2>1
  <1>5. /\ OutOK(out) /\ mss \in Nat \ {0} /\ len \in 0..BufSize /\ iss \in Nat /\ snd_nxt \in Nat
        /\ snd_nxt > iss /\ (len > 0 => out.text # Null)
    BY <1>2, StreamTypes DEF IStream, IHandshake, ITypeOK, InFlight, Begun
  <1> HIDE DEF o
  <1>6. ASSUME Clean'
        PROVE  /\ Clean /\ out'.stream = out.stream /\ Holds(out', Una)
               /\ len' > 0 => out'.sentlen = len'
               /\ \A m \in c2s' : m \in c2s \/ m.data = <<>> \/ PartOf(m, out'.stream)
    <2>1. Clean
      <3>1. o.harm = out.harm /\ o \in OutState
        BY <1>5, SenddataFields, SenddataOK DEF o, OutOK
      <3> QED
        BY <1>2, <1>6, <3>1, TransmittedFields DEF Clean
    <2>2. Holds(out, snd_nxt - iss - 1)
      BY <1>2, <2>1 DEF IStream, StreamOK, InBuffer, Una
    <2>3. /\ out'.stream = out.stream /\ Holds(out', snd_nxt - iss - 1)
          /\ SentLen(o, len) > 0 => out'.sentlen = SentLen(o, len)
          /\ \A m : m.seq = snd_nxt /\ slen(o) > 0 /\ m.data = Payload(o, SentLen(o, len))
                      => PartOf(m, out.stream)
      BY <1>2, <1>5, <1>6, <2>2, SendsKeep DEF Clean, o
    <2> QED
      BY <1>3, <1>4, <2>1, <2>3 DEF Una
  <1>7. Clean => Una <= Len(Received)
    BY <1>2 DEF IStream, StreamOK, StopAndWait, AckedIsReceived
  <1>8. Una' = Una
    BY <1>2 DEF Una
  <1>9. out.stream \in Seq(Byte)
    BY StreamTypes
  <1>10. PrefixOf(out.stream, out.stream)
    BY <1>9 DEF PrefixOf
  <1>11. Clean' => PrefixOf(out.stream, out'.stream)
    BY <1>6, <1>10
  <1> QED
    BY <1>1, <1>2, <1>6, <1>7, <1>8, <1>11, StreamSent

(* What the ACK of a clean step acknowledges is what was sent, and it has  *)
(* arrived.                                                                *)
LEMMA AckOfThis ==
  ASSUME IStream, NEW m \in s2c, Accepts(m), tcp = "ESTABLISHED", m.kind # "FIN",
         AcksData(m), m.sess = sess
  PROVE  (snd_nxt + len) - iss - 1 <= Len(Received)
  <1>1. TypeOK /\ OneServer /\ ThisSession
    BY DEF IStream, IHandshake, ITypeOK
  <1>2. m.kind \in {"SYNACK", "ACK", "FIN", "RST"}
    BY <1>1, NetTypes
  <1>3. m.kind # "SYNACK"
    <2> SUFFICES ASSUME m.kind = "SYNACK" PROVE FALSE
      OBVIOUS
    <2>1. m.seq = rcv_nxt
      BY AcceptedSegment
    <2> QED
      BY <1>1, <2>1, OwnSegment
  <1>4. srv.sess = sess /\ srv.cliIss = iss
    BY <1>1 DEF ThisSession, FreshHandshake
  <1>5. m.ack <= SrvNext
    BY <1>1, <1>3, <1>4 DEF OneServer, ServerSegment
  <1>6. m.ack = snd_nxt + len
    BY DEF AcksData
  <1>7. /\ Received = srv.rcv /\ Len(srv.rcv) \in Nat /\ m.ack \in Nat
        /\ iss \in Nat /\ snd_nxt \in Nat /\ len \in Nat
    <2>1. srv.rcv \in Seq(Byte) /\ m.ack \in Nat /\ iss \in Nat /\ snd_nxt \in Nat /\ len \in Nat
      BY <1>1, NetTypes
    <2> QED
      BY <1>4, <2>1 DEF Received
  <1>8. m.ack <= iss + 1 + Len(srv.rcv)
    BY <1>4, <1>5 DEF SrvNext
  <1>9. Len(Received) = Len(srv.rcv)
    BY <1>7
  <1> DEFINE n == Len(srv.rcv)
             k == m.ack
  <1>10. k = snd_nxt + len /\ k <= iss + 1 + n /\ n \in Nat /\ k \in Nat
    BY <1>6, <1>7, <1>8
  <1> HIDE DEF n, k
  <1>11. (snd_nxt + len) - iss - 1 <= n
    BY <1>7, <1>10
  <1> QED
    BY <1>9, <1>11 DEF n

(* What acked() and the answers leave, when nothing went wrong.            *)
LEMMA AnsweredHolds ==
  ASSUME IStream, NEW m \in s2c, RecvData(m), NEW p \in Answered(m, AfterAck(m)), p.harm = {}
  PROVE  /\ Clean /\ OutOK(p) /\ PrefixOf(out.stream, p.stream)
         /\ Holds(p, snd_nxt' - iss - 1)
         /\ snd_nxt' - iss - 1 <= Len(Received)
         /\ (IF AcksData(m) THEN 0 ELSE len) > 0 => p.text # Null
         /\ p.text = Null => p.stream = out.stream
         /\ p.stream # out.stream => snd_nxt' - iss - 1 = Len(out.stream)
         /\ out.text = Null /\ p.text # Null => p.stream # out.stream
  <1> DEFINE a == AfterAck(m)
             u == snd_nxt' - iss - 1
  <1>1. /\ tcp = "ESTABLISHED" /\ Accepts(m) /\ m.kind # "FIN" /\ tstate
        /\ snd_nxt' = (IF AcksData(m) THEN snd_nxt + len ELSE snd_nxt)
        /\ snd_nxt > iss /\ iss \in Nat /\ snd_nxt \in Nat /\ len \in Nat
        /\ OutOK(out) /\ out \in OutState /\ Una \in Nat /\ out.stream \in Seq(Byte)
        /\ len > 0 => out.text # Null
    <2>1. tcp = "ESTABLISHED"
      BY DEF RecvData
    <2>2. snd_nxt > iss /\ tstate /\ (len > 0 => out.text # Null)
      BY <2>1 DEF IStream, IHandshake, ITypeOK, InFlight, Begun
    <2>3. iss \in Nat /\ snd_nxt \in Nat /\ len \in 0..BufSize /\ OutOK(out) /\ out \in OutState
          /\ out.stream \in Seq(Byte) /\ BufSize \in Nat
      BY StreamTypes, OutTypes
    <2> QED
      BY <2>1, <2>2, <2>3 DEF RecvData, Una
  <1>2. PrefixOf(out.stream, out.stream)
    BY <1>1 DEF PrefixOf
  <1>3. p = a \/ (\E n \in MsgLengths : p = telnet_send(a, n))
    BY DEF Answered
  <1>4. OutOK(a) /\ a.stream = out.stream /\ (~AcksData(m) => a = out)
    <2>1. CASE ~AcksData(m)
      BY <1>1, <2>1 DEF AfterAck
    <2>2. CASE AcksData(m)
      <3> DEFINE b == acked(out)
                 h == out.harm \cup Harm("staleAck", m.sess # sess) \cup Harm("mss", out.sentlen # len)
      <3>1. OutOK(b) /\ b \in OutState /\ b.stream = out.stream
        BY <1>1, <2>2, AckedOK, AckedFields DEF AcksData, OutOK
      <3>2. h \in SUBSET Harms
        BY <1>1 DEF Harms, Harm, OutState
      <3>3. a = [b EXCEPT !.harm = h]
        BY <2>2 DEF AfterAck
      <3> HIDE DEF h, b, a
      <3> QED
        BY <2>2, <3>1, <3>2, <3>3 DEF OutOK, OutState
    <2> QED
      BY <2>1, <2>2
  <1>5. a.harm \subseteq p.harm
    BY <1>3, <1>4, SendFields DEF OutOK
  <1>6. Clean /\ Holds(a, u) /\ u \in Nat /\ u <= Len(Received)
    <2>1. CASE ~AcksData(m)
      <3>1. a = out /\ u = Una
        BY <1>1, <1>4, <2>1 DEF Una
      <3>2. Clean
        BY <1>5, <3>1 DEF Clean
      <3> QED
        BY <1>1, <3>1, <3>2 DEF IStream, StreamOK, InBuffer, StopAndWait, AckedIsReceived
    <2>2. CASE AcksData(m)
      <3> DEFINE b == acked(out)
                 h == out.harm \cup Harm("staleAck", m.sess # sess) \cup Harm("mss", out.sentlen # len)
      <3>1. b \in OutState /\ a = [b EXCEPT !.harm = h]
        BY <1>1, <2>2, AckedOK DEF AfterAck, AcksData, OutOK
      <3>2. a.harm = h /\ a.text = b.text /\ a.textlen = b.textlen /\ a.buf = b.buf /\ a.stream = b.stream
        BY <3>1 DEF OutState
      <3>3. out.harm = {} /\ m.sess = sess /\ out.sentlen = len
        BY <1>5, <3>2 DEF Harm
      <3>4. Clean
        BY <3>3 DEF Clean
      <3>5. Holds(out, Una) /\ out.text # Null
        BY <1>1, <2>2, <3>4 DEF IStream, StreamOK, InBuffer, AcksData
      <3>6. Holds(b, Una + out.sentlen)
        BY <1>1, <3>5, AckHolds
      <3>7. u = Una + out.sentlen
        BY <1>1, <2>2, <3>3 DEF Una
      <3>8. Holds(a, u)
        BY <3>2, <3>6, <3>7, HoldsStill
      <3>9. u <= Len(Received)
        BY <1>1, <2>2, <3>3, AckOfThis
      <3> QED
        BY <1>1, <2>2, <3>4, <3>8, <3>9
    <2> QED
      BY <2>1, <2>2
  <1> HIDE DEF a, u
  <1>7. CASE p = a
    <2>1. (IF AcksData(m) THEN 0 ELSE len) > 0 => p.text # Null
      BY <1>1, <1>4, <1>7
    <2>2. out.text = Null => p.text = Null
      BY <1>1, <1>4, <1>7 DEF AcksData
    <2> QED
      BY <1>2, <1>4, <1>6, <1>7, <2>1, <2>2 DEF u
  <1>8. ASSUME NEW n \in MsgLengths, p = telnet_send(a, n)
        PROVE  /\ Clean /\ OutOK(p) /\ PrefixOf(out.stream, p.stream) /\ Holds(p, u)
               /\ u <= Len(Received) /\ p.text # Null
               /\ p.stream # out.stream => u = Len(out.stream)
               /\ out.text = Null => p.stream # out.stream
    <2>1. OutOK(p)
      BY <1>1, <1>4, <1>8, SendOK
    <2>2. /\ Holds(p, u) /\ PrefixOf(a.stream, p.stream) /\ p.text # Null
          /\ a.text # Null => p.stream = a.stream
          /\ a.text = Null => p.stream # a.stream
      BY <1>1, <1>4, <1>6, <1>8, SendHolds
    <2>3. a.text = Null => u = Len(a.stream)
      BY <1>6 DEF Holds
    <2>4. out.text = Null => a = out
      BY <1>1, <1>4 DEF AcksData
    <2> QED
      BY <1>4, <1>6, <2>1, <2>2, <2>3, <2>4
  <1> QED
    BY <1>3, <1>7, <1>8 DEF u

LEMMA StreamData ==
  ASSUME IStream, NEW m \in s2c, RecvData(m)
  PROVE  StreamOK'
  <1> DEFINE l == IF AcksData(m) THEN 0 ELSE len
  <1>1. ITypeOK'
    BY TypeData DEF IStream, IHandshake
  <1>2. /\ tcp = "ESTABLISHED" /\ tcp' = "ESTABLISHED" /\ UNCHANGED <<sess, iss, srv>>
        /\ snd_nxt' = (IF AcksData(m) THEN snd_nxt + len ELSE snd_nxt)
    BY DEF RecvData, loop
  <1>3. PICK p \in Answered(m, AfterAck(m)) :
          /\ out' = Transmitted(senddata(p, mss'), l)
          /\ len' = SentLen(senddata(p, mss'), l)
          /\ c2s' = c2s \cup Reply(senddata(p, mss'), l, snd_nxt', rcv_nxt', m.n > 0)
    BY DEF RecvData
  <1> DEFINE o == senddata(p, mss')
  <1>4. \A x \in c2s' : x \in c2s \/ x.data = <<>>
                        \/ (x.seq = snd_nxt' /\ slen(o) > 0 /\ x.data = Payload(o, SentLen(o, l)))
    <2>1. \A x \in Reply(o, l, snd_nxt', rcv_nxt', m.n > 0) :
            x.data # <<>> => x.seq = snd_nxt' /\ slen(o) > 0 /\ x.data = Payload(o, SentLen(o, l))
      BY ReplyIs
    <2> QED
      BY <1>3, <2>1
  <1>5. /\ iss \in Nat /\ snd_nxt' \in Nat /\ l \in 0..BufSize /\ mss' \in Nat \ {0} /\ snd_nxt' > iss
    <2>1. iss \in Nat /\ snd_nxt \in Nat /\ len \in 0..BufSize /\ BufSize \in Nat
      BY StreamTypes, ConnAssumption
    <2>2. snd_nxt > iss
      BY <1>2 DEF IStream, IHandshake, Begun
    <2>3. mss' \in Nat \ {0}
      BY <1>1, ConnAssumption DEF ITypeOK, TypeOK, ConnOK
    <2> QED
      BY <1>2, <2>1, <2>2, <2>3
  <1> HIDE DEF l, o
  <1>6. OutOK(p)
    BY AnsweredType DEF IStream, IHandshake
  <1>7. ASSUME Clean'
        PROVE  /\ Clean /\ PrefixOf(out.stream, out'.stream) /\ Holds(out', Una') /\ Una' <= Len(Received)
               /\ len' > 0 => out'.sentlen = len'
               /\ \A x \in c2s' : x \in c2s \/ x.data = <<>> \/ PartOf(x, out'.stream)
    <2>1. p.harm = {}
      <3>1. o.harm = p.harm /\ o \in OutState
        BY <1>5, <1>6, SenddataFields, SenddataOK DEF o, OutOK
      <3> QED
        BY <1>3, <1>7, <3>1, TransmittedFields DEF Clean, o
    <2>2. /\ Clean /\ PrefixOf(out.stream, p.stream) /\ Holds(p, snd_nxt' - iss - 1)
          /\ snd_nxt' - iss - 1 <= Len(Received) /\ (l > 0 => p.text # Null)
      BY <2>1, AnsweredHolds DEF l
    <2>3. /\ out'.stream = p.stream /\ Holds(out', snd_nxt' - iss - 1)
          /\ SentLen(o, l) > 0 => out'.sentlen = SentLen(o, l)
          /\ \A x : x.seq = snd_nxt' /\ slen(o) > 0 /\ x.data = Payload(o, SentLen(o, l))
                      => PartOf(x, p.stream)
      BY <1>3, <1>5, <1>6, <1>7, <2>2, SendsKeep DEF Clean, o
    <2>4. Una' = snd_nxt' - iss - 1
      BY <1>2 DEF Una
    <2> QED
      BY <1>3, <1>4, <2>2, <2>3, <2>4 DEF o
  <1> QED
    BY <1>1, <1>2, <1>7, StreamSent

(* A SYN is only taken by a server that has no part in the connection.     *)
LEMMA StreamSrvSyn ==
  ASSUME IStream, NEW m \in c2s, SrvSyn(m)
  PROVE  StreamOK'
  <1>1. /\ m.sess > srv.sess /\ srv'.rcv = <<>>
        /\ UNCHANGED <<sess, tcp, iss, snd_nxt, len, out, c2s>>
    BY DEF SrvSyn, SrvUnchanged, loop, conn
  <1>2. m.sess <= sess
    BY DEF IStream, IHandshake, OneSyn
  <1>3. tcp # "ESTABLISHED"
    BY <1>1, <1>2, StreamTypes DEF IStream, IHandshake, ThisSession, FreshHandshake
  <1>4. Received' = <<>>
    BY <1>1 DEF Received
  <1>5. OnWire'
    BY <1>1 DEF IStream, StreamOK, OnWire, PartOf, Clean
  <1>6. StreamIntact'
    BY <1>1, <1>4, StreamTypes DEF StreamIntact, PrefixOf
  <1> QED
    BY <1>1, <1>3, <1>5, <1>6 DEF StreamOK, InBuffer, StopAndWait, AckedIsReceived, SentlenIsLen

(* What the server takes is what comes next of the stream.                 *)
LEMMA StreamArrives ==
  ASSUME IStream, SrvLine \/ SrvClose \/ SrvReset \/ \E m \in c2s : SrvRecv(m)
  PROVE  /\ UNCHANGED <<sess, tcp, iss, snd_nxt, len, out, c2s>>
         /\ Received' \in Seq(Byte) /\ PrefixOf(Received, Received')
         /\ Clean => PrefixOf(Received', out.stream)
  <1>1. /\ UNCHANGED <<sess, tcp, iss, snd_nxt, len, out, c2s>> /\ srv'.sess = srv.sess
        /\ \/ srv'.rcv = srv.rcv
           \/ \E m \in c2s : /\ m.kind = "ACK" /\ m.sess = srv.sess /\ m.seq = SrvNext
                             /\ srv'.rcv = srv.rcv \o m.data
    BY ServerGoesOn DEF IStream
  <1>2. Received \in Seq(Byte) /\ iss \in Nat /\ sess \in Nat /\ srv.sess \in Nat /\ srv.cliIss \in Nat
    BY StreamTypes
  <1>3. PrefixOf(Received, Received) /\ (Clean => PrefixOf(Received, out.stream))
    BY <1>2 DEF IStream, StreamOK, StreamIntact, PrefixOf
  <1>4. CASE srv'.rcv = srv.rcv \/ srv.sess # sess
    <2>1. Received' = Received
      BY <1>1, <1>4 DEF Received
    <2> QED
      BY <1>1, <1>2, <1>3, <2>1
  <1>5. ASSUME NEW m \in c2s, m.seq = SrvNext, m.sess = srv.sess, srv.sess = sess, srv.sess # 0,
               srv'.rcv = srv.rcv \o m.data
        PROVE  /\ Received' \in Seq(Byte) /\ PrefixOf(Received, Received')
               /\ Clean => PrefixOf(Received', out.stream)
    <2> DEFINE r == srv.rcv
               d == m.data
               s == out.stream
               n == srv'.rcv
    <2>1. Received = r /\ Received' = n
      BY <1>1, <1>5 DEF Received
    <2>2. r \in Seq(Byte) /\ d \in Seq(Byte) /\ s \in Seq(Byte)
      BY <1>2, <2>1, StreamTypes
    <2>3. n = r \o d
      BY <1>5
    <2>4. srv.cliIss = iss
      BY <1>5 DEF IStream, IHandshake, OneServer, OneSyn, Syn
    <2>5. m.seq - iss - 1 = Len(r)
      <3>1. m.seq = iss + 1 + Len(r)
        BY <1>5, <2>4 DEF SrvNext
      <3>2. Len(r) \in Nat
        BY <2>2
      <3> HIDE DEF r
      <3> QED
        BY <1>2, <3>1, <3>2
    <2>6. Clean /\ d # <<>> => /\ Len(r) + Len(d) <= Len(s)
                               /\ \A i \in 1..Len(d) : d[i] = s[Len(r) + i]
      <3> SUFFICES ASSUME Clean, d # <<>>
                   PROVE  Len(r) + Len(d) <= Len(s) /\ \A i \in 1..Len(d) : d[i] = s[Len(r) + i]
        OBVIOUS
      <3>1. PartOf(m, s)
        BY <1>5 DEF IStream, StreamOK, OnWire
      <3> QED
        BY <2>5, <3>1 DEF PartOf
    <2>7. Clean => Len(r) <= Len(s) /\ \A i \in 1..Len(r) : r[i] = s[i]
      BY <1>3, <2>1 DEF PrefixOf
    <2> SUFFICES /\ n \in Seq(Byte) /\ PrefixOf(r, n)
                 /\ Clean => PrefixOf(n, s)
      BY <2>1
    <2> HIDE DEF r, d, s, n
    <2>8. /\ n \in Seq(Byte) /\ Len(r) \in Nat /\ Len(d) \in Nat /\ Len(n) = Len(r) + Len(d)
          /\ \A i \in 1..Len(r) : n[i] = r[i]
          /\ \A i \in 1..Len(d) : n[Len(r) + i] = d[i]
      BY <2>2, <2>3, Joined
    <2>9. PrefixOf(r, n)
      BY <2>8 DEF PrefixOf
    <2>10. Clean => PrefixOf(n, s)
      <3> SUFFICES ASSUME Clean PROVE PrefixOf(n, s)
        OBVIOUS
      <3>1. CASE d = <<>>
        <4>1. Len(d) = 0
          BY <3>1
        <4> QED
          BY <2>7, <2>8, <4>1 DEF PrefixOf
      <3>2. CASE d # <<>>
        <4>1. ASSUME NEW i \in 1..Len(n) PROVE n[i] = s[i]
          <5>1. CASE i <= Len(r)
            BY <2>7, <2>8, <5>1
          <5>2. CASE i > Len(r)
            <6>1. PICK j \in 1..Len(d) : i = Len(r) + j
              <7>1. i - Len(r) \in 1..Len(d) /\ i = Len(r) + (i - Len(r))
                BY <2>8, <5>2
              <7> QED
                BY <7>1
            <6> QED
              BY <2>6, <2>8, <3>2, <6>1
          <5> QED
            BY <2>8, <5>1, <5>2
        <4>2. Len(n) <= Len(s)
          BY <2>6, <2>8, <3>2
        <4> QED
          BY <4>1, <4>2 DEF PrefixOf
      <3> QED
        BY <3>1, <3>2
    <2> QED
      BY <2>8, <2>9, <2>10
  <1>6. (\E m \in c2s : SrvRecv(m)) => srv.sess # 0
    BY DEF SrvRecv, IStream, Answering
  <1>7. ~(\E m \in c2s : SrvRecv(m)) => srv'.rcv = srv.rcv
    BY NetTypes DEF SrvLine, SrvClose, SrvReset, IStream, IHandshake, ITypeOK, TypeOK, ServerState
  <1> QED
    BY <1>1, <1>4, <1>5, <1>6, <1>7

LEMMA StreamServer ==
  ASSUME IStream, SrvLine \/ SrvClose \/ SrvReset \/ \E m \in c2s : SrvRecv(m)
  PROVE  StreamOK'
  <1>1. /\ UNCHANGED <<sess, tcp, iss, snd_nxt, len, out, c2s>>
        /\ Received' \in Seq(Byte) /\ PrefixOf(Received, Received')
        /\ Clean => PrefixOf(Received', out.stream)
    BY StreamArrives
  <1>2. InBuffer' /\ OnWire'
    BY <1>1 DEF IStream, StreamOK, InBuffer, OnWire, PartOf, Clean, Una
  <1>3. AckedIsReceived'
    <2>1. Len(Received) \in Nat /\ Len(Received') \in Nat /\ Len(Received) <= Len(Received')
      BY <1>1, StreamTypes DEF PrefixOf
    <2>2. iss \in Nat /\ snd_nxt \in Nat
      BY StreamTypes
    <2>3. Clean /\ tcp = "ESTABLISHED" => Una <= Len(Received)
      BY DEF IStream, StreamOK, StopAndWait, AckedIsReceived
    <2>4. Una' = Una /\ Clean' = Clean /\ tcp' = tcp /\ Una \in Int
      BY <1>1, <2>2 DEF Una, Clean
    <2> QED
      BY <2>1, <2>3, <2>4 DEF AckedIsReceived
  <1>4. SentlenIsLen'
    BY <1>1 DEF IStream, StreamOK, StopAndWait, SentlenIsLen, Clean
  <1>5. StreamIntact'
    BY <1>1 DEF StreamIntact, PrefixOf, Clean
  <1> QED
    BY <1>2, <1>3, <1>4, <1>5 DEF StreamOK, StopAndWait

LEMMA StreamNext == IStream /\ [Next]_vars => IStream'
  <1> SUFFICES ASSUME IStream, [Next]_vars PROVE IStream'
    OBVIOUS
  <1>1. IHandshake' /\ Answering'
    BY HandshakeNext, AnsweringNext DEF IStream
  <1>2. CASE Client
    <2>1. CASE StartSession \/ Connect \/ UserSend \/ HostNotFound \/ LeaveLoop
      BY <1>1, <2>1, StreamStart, StreamConnect, StreamUserSend, StreamQuiet DEF IStream
    <2>2. CASE Timer
      BY <1>1, <2>2, StreamQuiet, StreamResend DEF Timer, IStream
    <2>3. ASSUME NEW m \in s2c, Receive(m) PROVE IStream'
      BY <1>1, <2>3, StreamQuiet, StreamSynAck, StreamData DEF Receive, IStream
    <2> QED
      BY <1>2, <2>1, <2>2, <2>3 DEF Client
  <1>3. CASE Server
    BY <1>1, <1>3, StreamSrvSyn, StreamServer DEF Server, IStream
  <1>4. CASE UNCHANGED vars
    <2>1. StreamOK'
      BY <1>4, StreamSame DEF vars, loop, conn, net, Clean
    <2> QED
      BY <1>1, <2>1 DEF IStream
  <1> QED
    BY <1>2, <1>3, <1>4 DEF Next

LEMMA IStreamCorrect == Spec => []IStream
  BY StreamInit, StreamNext, PTL DEF Spec

(* The server receives the bytes of the messages telnet_send accepted, in  *)
(* order, none missing, none twice and none of another message, whatever   *)
(* the network loses, repeats or delays, until one of the departures that  *)
(* out.harm names happens.                                                 *)
THEOREM StreamIntactHolds == Spec => []StreamIntact
  <1>1. IStream => StreamIntact
    BY DEF IStream, StreamOK
  <1> QED
    BY <1>1, IStreamCorrect, PTL

(* telnet.c, uIP and the server agree on what is in flight and on what has *)
(* arrived.                                                                *)
THEOREM StopAndWaitHolds == Spec => []StopAndWait
  <1>1. IStream => StopAndWait
    BY DEF IStream, StreamOK
  <1> QED
    BY <1>1, IStreamCorrect, PTL
-------------------------------------------------------------------------------
(***************************************************************************)
(* The refinement of MessageChannel.                                       *)
(***************************************************************************)

(* A connection is only established while the loop runs.                   *)
OpenRuns == tcp = "ESTABLISHED" => up /\ ~done

IPromise == IStream /\ OpenRuns

LEMMA PromiseNext == IPromise /\ [Next]_vars => IPromise'
  <1> SUFFICES ASSUME IPromise, [Next]_vars PROVE IPromise'
    OBVIOUS
  <1>1. IStream'
    BY StreamNext DEF IPromise
  <1>2. CASE Client
    <2>1. OpenRuns'
      BY <1>2 DEF IPromise, OpenRuns, Client, Timer, Receive, StartSession, Connect, HostNotFound,
         UserSend, LeaveLoop, TimerGivesUp, TimerSyn, TimerRexmit, TimerPoll, RecvNoConn, RecvRst,
         RecvOutOfOrder, RecvSynAck, RecvAbort, RecvFin, RecvWindow, RecvData, Accepts, Running,
         loop, conn
    <2> QED
      BY <1>1, <2>1 DEF IPromise
  <1>3. CASE Server
    <2>1. UNCHANGED <<loop, conn>>
      BY <1>3 DEF Server, SrvSyn, SrvRecv, SrvLine, SrvClose, SrvReset, SrvUnchanged
    <2> QED
      BY <1>1, <2>1 DEF IPromise, OpenRuns, loop, conn
  <1>4. CASE UNCHANGED vars
    BY <1>1, <1>4 DEF IPromise, OpenRuns, vars, loop, conn
  <1> QED
    BY <1>2, <1>3, <1>4 DEF Next

LEMMA Extends ==
  ASSUME NEW s \in Seq(Byte), NEW t \in Seq(Byte), PrefixOf(s, t)
  PROVE  /\ SubSeq(t, 1, Len(s)) = s /\ Len(s) <= Len(t)
         /\ Len(s) = Len(t) => s = t
         /\ s # t => Promise!StrictlyExtends(t, s)
  <1>1. /\ Len(s) \in Nat /\ Len(t) \in Nat /\ Len(s) <= Len(t)
        /\ \A i \in 1..Len(s) : s[i] = t[i]
    BY DEF PrefixOf
  <1>2. SubSeq(t, 1, Len(s)) = s
    BY <1>1
  <1>3. Len(s) = Len(t) => s = t
    BY <1>1
  <1> QED
    BY <1>1, <1>2, <1>3 DEF Promise!StrictlyExtends

(* A step that leaves the stream, the server's end and the pending message *)
(* alone is none of MessageChannel.                                        *)
LEMMA KeepsUnchanged ==
  ASSUME UNCHANGED <<sess, srv>>, out'.stream = out.stream, (tcp' = "ESTABLISHED") = (tcp = "ESTABLISHED"),
         tcp = "ESTABLISHED" => ((out'.text = Null) <=> (out.text = Null))
  PROVE  UNCHANGED Promise!cvars
  BY DEF Promise!cvars, Received

LEMMA KeepsQuiet ==
  ASSUME IStream,
         \/ Connect \/ HostNotFound \/ LeaveLoop \/ TimerGivesUp \/ TimerSyn
         \/ \E m \in s2c : RecvNoConn(m) \/ RecvRst(m) \/ RecvOutOfOrder(m) \/ RecvAbort(m)
                             \/ RecvFin(m) \/ RecvWindow(m)
  PROVE  Promise!Next \/ UNCHANGED Promise!cvars
  <1>1. UNCHANGED <<sess, srv, out>> /\ (tcp' = "ESTABLISHED" => tcp = "ESTABLISHED")
    BY DEF Connect, HostNotFound, LeaveLoop, TimerGivesUp, TimerSyn, RecvNoConn, RecvRst, RecvOutOfOrder,
       RecvAbort, RecvFin, RecvWindow, loop, conn
  <1>2. CASE tcp = "ESTABLISHED" /\ tcp' # "ESTABLISHED"
    BY <1>1, <1>2 DEF Promise!Next, Promise!Close, Received
  <1>3. CASE ~(tcp = "ESTABLISHED" /\ tcp' # "ESTABLISHED")
    BY <1>1, <1>3 DEF Promise!cvars, Received
  <1> QED
    BY <1>2, <1>3

LEMMA KeepsStart ==
  ASSUME IPromise, StartSession
  PROVE  Promise!Next
  <1>1. tcp # "ESTABLISHED" /\ tcp' = "CLOSED" /\ sess' = sess + 1 /\ srv' = srv /\ out'.stream = <<>>
    BY DEF StartSession, IPromise, OpenRuns, IStream, IHandshake, ITypeOK, TypeOK, OutOK, OutState
  <1>2. \A m \in c2s : m.sess <= sess
    BY DEF IPromise, IStream, IHandshake, OneSyn
  <1>3. sess \in Nat /\ srv.sess \in Nat /\ srv.sess <= sess
    BY <1>2, StreamTypes DEF IPromise, IStream, IHandshake, OneServer, Syn
  <1>4. Received' = <<>>
    BY <1>1, <1>3 DEF Received
  <1> QED
    BY <1>1, <1>4 DEF Promise!Next, Promise!Forget

LEMMA KeepsSynAck ==
  ASSUME IStream, NEW m \in s2c, RecvSynAck(m)
  PROVE  Promise!Next
  <1>1. srv.sess = sess
    BY OwnSynAck DEF IStream
  <1>2. /\ tcp = "SYN_SENT" /\ tcp' = "ESTABLISHED" /\ UNCHANGED <<sess, srv>>
        /\ out' = [out EXCEPT !.text = Null, !.textlen = 0, !.harm = {}]
    BY DEF RecvSynAck, HandshakeReply
  <1>3. out.stream = <<>> /\ srv.rcv = <<>>
    BY <1>1, <1>2 DEF IStream, IHandshake, Begun, NotYet
  <1>4. out'.text = Null /\ out'.stream = <<>> /\ Received' = <<>>
    BY <1>1, <1>2, <1>3, StreamTypes, OutTypes DEF OutState, Received
  <1> QED
    BY <1>2, <1>4 DEF Promise!Next, Promise!Open

LEMMA KeepsUserSend ==
  ASSUME IStream, UserSend, Clean'
  PROVE  Promise!Next \/ UNCHANGED Promise!cvars
  <1>1. UNCHANGED <<sess, tstate, tcp, srv>>
    BY DEF UserSend, loop, conn
  <1>2. PICK n \in MsgLengths : out' = telnet_send(out, n)
    BY DEF UserSend
  <1>3. OutOK(out) /\ out \in OutState /\ OutOK(out')
    BY <1>2, StreamTypes, TypeUserSend DEF IStream, IHandshake, ITypeOK, TypeOK, OutOK
  <1>4. CASE tcp # "ESTABLISHED"
    <2>1. out'.stream = out.stream
      BY <1>2, <1>3, <1>4, SendFields
    <2> QED
      BY <1>1, <1>4, <2>1, KeepsUnchanged
  <1>5. CASE tcp = "ESTABLISHED"
    <2>1. tstate /\ Una \in Nat
      BY <1>5, StreamTypes DEF IStream, IHandshake, Begun, Una
    <2>2. out.harm = {}
      BY <1>2, <1>3, SendFields DEF Clean
    <2>3. Holds(out, Una)
      BY <1>5, <2>2 DEF IStream, StreamOK, InBuffer, Clean
    <2>4. /\ PrefixOf(out.stream, out'.stream) /\ out'.text # Null
          /\ out.text # Null => out'.stream = out.stream
          /\ out.text = Null => out'.stream # out.stream
      BY <1>2, <1>3, <1>5, <2>1, <2>3, SendHolds DEF Clean
    <2>5. CASE out.text # Null
      BY <1>1, <1>5, <2>4, <2>5, KeepsUnchanged
    <2>6. CASE out.text = Null
      <3>1. Promise!StrictlyExtends(out'.stream, out.stream)
        BY <1>3, <2>4, <2>6, Extends, OutTypes
      <3> QED
        BY <1>1, <1>5, <2>4, <2>6, <3>1 DEF Promise!Next, Promise!Take, Received
    <2> QED
      BY <2>5, <2>6
  <1> QED
    BY <1>4, <1>5

LEMMA KeepsResend ==
  ASSUME IStream, TimerRexmit \/ TimerPoll
  PROVE  UNCHANGED Promise!cvars
  <1>1. /\ UNCHANGED <<sess, tcp, srv>>
        /\ out' = Transmitted(senddata(out, mss), len)
    BY DEF TimerRexmit, TimerPoll, loop
  <1>2. OutOK(out) /\ out \in OutState /\ mss \in Nat \ {0}
    BY StreamTypes DEF OutOK
  <1>3. senddata(out, mss) \in OutState
    BY <1>2, SenddataOK DEF OutOK
  <1>4. out'.stream = out.stream /\ out'.text = out.text
    BY <1>1, <1>2, <1>3, SenddataFields, TransmittedFields
  <1> QED
    BY <1>1, <1>4, KeepsUnchanged

(* What is acknowledged in full has arrived, so that telnet_send may take  *)
(* the next message, and the pending one was the last of the stream.       *)
LEMMA KeepsData ==
  ASSUME IStream, NEW m \in s2c, RecvData(m), Clean'
  PROVE  Promise!Next \/ UNCHANGED Promise!cvars
  <1> DEFINE l == IF AcksData(m) THEN 0 ELSE len
             u == snd_nxt' - iss - 1
  <1>1. /\ tcp = "ESTABLISHED" /\ tcp' = "ESTABLISHED" /\ UNCHANGED <<sess, srv>>
    BY DEF RecvData, loop
  <1>2. PICK p \in Answered(m, AfterAck(m)) : out' = Transmitted(senddata(p, mss'), l)
    BY DEF RecvData
  <1>3. OutOK(p) /\ p \in OutState /\ mss' \in Nat \ {0}
    <2>1. ITypeOK'
      BY TypeData DEF IStream, IHandshake
    <2>2. mss' \in Nat \ {0}
      BY <2>1, ConnAssumption DEF ITypeOK, TypeOK, ConnOK
    <2> QED
      BY <2>2, AnsweredType DEF IStream, IHandshake, OutOK
  <1>4. out'.stream = p.stream /\ out'.text = p.text /\ p.harm = {}
    <2> DEFINE o == senddata(p, mss')
    <2>1. o \in OutState
      BY <1>3, SenddataOK DEF OutOK
    <2>2. o.harm = p.harm /\ o.text = p.text /\ o.stream = p.stream
      BY <1>3, SenddataFields
    <2> HIDE DEF o
    <2>3. out' = Transmitted(o, l)
      BY <1>2 DEF o
    <2> HIDE DEF l
    <2> QED
      BY <2>1, <2>2, <2>3, TransmittedFields DEF Clean
  <1>5. /\ Clean /\ PrefixOf(out.stream, p.stream) /\ Holds(p, u) /\ u <= Len(Received)
        /\ p.text = Null => p.stream = out.stream
        /\ p.stream # out.stream => u = Len(out.stream)
        /\ out.text = Null /\ p.text # Null => p.stream # out.stream
    BY <1>4, AnsweredHolds
  <1>6. p.stream \in Seq(Byte) /\ out.stream \in Seq(Byte) /\ Received \in Seq(Byte)
    BY <1>3, StreamTypes, OutTypes
  <1>7. u = Len(out.stream) => Received = out.stream
    <2>1. PrefixOf(Received, out.stream)
      BY <1>5 DEF IStream, StreamOK, StreamIntact
    <2> HIDE DEF u
    <2> QED
      BY <1>5, <1>6, <2>1, Extends
  <1>8. Received' = Received
    BY <1>1 DEF Received
  <1> HIDE DEF u
  <1>9. CASE p.stream # out.stream
    <2>1. Promise!StrictlyExtends(out'.stream, out.stream)
      BY <1>4, <1>5, <1>6, <1>9, Extends
    <2> QED
      BY <1>1, <1>4, <1>5, <1>7, <1>8, <1>9, <2>1 DEF Promise!Next, Promise!Take
  <1>10. CASE p.stream = out.stream /\ out.text # Null /\ p.text = Null
    <2>1. Received = out.stream
      BY <1>5, <1>7, <1>10 DEF Holds
    <2> QED
      BY <1>1, <1>4, <1>8, <1>10, <2>1 DEF Promise!Next, Promise!Free
  <1>11. CASE p.stream = out.stream /\ ((out.text = Null) <=> (p.text = Null))
    BY <1>1, <1>4, <1>11, KeepsUnchanged
  <1> QED
    BY <1>5, <1>9, <1>10, <1>11

LEMMA KeepsServer ==
  ASSUME IStream, Clean', Server
  PROVE  Promise!Next \/ UNCHANGED Promise!cvars
  <1>1. UNCHANGED <<sess, tcp, out>>
    BY DEF Server, SrvSyn, SrvRecv, SrvLine, SrvClose, SrvReset, SrvUnchanged, loop, conn
  <1>2. ASSUME NEW m \in c2s, SrvSyn(m) PROVE Received' = Received
    <2>1. m.sess > srv.sess /\ srv'.rcv = <<>> /\ m.sess <= sess
      BY <1>2 DEF SrvSyn, IStream, IHandshake, OneSyn
    <2>2. srv.sess # sess
      BY <2>1, StreamTypes
    <2> QED
      BY <2>1, <2>2 DEF Received
  <1>3. CASE Received' = Received
    BY <1>1, <1>3 DEF Promise!cvars
  <1>4. CASE Received' # Received /\ (SrvLine \/ SrvClose \/ SrvReset \/ \E m \in c2s : SrvRecv(m))
    <2>1. /\ Received' \in Seq(Byte) /\ PrefixOf(Received, Received')
          /\ PrefixOf(Received', out.stream)
      BY <1>1, <1>4, StreamArrives DEF Clean
    <2>2. Received \in Seq(Byte) /\ out.stream \in Seq(Byte)
      BY StreamTypes
    <2>3. Promise!StrictlyExtends(Received', Received)
      BY <1>4, <2>1, <2>2, Extends
    <2>4. Len(Received') <= Len(out.stream) /\ Received' = SubSeq(out.stream, 1, Len(Received'))
      BY <2>1, <2>2, Extends
    <2> QED
      BY <1>1, <2>3, <2>4 DEF Promise!Next, Promise!Arrive
  <1> QED
    BY <1>2, <1>3, <1>4 DEF Server

(* The client, the network and the server together keep what telnet_send   *)
(* promises: over all sessions, every clean step is one of MessageChannel, *)
(* or changes nothing of it.                                               *)
THEOREM KeepsPromiseHolds == Spec => KeepsPromise
  <1>1. Init => IPromise
    BY StreamInit DEF Init, IPromise, OpenRuns
  <1>2. Init => Promise!Init
    BY DEF Init, Promise!Init, NoServer, Received
  <1>3. IPromise /\ [Next]_vars => [Clean' => Promise!Next \/ UNCHANGED Promise!cvars]_vars
    <2> SUFFICES ASSUME IPromise, Next, Clean' PROVE Promise!Next \/ UNCHANGED Promise!cvars
      OBVIOUS
    <2>1. IStream
      BY DEF IPromise
    <2>2. CASE Client
      BY <2>1, <2>2, KeepsQuiet, KeepsStart, KeepsSynAck, KeepsUserSend, KeepsResend, KeepsData
         DEF Client, Timer, Receive
    <2> QED
      BY <2>1, <2>2, KeepsServer DEF Next
  <1> QED
    BY <1>1, <1>2, <1>3, PromiseNext, PTL DEF Spec, KeepsPromise
===============================================================================
