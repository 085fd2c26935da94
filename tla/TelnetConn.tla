------------------------------ MODULE TelnetConn ------------------------------
(***************************************************************************)
(* The one TCP connection of FujiChat: uIP's connection slot               *)
(* (uip/uip/uip.c), the telnet application on top of it                    *)
(* (uip/apps/telnet/telnet.c), the callbacks and the shared send buffer    *)
(* serv_msg_buf of the client (src/fujichat.c), and the main loop that     *)
(* opens one session after another on the same slot.                       *)
(*                                                                         *)
(* The network never forgets a segment, so that a segment may be delivered *)
(* late, twice, out of order, in a later session, or never.  The server is *)
(* external: it is a TCP that accepts bytes in order and acknowledges      *)
(* them.  Time is abstracted: a retransmission timer may run out at any    *)
(* periodic call.                                                          *)
(***************************************************************************)
EXTENDS Integers, Sequences

CONSTANTS
  MsgLengths,     \* lengths a message written into serv_msg_buf may have
  BufSize,        \* bytes of serv_msg_buf
  TcpMss,         \* UIP_TCP_MSS
  MaxRtx,         \* UIP_MAXRTX
  MaxSynRtx,      \* UIP_MAXSYNRTX
  Windows,        \* windows (and MSS options) the server may advertise
  IssSteps,       \* how far iss may have moved on at the next uip_connect
  SrvGap,         \* distance of the server's initial sequence numbers
  MaxSessions,    \* bound: sessions started from the server prompt
  MaxMsgs,        \* bound: messages written into serv_msg_buf
  MaxUnits        \* bound: lines the server sends in a session

ASSUME ConnAssumption ==
  /\ BufSize \in Nat \ {0}
  /\ MsgLengths \subseteq 1..BufSize
  /\ TcpMss \in Nat \ {0}
  /\ MaxRtx \in Nat /\ MaxSynRtx \in Nat
  /\ Windows \subseteq Nat
  /\ IssSteps \subseteq Nat \ {0}
  /\ SrvGap \in Nat /\ SrvGap > MaxUnits + 2
  /\ MaxSessions \in Nat /\ MaxMsgs \in Nat /\ MaxUnits \in Nat

VARIABLES
  sess,       \* number of the session, 0 before the first
  up,         \* the inner loop of main() runs
  done,       \* its exit flag
  connected,  \* set by telnet_connected, cleared when the loop is left
  tstate,     \* tstate points to the connection's telnet_state
  tcp,        \* uip_conn->tcpstateflags
  iss,        \* the initial sequence number the connection took
  snd_nxt, rcv_nxt, len, nrtx, initialmss, mss,   \* fields of uip_conn
  out,        \* telnet_state and serv_msg_buf, with their history
  delivered,  \* history: the server's lines handed to telnet_newdata
  srv,        \* the server's end
  c2s, s2c    \* every segment sent in each direction

conn == <<tcp, iss, snd_nxt, rcv_nxt, len, nrtx, initialmss, mss>>
loop == <<sess, up, done, connected, tstate>>
net  == <<c2s, s2c>>
vars == <<loop, conn, out, delivered, srv, net>>

Null   == -1
Byte   == Nat \X Nat     \* <<message, index in it>>
NoByte == <<0, 0>>       \* whatever else the memory holds

States == {"CLOSED", "SYN_SENT", "ESTABLISHED", "LAST_ACK"}

MinOf(a, b) == IF a < b THEN a ELSE b

-------------------------------------------------------------------------------
(***************************************************************************)
(* Segments.  A line of the server is one unit of data, and its segments   *)
(* carry no more than one.  win is the MSS option of a SYNACK, and the     *)
(* advertised window of every other segment.                               *)
(***************************************************************************)
FromClient ==
  [sess : Nat, kind : {"SYN", "ACK", "FIN", "RST"}, seq : Nat, ack : Nat,
   data : Seq(Byte)]

FromServer ==
  [sess : Nat, kind : {"SYNACK", "ACK", "FIN", "RST"}, seq : Nat, ack : Nat,
   n : 0..1, win : Nat]

CSeg(k, s, a, d) == [sess |-> sess, kind |-> k, seq |-> s, ack |-> a, data |-> d]

-------------------------------------------------------------------------------
(***************************************************************************)
(* The telnet application: pure operators on the record out.               *)
(*   text, textlen, sentlen   the fields of struct telnet_state            *)
(*   buf                      serv_msg_buf, one buffer for every message   *)
(* and the history of the session:                                         *)
(*   stream   the bytes of the messages telnet_send accepted while the     *)
(*            connection was established                                   *)
(*   msgs     how many messages were written into buf                      *)
(*   harm     what happened that the design does not survive: buf was      *)
(*            rewritten under bytes still to be sent, the MSS changed under  *)
(*            a segment in flight, an ACK of an earlier session was taken    *)
(*            for one of this session                                        *)
(***************************************************************************)
Harms == {"rewritten", "mss", "staleAck"}

Harm(h, cond) == IF cond THEN {h} ELSE {}

Clean == out.harm = {}

Message(m, n) == [i \in 1..n |-> <<m, i>>]

WriteBuf(b, m, n) == [i \in 0..(BufSize - 1) |-> IF i < n THEN <<m, i + 1>> ELSE b[i]]

(* sprintf or memcpy into serv_msg_buf, then telnet_send: a message that   *)
(* finds another one pending is refused, but has already replaced its      *)
(* bytes in the buffer.                                                    *)
telnet_send(o, n) ==
  LET m    == o.msgs + 1
      free == tstate /\ o.text = Null
  IN  [o EXCEPT
         !.buf     = WriteBuf(o.buf, m, n),
         !.msgs    = m,
         !.text    = IF free THEN 0 ELSE o.text,
         !.textlen = IF free THEN n ELSE o.textlen,
         !.sentlen = IF free THEN 0 ELSE o.sentlen,
         !.stream  = IF free /\ tcp = "ESTABLISHED" THEN o.stream \o Message(m, n)
                                                   ELSE o.stream,
         !.harm    = o.harm \cup Harm("rewritten", o.text # Null /\ n > o.text)]

(* Mutant: an acknowledgment is taken for the whole message. *)
acked_Whole(o) ==
  [o EXCEPT !.text = Null, !.textlen = 0, !.sentlen = 0]

acked(o) ==
  LET left == o.textlen - o.sentlen
  IN  [o EXCEPT !.text    = IF left = 0 THEN Null ELSE o.text + o.sentlen,
                !.textlen = left,
                !.sentlen = 0]

(* Mutant: senddata without the comparison of textlen with the MSS. *)
senddata_NoClamp(o, m) ==
  [o EXCEPT !.sentlen = IF o.text = Null THEN o.sentlen ELSE m]

senddata(o, m) ==
  [o EXCEPT !.sentlen = IF o.text = Null THEN o.sentlen ELSE MinOf(m, o.textlen)]

(* uip_slen after senddata, and the bytes of a segment of n bytes when     *)
(* senddata copied only slen(o) of them into uip_buf.                      *)
slen(o) == IF o.text = Null THEN 0 ELSE o.sentlen

Payload(o, n) ==
  [i \in 1..n |-> IF i <= o.sentlen THEN o.buf[o.text + i - 1] ELSE NoByte]

(* The code after appsend: len is set by the first transmission only, and  *)
(* a retransmission has the length of the first one.                       *)
SentLen(o, l) == IF l = 0 THEN slen(o) ELSE l

Transmitted(o, l) ==
  [o EXCEPT !.harm = o.harm \cup Harm("mss", slen(o) \notin {0, SentLen(o, l)})]

(* The segment that leaves after the application was called: data if there *)
(* is any, a pure ACK if new data came in, else nothing.                   *)
Reply(o, l, seq, ack, newdata) ==
  IF slen(o) > 0 THEN {CSeg("ACK", seq, ack, Payload(o, SentLen(o, l)))}
  ELSE IF newdata THEN {CSeg("ACK", seq, ack, <<>>)}
  ELSE {}

-------------------------------------------------------------------------------
NoServer == [sess |-> 0, state |-> "CLOSED", cliIss |-> 0, rcv |-> <<>>, sent |-> 0]

Init ==
  /\ sess = 0 /\ up = FALSE /\ done = FALSE /\ connected = FALSE /\ tstate = FALSE
  /\ tcp = "CLOSED" /\ iss = 0
  /\ snd_nxt = 0 /\ rcv_nxt = 0 /\ len = 0 /\ nrtx = 0
  /\ initialmss = TcpMss /\ mss = TcpMss
  /\ out = [text |-> Null, textlen |-> 0, sentlen |-> 0,
            buf |-> [i \in 0..(BufSize - 1) |-> NoByte],
            stream |-> <<>>, msgs |-> 0, harm |-> {}]
  /\ delivered = <<>>
  /\ srv = NoServer
  /\ c2s = {} /\ s2c = {}

Running == up /\ ~done

-------------------------------------------------------------------------------
(***************************************************************************)
(* The main loop.                                                          *)
(***************************************************************************)

(* The prompt is answered: done = 0, uip_init() frees the slot.  The       *)
(* telnet_state, serv_msg_buf and rcv_nxt keep what the last session left. *)
StartSession ==
  /\ ~up /\ sess < MaxSessions
  /\ sess' = sess + 1 /\ up' = TRUE /\ done' = FALSE
  /\ tcp' = "CLOSED"
  /\ out' = [out EXCEPT !.stream = <<>>, !.harm = {}]
  /\ delivered' = <<>>
  /\ UNCHANGED <<connected, tstate, iss, snd_nxt, rcv_nxt, len, nrtx, initialmss,
                 mss, srv, net>>

(* uip_connect, from main() for an IP literal or from resolv_found.  iss   *)
(* has moved by one at every periodic call since the last connection.      *)
(* With its one slot free, uip_connect cannot fail.                        *)
Connect ==
  /\ Running /\ tcp = "CLOSED"
  /\ \E d \in IssSteps :
       /\ iss' = iss + d
       /\ snd_nxt' = iss + d
  /\ tcp' = "SYN_SENT"
  /\ len' = 1 /\ nrtx' = 0
  /\ initialmss' = TcpMss /\ mss' = TcpMss
  /\ UNCHANGED <<loop, rcv_nxt, out, delivered, srv, net>>

(* resolv_found without an address. *)
HostNotFound ==
  /\ Running /\ tcp = "CLOSED"
  /\ done' = TRUE
  /\ UNCHANGED <<sess, up, connected, tstate, conn, out, delivered, srv, net>>

(* A keystroke, ATRACT mode or the nick registration timer makes the       *)
(* client send a message.  The rest of the loop's iteration still runs     *)
(* after a callback has set done.                                          *)
UserSend ==
  /\ up /\ out.msgs < MaxMsgs
  /\ \E n \in MsgLengths : out' = telnet_send(out, n)
  /\ UNCHANGED <<loop, conn, delivered, srv, net>>

LeaveLoop ==
  /\ up /\ done
  /\ up' = FALSE /\ connected' = FALSE
  /\ UNCHANGED <<sess, done, tstate, conn, out, delivered, srv, net>>

-------------------------------------------------------------------------------
(***************************************************************************)
(* uip_periodic: the branch UIP_TIMER of uip_process.                      *)
(***************************************************************************)
GivesUp == nrtx = MaxRtx \/ (tcp = "SYN_SENT" /\ nrtx = MaxSynRtx)

TimerGivesUp ==
  /\ Running /\ tcp \in {"SYN_SENT", "ESTABLISHED"} /\ len > 0
  /\ GivesUp
  /\ tcp' = "CLOSED" /\ done' = TRUE
  /\ c2s' = c2s \cup {CSeg("RST", snd_nxt, rcv_nxt, <<>>)}
  /\ UNCHANGED <<sess, up, connected, tstate, iss, snd_nxt, rcv_nxt, len, nrtx,
                 initialmss, mss, out, delivered, srv, s2c>>

(* Mutant: a retransmission does not count. *)
TimerRexmit_NoCount ==
  /\ Running /\ tcp = "ESTABLISHED" /\ len > 0
  /\ ~GivesUp
  /\ LET o == senddata(out, mss) IN
       /\ out' = Transmitted(o, len)
       /\ c2s' = c2s \cup Reply(o, len, snd_nxt, rcv_nxt, FALSE)
  /\ UNCHANGED <<loop, conn, delivered, srv, s2c>>

TimerSyn ==
  /\ Running /\ tcp = "SYN_SENT" /\ len > 0
  /\ ~GivesUp
  /\ nrtx' = nrtx + 1
  /\ c2s' = c2s \cup {CSeg("SYN", snd_nxt, 0, <<>>)}
  /\ UNCHANGED <<loop, tcp, iss, snd_nxt, rcv_nxt, len, initialmss, mss, out,
                 delivered, srv, s2c>>

TimerRexmit ==
  /\ Running /\ tcp = "ESTABLISHED" /\ len > 0
  /\ ~GivesUp
  /\ nrtx' = nrtx + 1
  /\ LET o == senddata(out, mss) IN
       /\ out' = Transmitted(o, len)
       /\ c2s' = c2s \cup Reply(o, len, snd_nxt, rcv_nxt, FALSE)
  /\ UNCHANGED <<loop, tcp, iss, snd_nxt, rcv_nxt, len, initialmss, mss,
                 delivered, srv, s2c>>

TimerPoll ==
  /\ Running /\ tcp = "ESTABLISHED" /\ len = 0
  /\ LET o == senddata(out, mss) IN
       /\ out' = Transmitted(o, len)
       /\ len' = SentLen(o, len)
       /\ c2s' = c2s \cup Reply(o, len, snd_nxt, rcv_nxt, FALSE)
  /\ nrtx' = 0
  /\ UNCHANGED <<loop, tcp, iss, snd_nxt, rcv_nxt, initialmss, mss, delivered,
                 srv, s2c>>

-------------------------------------------------------------------------------
(***************************************************************************)
(* uip_input: the arrival of segment m.                                    *)
(***************************************************************************)

(* No slot matches: anything but a RST or a SYN is answered with a RST.    *)
RecvNoConn(m) ==
  /\ Running /\ tcp = "CLOSED"
  /\ m.kind # "RST"
  /\ c2s' = c2s \cup {CSeg("RST", m.ack, m.seq + 1, <<>>)}
  /\ UNCHANGED <<loop, conn, out, delivered, srv, s2c>>

(* Any RST is believed; the application is told, which leaves the loop.    *)
RecvRst(m) ==
  /\ Running /\ tcp # "CLOSED"
  /\ m.kind = "RST"
  /\ tcp' = "CLOSED" /\ done' = TRUE
  /\ UNCHANGED <<sess, up, connected, tstate, iss, snd_nxt, rcv_nxt, len, nrtx,
                 initialmss, mss, out, delivered, srv, net>>

HandshakeReply(m) == tcp = "SYN_SENT" /\ m.kind = "SYNACK"

(* Mutant: only new sequence numbers are out of order. *)
OutOfOrder_NewOnly(m) ==
  /\ ~HandshakeReply(m)
  /\ m.n > 0 \/ m.kind \in {"SYNACK", "FIN"}
  /\ m.seq > rcv_nxt

(* Sequence numbers are compared for data, SYN and FIN, and the SYNACK we  *)
(* wait for is exempt.                                                     *)
OutOfOrder(m) ==
  /\ ~HandshakeReply(m)
  /\ m.n > 0 \/ m.kind \in {"SYNACK", "FIN"}
  /\ m.seq # rcv_nxt

Accepts(m) == Running /\ tcp # "CLOSED" /\ m.kind # "RST" /\ ~OutOfOrder(m)

(* Mutant: every acknowledgment counts while something is outstanding. *)
AcksData_Any(m) == len > 0

AcksData(m) == len > 0 /\ m.ack = snd_nxt + len

RecvOutOfOrder(m) ==
  /\ Running /\ tcp # "CLOSED"
  /\ m.kind # "RST" /\ OutOfOrder(m)
  /\ c2s' = c2s \cup {CSeg("ACK", snd_nxt, rcv_nxt, <<>>)}
  /\ UNCHANGED <<loop, conn, out, delivered, srv, s2c>>

(* Mutant: telnet_connected without s->text = NULL. *)
RecvSynAck_KeepsText(m) ==
  /\ Accepts(m) /\ HandshakeReply(m) /\ AcksData(m)
  /\ tcp' = "ESTABLISHED"
  /\ snd_nxt' = snd_nxt + len /\ rcv_nxt' = m.seq + 1
  /\ len' = 0 /\ nrtx' = 0
  /\ initialmss' = MinOf(m.win, TcpMss) /\ mss' = MinOf(m.win, TcpMss)
  /\ tstate' = TRUE /\ connected' = TRUE
  /\ c2s' = c2s \cup {CSeg("ACK", snd_nxt', rcv_nxt', <<>>)}
  /\ UNCHANGED <<sess, up, done, iss, out, delivered, srv, s2c>>

(* SYN_SENT, and the SYNACK acknowledges our SYN: telnet_connected empties *)
(* the telnet_state, whatever was waiting in it.                           *)
RecvSynAck(m) ==
  /\ Accepts(m) /\ HandshakeReply(m) /\ AcksData(m)
  /\ tcp' = "ESTABLISHED"
  /\ snd_nxt' = snd_nxt + len /\ rcv_nxt' = m.seq + 1
  /\ len' = 0 /\ nrtx' = 0
  /\ initialmss' = MinOf(m.win, TcpMss) /\ mss' = MinOf(m.win, TcpMss)
  /\ tstate' = TRUE /\ connected' = TRUE
  /\ out' = [out EXCEPT !.text = Null, !.textlen = 0, !.harm = {}]
  /\ c2s' = c2s \cup {CSeg("ACK", snd_nxt', rcv_nxt', <<>>)}
  /\ UNCHANGED <<sess, up, done, iss, delivered, srv, s2c>>

(* SYN_SENT, and anything else gets here: the attempt is given up and a    *)
(* RST is sent.  The acknowledgment has been processed by then.            *)
RecvAbort(m) ==
  /\ Accepts(m) /\ tcp = "SYN_SENT"
  /\ ~(HandshakeReply(m) /\ AcksData(m))
  /\ tcp' = "CLOSED" /\ done' = TRUE
  /\ snd_nxt' = IF AcksData(m) THEN snd_nxt + len ELSE snd_nxt
  /\ len'     = IF AcksData(m) THEN 0 ELSE len
  /\ c2s' = c2s \cup {CSeg("RST", m.ack, m.seq + 1, <<>>)}
  /\ UNCHANGED <<sess, up, connected, tstate, iss, rcv_nxt, nrtx, initialmss, mss,
                 out, delivered, srv, s2c>>

(* ESTABLISHED, a FIN, and nothing of ours outstanding.  telnet_closed     *)
(* calls uip_close(), which overwrites the flags: data or an ACK that came *)
(* with the FIN never reaches the application.  A FIN that finds data      *)
(* outstanding is dropped.                                                 *)
RecvFin(m) ==
  /\ Accepts(m) /\ tcp = "ESTABLISHED" /\ m.kind = "FIN"
  /\ len = 0 \/ AcksData(m)
  /\ snd_nxt' = snd_nxt + len
  /\ rcv_nxt' = rcv_nxt + 1 + m.n
  /\ len' = 1 /\ nrtx' = 0 /\ tcp' = "LAST_ACK" /\ done' = TRUE
  /\ c2s' = c2s \cup {CSeg("FIN", snd_nxt', rcv_nxt', <<>>)}
  /\ UNCHANGED <<sess, up, connected, tstate, iss, initialmss, mss, out, delivered,
                 srv, s2c>>

(* ESTABLISHED: the window of a segment limits the MSS from here on; zero  *)
(* and large windows mean the initial one.                                 *)
NewMss(m) == IF m.win > initialmss \/ m.win = 0 THEN initialmss ELSE m.win

RecvWindow(m) ==
  /\ Accepts(m) /\ tcp = "ESTABLISHED" /\ m.kind # "FIN"
  /\ m.n = 0 /\ ~AcksData(m)
  /\ mss' = NewMss(m)
  /\ UNCHANGED <<loop, tcp, iss, snd_nxt, rcv_nxt, len, nrtx, initialmss, out,
                 delivered, srv, net>>

(* ESTABLISHED, new data or an ACK of ours: telnet_app calls acked, then   *)
(* telnet_newdata, in which a line may be answered by a message (PONG,     *)
(* CTCP replies, JOIN after the MOTD), then senddata, and the result is    *)
(* sent.                                                                   *)
Answered(m, o) ==
  {o} \cup IF m.n > 0 /\ o.msgs < MaxMsgs THEN {telnet_send(o, n) : n \in MsgLengths} ELSE {}

AfterAck(m) ==
  IF AcksData(m)
  THEN [acked(out) EXCEPT !.harm = out.harm \cup Harm("staleAck", m.sess # sess)
                                          \cup Harm("mss", out.sentlen # len)]
  ELSE out

RecvData(m) ==
  /\ Accepts(m) /\ tcp = "ESTABLISHED" /\ m.kind # "FIN"
  /\ m.n > 0 \/ AcksData(m)
  /\ snd_nxt' = IF AcksData(m) THEN snd_nxt + len ELSE snd_nxt
  /\ rcv_nxt' = rcv_nxt + m.n
  /\ mss' = NewMss(m)
  /\ delivered' = IF m.n > 0 THEN Append(delivered, <<m.sess, m.seq>>) ELSE delivered
  /\ \E p \in Answered(m, AfterAck(m)) :
       LET o == senddata(p, mss')
           l == IF AcksData(m) THEN 0 ELSE len
       IN  /\ out' = Transmitted(o, l)
           /\ len' = SentLen(o, l)
           /\ c2s' = c2s \cup Reply(o, l, snd_nxt', rcv_nxt', m.n > 0)
  /\ nrtx' = 0
  /\ UNCHANGED <<loop, tcp, iss, initialmss, srv, s2c>>

-------------------------------------------------------------------------------
(***************************************************************************)
(* The server (external).                                                  *)
(***************************************************************************)
SrvIss == srv.sess * SrvGap
SrvNext == srv.cliIss + 1 + Len(srv.rcv)

SSeg(k, n, w) ==
  [sess |-> srv.sess, kind |-> k, seq |-> SrvIss + 1 + srv.sent, ack |-> SrvNext,
   n |-> n, win |-> w]

SrvUnchanged == UNCHANGED <<loop, conn, out, delivered>>

SrvSyn(m) ==
  /\ m.kind = "SYN" /\ m.sess > srv.sess
  /\ srv' = [sess |-> m.sess, state |-> "SYNRCVD", cliIss |-> m.seq, rcv |-> <<>>,
             sent |-> 0]
  /\ \E w \in Windows \ {0} :
       s2c' = s2c \cup {[sess |-> m.sess, kind |-> "SYNACK", seq |-> m.sess * SrvGap,
                         ack |-> m.seq + 1, n |-> 0, win |-> w]}
  /\ UNCHANGED c2s /\ SrvUnchanged

(* A segment of its own session: data in order is taken, and any data is   *)
(* acknowledged, with any window.                                          *)
SrvRecv(m) ==
  /\ m.kind = "ACK" /\ m.sess = srv.sess /\ srv.state # "CLOSED"
  /\ srv' = [srv EXCEPT !.state = IF @ = "SYNRCVD" THEN "OPEN" ELSE @,
                        !.rcv = IF m.seq = SrvNext THEN @ \o m.data ELSE @]
  /\ IF m.data = <<>>
     THEN UNCHANGED s2c
     ELSE \E w \in Windows : s2c' = s2c \cup {[SSeg("ACK", 0, w) EXCEPT !.ack = SrvNext']}
  /\ UNCHANGED c2s /\ SrvUnchanged

SrvLine ==
  /\ srv.state = "OPEN" /\ srv.sent < MaxUnits
  /\ \E w \in Windows : s2c' = s2c \cup {SSeg("ACK", 1, w)}
  /\ srv' = [srv EXCEPT !.sent = @ + 1]
  /\ UNCHANGED c2s /\ SrvUnchanged

(* The server has no more to say; its last line may ride on the FIN.  It   *)
(* goes on taking data, or resets the connection.                          *)
SrvClose ==
  /\ srv.state = "OPEN"
  /\ \E n \in 0..1, w \in Windows :
       /\ srv.sent + n <= MaxUnits
       /\ s2c' = s2c \cup {SSeg("FIN", n, w)}
       /\ srv' = [srv EXCEPT !.state = "FINISHED", !.sent = @ + n]
  /\ UNCHANGED c2s /\ SrvUnchanged

SrvReset ==
  /\ srv.state # "CLOSED"
  /\ s2c' = s2c \cup {SSeg("RST", 0, 0)}
  /\ srv' = [srv EXCEPT !.state = "CLOSED"]
  /\ UNCHANGED c2s /\ SrvUnchanged

-------------------------------------------------------------------------------
Timer == TimerGivesUp \/ TimerSyn \/ TimerRexmit \/ TimerPoll

Receive(m) ==
  \/ RecvNoConn(m) \/ RecvRst(m) \/ RecvOutOfOrder(m)
  \/ RecvSynAck(m) \/ RecvAbort(m) \/ RecvFin(m) \/ RecvWindow(m) \/ RecvData(m)

Client ==
  \/ StartSession \/ Connect \/ HostNotFound \/ UserSend \/ LeaveLoop \/ Timer
  \/ \E m \in s2c : Receive(m)

Server ==
  \/ \E m \in c2s : SrvSyn(m) \/ SrvRecv(m)
  \/ SrvLine \/ SrvClose \/ SrvReset

Next == Client \/ Server

Spec == Init /\ [][Next]_vars

(* The loop of main() runs as long as it is up, and the periodic timer     *)
(* expires again and again.  Nothing is assumed of the network, the server *)
(* or the user.                                                            *)
Fairness == WF_vars(Timer) /\ WF_vars(LeaveLoop)

FairSpec == Spec /\ Fairness

-------------------------------------------------------------------------------
(***************************************************************************)
(* Properties.                                                             *)
(***************************************************************************)

OutState ==
  [text : {Null} \cup 0..BufSize, textlen : 0..BufSize, sentlen : 0..BufSize,
   buf : [0..(BufSize - 1) -> Byte], stream : Seq(Byte), msgs : Nat,
   harm : SUBSET Harms]

OutOK(o) ==
  /\ o \in OutState
  /\ o.text # Null => /\ o.textlen > 0 /\ o.text + o.textlen <= BufSize
                      /\ o.sentlen <= o.textlen

LoopOK ==
  /\ up \in BOOLEAN /\ done \in BOOLEAN /\ connected \in BOOLEAN /\ tstate \in BOOLEAN
  /\ tcp \in States

ConnOK ==
  /\ sess \in 0..MaxSessions
  /\ iss \in Nat /\ snd_nxt \in Nat /\ rcv_nxt \in Nat
  /\ len \in 0..BufSize /\ nrtx \in Nat
  /\ initialmss \in 1..TcpMss /\ mss \in 1..TcpMss

ServerState ==
  [sess : Nat, state : {"CLOSED", "SYNRCVD", "OPEN", "FINISHED"}, cliIss : Nat,
   rcv : Seq(Byte), sent : Nat]

(* The type of every variable.  In particular the pointer arithmetic of    *)
(* telnet.c stays inside serv_msg_buf and textlen never wraps.             *)
TypeOK ==
  /\ LoopOK /\ ConnOK /\ OutOK(out)
  /\ delivered \in Seq(Nat \X Nat)
  /\ srv \in ServerState
  /\ c2s \subseteq FromClient /\ s2c \subseteq FromServer

(* What this session's server end has received. *)
Received == IF srv.sess = sess THEN srv.rcv ELSE <<>>

(* How much of stream the connection holds for acknowledged. *)
Una == snd_nxt - iss - 1

PrefixOf(s, t) == Len(s) <= Len(t) /\ \A i \in 1..Len(s) : s[i] = t[i]

(* As long as nothing of the three departures happened (out.harm), the     *)
(* server receives the bytes of the accepted messages: in order, none      *)
(* missing, none twice, none of another message.                           *)
StreamIntact == Clean => PrefixOf(Received, out.stream)

(* What acked() dropped from the send buffer has arrived at the server.    *)
AckedIsReceived ==
  Clean /\ tcp = "ESTABLISHED" => Una <= Len(Received)

(* telnet.c and uIP agree on what is in flight: sentlen, by which acked()  *)
(* moves on, is the length uIP waits an acknowledgment for, and nothing is *)
(* in flight without a message pending in the application.                 *)
SentlenIsLen ==
  tcp = "ESTABLISHED" /\ len > 0 => out.text # Null /\ (Clean => out.sentlen = len)

(* uip.h asks the application to send the exact same data again when uIP   *)
(* asks for a retransmission: two segments of a session with the same      *)
(* sequence number carry the same bytes.                                   *)
SameDataAgain ==
  \A m1, m2 \in c2s :
    m1.sess = m2.sess /\ m1.seq = m2.seq /\ m1.data # <<>> /\ m2.data # <<>>
      => m1.data = m2.data

(* Stop and wait: telnet.c, uIP and the server agree on what is in flight  *)
(* and on what has arrived.                                                *)
StopAndWait == AckedIsReceived /\ SentlenIsLen

(* A connection is only ever established with the server end that answered *)
(* this session's SYN: a SYNACK left over from an earlier session, which   *)
(* had the same ports, is never taken for it.                              *)
FreshHandshake == tcp = "ESTABLISHED" => srv.sess = sess /\ srv.cliIss = iss

(* While the connection is established, the lines handed to              *)
(* telnet_newdata are this session's, in the order the server sent them,   *)
(* none skipped and none twice, and they are exactly the ones acknowledged *)
(* to the server.                                                          *)
LinesInOrder ==
  tcp = "ESTABLISHED" =>
    /\ Len(delivered) <= srv.sent
    /\ \A i \in 1..Len(delivered) : delivered[i] = <<sess, sess * SrvGap + i>>
    /\ rcv_nxt = sess * SrvGap + 1 + Len(delivered)

(* What a session sees of its server is of this session: the handshake,    *)
(* and every line that follows it.                                         *)
ThisSession == FreshHandshake /\ LinesInOrder

(* uip_newdata() tells the application of every piece of new data: when    *)
(* the server has closed too, each line acknowledged to it has been handed *)
(* to telnet_newdata.                                                      *)
AckedLinesDelivered ==
  connected /\ tcp = "LAST_ACK" => rcv_nxt = sess * SrvGap + 2 + Len(delivered)

(* A clean connection keeps the promise of MessageChannel: refinement,     *)
(* with a pending message of the established connection as busy.  Every    *)
(* step that none of the departures precedes is a step of MessageChannel,  *)
(* over all sessions.                                                      *)
Promise == INSTANCE MessageChannel WITH
             open <- tcp = "ESTABLISHED",
             busy <- tcp = "ESTABLISHED" /\ out.text # Null,
             sent <- out.stream,
             got  <- Received

KeepsPromise ==
  Promise!Init /\ [][Clean' => Promise!Next \/ UNCHANGED Promise!cvars]_vars

(* A message telnet_send accepted is acknowledged in full, or the session  *)
(* ends: the pending message cannot wedge the connection.                  *)
PendingEnds == (connected /\ out.text # Null) ~> (out.text = Null \/ ~up)

(* uip_connect is answered or given up: the client does not wait in        *)
(* SYN_SENT forever.                                                       *)
ConnectEnds == (up /\ tcp = "SYN_SENT") ~> (tcp = "ESTABLISHED" \/ ~up)

(* Neither the user who connects nor the one who has sent waits forever.   *)
WaitsEnd == PendingEnds /\ ConnectEnds
===============================================================================
