-------------------------------- MODULE UipTcp --------------------------------
(***************************************************************************)
(* The TCP of uip/uip/uip.c in full: two hosts that both run it, with      *)
(* LISTEN, SYN_RCVD and the whole way from uip_close to CLOSED.  FujiChat  *)
(* itself only opens actively (TelnetConn); the server programs of         *)
(* uip/apps need the rest.                                                 *)
(*                                                                         *)
(* A segment may be lost, repeated or overtaken by any other.  Each host   *)
(* has one entry of uip_conns; windows, MSS, urgent data and ports are     *)
(* abstracted, a timer may run out at any periodic call, and numbers do    *)
(* not wrap.  What the applications do is open, but they send again what   *)
(* was not acknowledged, as uip.h demands.                                 *)
(***************************************************************************)
EXTENDS Naturals, SequencesExt

CONSTANTS
  Calls,       \* what the applications may do: of "close", "abort" and "stop"
  SendMax,     \* most bytes an application hands over at once
  BytesMax,    \* bound: bytes each application hands over in all
  RtxMax,      \* UIP_MAXRTX and UIP_MAXSYNRTX
  IssGap,      \* distance of the server's initial sequence numbers
  IncMax,      \* bound: connections the server accepts
  DupMax       \* bound: segments the network repeats

ASSUME TcpAssumption ==
  /\ Calls \subseteq {"close", "abort", "stop"}
  /\ {SendMax, RtxMax, IncMax} \subseteq Nat \ {0}
  /\ DupMax \in Nat /\ BytesMax \in [{"client", "server"} -> Nat]
  /\ IssGap \in Nat /\ IssGap > BytesMax["client"] + BytesMax["server"] + 2

VARIABLES
  conn,       \* the uip_conn of each host, and what its application knows
  wire,       \* the segments on their way; one that never arrives is lost
  dups,       \* how many were repeated
  closedEarly \* history: uip_close was called with bytes outstanding

tcpVars == <<conn, wire, dups, closedEarly>>

Host == {"client", "server"}
Peer(h) == IF h = "client" THEN "server" ELSE "client"

(* A byte is numbered by its application.  heard is what the application   *)
(* was last told of the connection; left, that it gave it up itself.       *)
Conn ==
  [st : {"CLOSED", "SYN_SENT", "SYN_RCVD", "ESTABLISHED", "FIN_WAIT_1", "FIN_WAIT_2",
         "CLOSING", "TIME_WAIT", "LAST_ACK"},
   snd : Nat, rcv : Nat, len : 0..SendMax, nrtx : 0..RtxMax, stopped : BOOLEAN,
   sent : Seq(Nat), got : Seq(Nat), heard : {"nothing", "open", "closed", "broken"},
   left : BOOLEAN, inc : 0..IncMax]

Segment(h, c, kind, data) ==
  [to |-> Peer(h), kind |-> kind, seq |-> c.snd, ack |-> c.rcv, data |-> data]

(* The outstanding bytes. *)
Unacked(c) == SubSeq(c.sent, Len(c.sent) - c.len + 1, Len(c.sent))

Fresh(state, iss, ack, inc) ==
  [st |-> state, snd |-> iss, rcv |-> ack, len |-> 1, nrtx |-> 0, stopped |-> FALSE,
   sent |-> <<>>, got |-> <<>>, heard |-> "nothing", left |-> FALSE, inc |-> inc]

(* What a step of host h does: its connection becomes c, the segments used *)
(* are gone, and others are sent.                                          *)
Becomes(h, c, used, segs) ==
  conn' = [conn EXCEPT ![h] = c] /\ wire' = (wire \ used) \cup segs

Closed(c) == [c EXCEPT !.st = "CLOSED", !.stopped = FALSE]

TcpInit ==
  /\ conn = [h \in Host |-> [Fresh("CLOSED", 0, 0, 0) EXCEPT !.len = 0]]
  /\ wire = {} /\ dups = 0 /\ closedEarly = FALSE

uip_connect ==
  /\ conn["client"].inc = 0
  /\ Becomes("client", Fresh("SYN_SENT", 0, 0, 1), {}, {})
  /\ UNCHANGED closedEarly

-------------------------------------------------------------------------------
(***************************************************************************)
(* appsend: the application has been called, and this is what it wants.    *)
(* news says that its segment must be acknowledged in any case.            *)
(***************************************************************************)

(* Mutant: the FIN waits for its acknowledgment like data, without a       *)
(* length of its own.                                                      *)
uip_close_NoLen(h, c, used) ==
  LET f == [c EXCEPT !.st = "FIN_WAIT_1", !.stopped = FALSE, !.nrtx = 0, !.left = TRUE]
  IN  Becomes(h, f, used, {Segment(h, f, "FIN", <<>>)}) /\ UNCHANGED closedEarly

(* The FIN takes the place of whatever is outstanding. *)
uip_close(h, c, used) ==
  LET f == [c EXCEPT !.st = "FIN_WAIT_1", !.stopped = FALSE, !.len = 1, !.nrtx = 0, !.left = TRUE]
  IN  /\ Becomes(h, f, used, {Segment(h, f, "FIN", <<>>)})
      /\ closedEarly' = (closedEarly \/ c.len > 0)

uip_abort(h, c, used) ==
  LET a == [Closed(c) EXCEPT !.left = TRUE]
  IN  Becomes(h, a, used, {Segment(h, a, "RST", <<>>)}) /\ UNCHANGED closedEarly

(* n bytes are handed over; or, with n = 0, none, or the outstanding ones  *)
(* once more.                                                              *)
uip_send(h, c, used, n) ==
  LET s == [c EXCEPT !.sent = @ \o [i \in 1..n |-> Len(c.sent) + i],
                     !.len = IF n > 0 THEN n ELSE @, !.nrtx = 0]
  IN  /\ n > 0 => c.len = 0 /\ Len(c.sent) + n <= BytesMax[h]
      /\ Becomes(h, s, used, {Segment(h, s, "ACK", Unacked(s))})

Quiet(h, c, used, news) ==
  LET q == [c EXCEPT !.nrtx = 0]
  IN  Becomes(h, q, used, IF news THEN {Segment(h, q, "ACK", <<>>)} ELSE {})

appsend(h, c, used, news) ==
  \/ "close" \in Calls /\ uip_close(h, c, used)
  \/ "abort" \in Calls /\ uip_abort(h, c, used)
  \/ /\ UNCHANGED closedEarly
     /\ \/ \E n \in 0..SendMax : n + c.len > 0 /\ uip_send(h, c, used, n)
        \/ Quiet(h, c, used, news)
        \/ "stop" \in Calls /\ ~c.stopped /\ Quiet(h, [c EXCEPT !.stopped = TRUE], used, news)
        \/ c.stopped /\ Quiet(h, [c EXCEPT !.stopped = FALSE], used, TRUE)

-------------------------------------------------------------------------------
(***************************************************************************)
(* uip_process with UIP_TIMER.                                             *)
(***************************************************************************)
Waits(h) ==
  /\ conn[h].st \in {"FIN_WAIT_2", "TIME_WAIT"}
  /\ Becomes(h, Closed(conn[h]), {}, {}) /\ UNCHANGED closedEarly

TimesOut(h) ==
  /\ conn[h].st # "CLOSED" /\ conn[h].len > 0 /\ conn[h].nrtx = RtxMax
  /\ LET c == [Closed(conn[h]) EXCEPT !.heard = "broken"]
     IN  Becomes(h, c, {}, {Segment(h, c, "RST", <<>>)})
  /\ UNCHANGED closedEarly

(* Mutant: a retransmission of a FIN is not counted. *)
Rexmit_FinForever(h) ==
  /\ conn[h].st # "CLOSED" /\ conn[h].len > 0 /\ conn[h].nrtx < RtxMax
  /\ LET c == [conn[h] EXCEPT !.nrtx = IF conn[h].st \in {"FIN_WAIT_1", "CLOSING", "LAST_ACK"}
                                       THEN @ ELSE @ + 1]
         kind == CASE c.st = "SYN_SENT" -> "SYN"
                   [] c.st = "SYN_RCVD" -> "SYNACK"
                   [] c.st = "ESTABLISHED" -> "ACK"
                   [] c.st \in {"FIN_WAIT_1", "CLOSING", "LAST_ACK"} -> "FIN"
     IN  Becomes(h, c, {}, {Segment(h, c, kind, IF kind = "ACK" THEN Unacked(c) ELSE <<>>)})
  /\ UNCHANGED closedEarly

(* In ESTABLISHED the application sends again what it has sent; whatever   *)
(* else it wants is not looked at.                                         *)
Rexmit(h) ==
  /\ conn[h].st # "CLOSED" /\ conn[h].len > 0 /\ conn[h].nrtx < RtxMax
  /\ LET c    == [conn[h] EXCEPT !.nrtx = @ + 1]
         kind == CASE c.st = "SYN_SENT" -> "SYN"
                   [] c.st = "SYN_RCVD" -> "SYNACK"
                   [] c.st = "ESTABLISHED" -> "ACK"
                   [] c.st \in {"FIN_WAIT_1", "CLOSING", "LAST_ACK"} -> "FIN"
     IN  Becomes(h, c, {}, {Segment(h, c, kind, IF kind = "ACK" THEN Unacked(c) ELSE <<>>)})
  /\ UNCHANGED closedEarly

Poll(h) == conn[h].st = "ESTABLISHED" /\ conn[h].len = 0 /\ appsend(h, conn[h], {}, FALSE)

Periodic(h) == (Waits(h) \/ TimesOut(h) \/ Rexmit(h)) /\ UNCHANGED dups

-------------------------------------------------------------------------------
(***************************************************************************)
(* uip_process with UIP_DATA: a segment m for host h, whose connection is  *)
(* c, or a once m's acknowledgment has been taken.                         *)
(***************************************************************************)
Acks(c, m) == m.kind # "SYN" /\ c.len > 0 /\ m.ack = c.snd + c.len

AfterAck(c, m) == IF Acks(c, m) THEN [c EXCEPT !.snd = @ + c.len, !.len = 0] ELSE c

Reset(m) ==
  [to |-> Peer(m.to), kind |-> "RST", seq |-> m.ack, ack |-> m.seq + 1, data |-> <<>>]

(* No connection: the server takes a SYN, and everything else is answered  *)
(* with a RST, but a RST.                                                  *)
RecvReset(h, m, u) ==
  /\ conn[h].st = "CLOSED" /\ m.kind # "RST" /\ (h = "client" \/ m.kind # "SYN")
  /\ wire' = (wire \ u) \cup {Reset(m)}
  /\ UNCHANGED <<conn, closedEarly>>

RecvListen(h, m, u) ==
  /\ h = "server" /\ conn[h].st = "CLOSED" /\ m.kind = "SYN" /\ conn[h].inc < IncMax
  /\ LET c == Fresh("SYN_RCVD", IssGap * (conn[h].inc + 1), m.seq + 1, conn[h].inc + 1)
     IN  Becomes(h, c, u, {Segment(h, c, "SYNACK", <<>>)})
  /\ UNCHANGED closedEarly

(* Any RST is believed. *)
RecvRst(h, m, u) ==
  /\ conn[h].st # "CLOSED" /\ m.kind = "RST"
  /\ Becomes(h, [Closed(conn[h]) EXCEPT !.heard = "broken"], u, {}) /\ UNCHANGED closedEarly

(* The sequence number is the one expected, or does not matter. *)
Expected(c, m) ==
  \/ c.st = "SYN_SENT" /\ m.kind = "SYNACK"
  \/ m.kind = "ACK" /\ m.data = <<>>
  \/ m.kind # "RST" /\ m.seq = c.rcv

RecvOutOfOrder(h, m, u) ==
  /\ conn[h].st # "CLOSED" /\ m.kind # "RST" /\ ~Expected(conn[h], m)
  /\ Becomes(h, conn[h], u, {Segment(h, conn[h], "ACK", <<>>)}) /\ UNCHANGED closedEarly

Received(h, m, states) ==
  conn[h].st \in states /\ m.kind # "RST" /\ Expected(conn[h], m)

Deliver(c, m) == [c EXCEPT !.rcv = @ + Len(m.data), !.got = @ \o m.data]

(* Mutant: every segment in order opens the connection. *)
RecvSynRcvd_AnyAck(h, m, u) ==
  /\ Received(h, m, {"SYN_RCVD"})
  /\ appsend(h, [Deliver(conn[h], m) EXCEPT !.st = "ESTABLISHED", !.heard = "open",
                                             !.snd = @ + 1, !.len = 0], u,
             m.data # <<>>)

RecvSynRcvd(h, m, u) ==
  /\ Received(h, m, {"SYN_RCVD"}) /\ Acks(conn[h], m)
  /\ appsend(h, [Deliver(AfterAck(conn[h], m), m) EXCEPT !.st = "ESTABLISHED", !.heard = "open"], u,
             m.data # <<>>)

(* What is not a SYNACK for the SYN ends the attempt. *)
RecvSynSent(h, m, u) ==
  /\ Received(h, m, {"SYN_SENT"})
  /\ IF m.kind = "SYNACK" /\ Acks(conn[h], m)
     THEN appsend(h, [AfterAck(conn[h], m) EXCEPT !.st = "ESTABLISHED", !.heard = "open",
                                                  !.rcv = m.seq + 1], u, TRUE)
     ELSE /\ Becomes(h, [Closed(conn[h]) EXCEPT !.heard = "broken"], u,
                     {Reset(m)})
          /\ UNCHANGED closedEarly

(* A FIN is dropped while data is outstanding; otherwise the application   *)
(* is told, and the connection closed as well.                             *)
RecvFin(h, m, u) ==
  /\ Received(h, m, {"ESTABLISHED"}) /\ m.kind = "FIN" /\ ~conn[h].stopped
  /\ LET a == AfterAck(conn[h], m)
         f == [a EXCEPT !.st = "LAST_ACK", !.rcv = @ + 1, !.len = 1, !.nrtx = 0, !.heard = "closed"]
     IN  IF a.len > 0 THEN Becomes(h, a, u, {}) ELSE Becomes(h, f, u, {Segment(h, f, "FIN", <<>>)})
  /\ UNCHANGED closedEarly

(* Mutant: a stopped connection takes data. *)
RecvData_Stopped(h, m, u) ==
  /\ Received(h, m, {"ESTABLISHED"}) /\ (m.kind # "FIN" \/ conn[h].stopped)
  /\ LET a    == AfterAck(conn[h], m)
         news == m.data # <<>>
     IN  IF Acks(conn[h], m) \/ news
         THEN appsend(h, IF news THEN [a EXCEPT !.got = @ \o m.data] ELSE a, u, news)
         ELSE Becomes(h, a, u, {}) /\ UNCHANGED closedEarly

(* New data, unless the connection is stopped, or an acknowledgment. *)
RecvData(h, m, u) ==
  /\ Received(h, m, {"ESTABLISHED"}) /\ (m.kind # "FIN" \/ conn[h].stopped)
  /\ LET a    == AfterAck(conn[h], m)
         news == m.data # <<>> /\ ~conn[h].stopped
     IN  IF Acks(conn[h], m) \/ news
         THEN appsend(h, IF news THEN Deliver(a, m) ELSE a, u, news)
         ELSE Becomes(h, a, u, {}) /\ UNCHANGED closedEarly

(* Mutant: whoever has closed still hears data. *)
Discard_Deliver(c, m) == Deliver(c, m)

(* Whoever has closed takes data no more, but acknowledges it. *)
Discard(c, m) == [c EXCEPT !.rcv = @ + Len(m.data)]

RecvFinWait1(h, m, u) ==
  /\ Received(h, m, {"FIN_WAIT_1"})
  /\ LET a == Discard(AfterAck(conn[h], m), m)
         f == [a EXCEPT !.rcv = @ + 1, !.heard = "closed",
                        !.st = IF a.len = 0 THEN "TIME_WAIT" ELSE "CLOSING"]
     IN  \/ m.kind = "FIN" /\ Becomes(h, f, u, {Segment(h, f, "ACK", <<>>)})
         \/ m.kind # "FIN" /\ a.len = 0 /\ Becomes(h, [a EXCEPT !.st = "FIN_WAIT_2"], u, {})
         \/ /\ m.kind # "FIN" /\ a.len > 0
            /\ Becomes(h, a, u, IF m.data = <<>> THEN {} ELSE {Segment(h, a, "ACK", <<>>)})
  /\ UNCHANGED closedEarly

RecvFinWait2(h, m, u) ==
  /\ Received(h, m, {"FIN_WAIT_2"})
  /\ LET a == Discard(conn[h], m)
         f == [a EXCEPT !.st = "TIME_WAIT", !.rcv = @ + 1, !.heard = "closed"]
     IN  \/ m.kind = "FIN" /\ Becomes(h, f, u, {Segment(h, f, "ACK", <<>>)})
         \/ /\ m.kind # "FIN"
            /\ Becomes(h, a, u, IF m.data = <<>> THEN {} ELSE {Segment(h, a, "ACK", <<>>)})
  /\ UNCHANGED closedEarly

RecvTimeWait(h, m, u) ==
  /\ Received(h, m, {"TIME_WAIT"})
  /\ Becomes(h, conn[h], u, {Segment(h, conn[h], "ACK", <<>>)}) /\ UNCHANGED closedEarly

RecvClosing(h, m, u) ==
  /\ Received(h, m, {"CLOSING"}) /\ Acks(conn[h], m)
  /\ Becomes(h, [AfterAck(conn[h], m) EXCEPT !.st = "TIME_WAIT"], u, {}) /\ UNCHANGED closedEarly

(* The application is told a second time. *)
RecvLastAck(h, m, u) ==
  /\ Received(h, m, {"LAST_ACK"}) /\ Acks(conn[h], m)
  /\ Becomes(h, [Closed(AfterAck(conn[h], m)) EXCEPT !.heard = "closed"], u, {})
  /\ UNCHANGED closedEarly

uip_input(h, m, u) ==
  \/ RecvReset(h, m, u) \/ RecvListen(h, m, u) \/ RecvRst(h, m, u) \/ RecvOutOfOrder(h, m, u)
  \/ RecvSynRcvd(h, m, u) \/ RecvSynSent(h, m, u) \/ RecvFin(h, m, u) \/ RecvData(h, m, u)
  \/ RecvFinWait1(h, m, u) \/ RecvFinWait2(h, m, u) \/ RecvTimeWait(h, m, u) \/ RecvClosing(h, m, u)
  \/ RecvLastAck(h, m, u)

TcpNext ==
  \/ \E h \in Host : Periodic(h)
  \/ (uip_connect \/ \E h \in Host : Poll(h)) /\ UNCHANGED dups
  \/ \E m \in wire :
       \/ uip_input(m.to, m, {m}) /\ UNCHANGED dups
       \/ dups < DupMax /\ dups' = dups + 1 /\ uip_input(m.to, m, {})

(* Both main loops go on calling uip_periodic. *)
TcpSpec == TcpInit /\ [][TcpNext]_tcpVars /\ \A h \in Host : WF_tcpVars(Periodic(h))

-------------------------------------------------------------------------------
(* The type of every variable, and len: a SYN or FIN of one's own counts   *)
(* as one byte, until it is acknowledged.                                  *)
TcpTypeOK ==
  /\ conn \in [Host -> Conn]
  /\ \A h \in Host :
       /\ conn[h].st \in {"SYN_SENT", "SYN_RCVD", "FIN_WAIT_1", "CLOSING", "LAST_ACK"} => conn[h].len = 1
       /\ conn[h].st \in {"FIN_WAIT_2", "TIME_WAIT"} => conn[h].len = 0
       /\ conn[h].stopped => conn[h].st = "ESTABLISHED"
  /\ dups \in 0..DupMax /\ closedEarly \in BOOLEAN

(* The client has taken the numbers of the server's present connection. *)
Paired == conn["client"].rcv > IssGap * conn["server"].inc

(* Through loss, repetition and reordering, stopping and closing, an       *)
(* application is given the bytes the other one sent, from the first on    *)
(* and in order.                                                           *)
BytesInOrder == Paired => \A h \in Host : IsPrefix(conn[h].got, conn[Peer(h)].sent)

(* Who is told that the other end closed, and has not given up itself, has *)
(* been given all the other sent.                                          *)
GotAll(h) == conn[h].heard = "closed" /\ ~conn[h].left => conn[h].got = conn[Peer(h)].sent

AllBeforeClose == Paired /\ ~closedEarly => \A h \in Host : GotAll(h)

(* Who has its FIN acknowledged can rely on the other application having   *)
(* been told: neither waits for the other.                                 *)
FinIsHeard ==
  Paired /\ ~closedEarly =>
    \A h \in Host : conn[h].st = "FIN_WAIT_2" => conn[Peer(h)].heard \in {"closed", "broken"}

(* A SYN that arrives once more, when its connection has gone, opens none: *)
(* the server's application only hears of a connection that the client has *)
(* entered, too.                                                           *)
NoGhost == conn["server"].heard \in {"open", "closed"} => Paired

(* Nobody loses a connection without being told, unless it gave it up.     *)
EndIsHeard == \A h \in Host : conn[h].st = "CLOSED" /\ conn[h].heard = "open" => conn[h].left

(* The bytes of a connection, up to its end. *)
DataIntact == BytesInOrder /\ AllBeforeClose

(* The two applications agree on whether there is a connection. *)
EndsAgree == NoGhost /\ FinIsHeard /\ EndIsHeard

(* The events of a connection come in order: data only while it is open    *)
(* and not given up, and nothing but its end once more after its end.      *)
EventsInOrder ==
  [][\A h \in Host : conn'[h].inc = conn[h].inc =>
       /\ conn'[h].got # conn[h].got => conn'[h].heard = "open" /\ ~conn[h].left
       /\ conn[h].heard = "open" => conn'[h].heard # "nothing"
       /\ conn[h].heard = "closed" => conn'[h].heard \in {"closed", "broken"}
       /\ conn[h].heard = "broken" => conn'[h].heard = "broken"]_tcpVars

(* What is being closed is closed in the end, whatever arrives. *)
ClosingEnds ==
  \A h \in Host :
    conn[h].st \in {"FIN_WAIT_1", "FIN_WAIT_2", "CLOSING", "TIME_WAIT", "LAST_ACK"}
      ~> conn[h].st = "CLOSED"

(* uip.h has it that uip_close closes the connection in a nice way: what   *)
(* was sent before arrives before the close.                               *)
CloseIsNice == Paired => \A h \in Host : GotAll(h)
===============================================================================
