----------------------------- MODULE UipTcp_proofs -----------------------------
(***************************************************************************)
(* UipTcp for all numbers of bytes, retransmissions, connections and       *)
(* repeated segments: the types; that the bytes arrive in order, up to the *)
(* close; that the applications agree on the connection; and the order of  *)
(* their events.                                                           *)
(***************************************************************************)
EXTENDS UipTcp, SequenceTheorems, TLAPS

(***************************************************************************)
(* The inductive invariant, as operators on the state: cs are the          *)
(* connections, e is closedEarly.  The bytes of a host are numbered from   *)
(* Base, which is the number of its SYN.                                   *)
(***************************************************************************)
Base(h, inc) == IF h = "client" THEN 0 ELSE IssGap * inc

SynSent == {"SYN_SENT", "SYN_RCVD"}
FinOut  == {"FIN_WAIT_1", "CLOSING", "LAST_ACK"}
FinDone == {"FIN_WAIT_2", "TIME_WAIT"}
Over    == FinOut \cup FinDone \cup {"CLOSED"}

Alive == {"ESTABLISHED"} \cup FinOut \cup FinDone

(* One connection: its state, the numbers and what the application was     *)
(* told fit each other.                                                    *)
Numbered(c) ==
  /\ \A i \in 1..Len(c.sent) : c.sent[i] = i
  /\ \A i \in 1..Len(c.got) : c.got[i] \in Nat

Sides(h, c) ==
  /\ h = "client" => c.st # "SYN_RCVD" /\ c.inc <= 1
  /\ h = "server" => c.st # "SYN_SENT"
  /\ c.inc = 0 => c.st = "CLOSED" /\ c.heard = "nothing" /\ c.rcv = 0 /\ c.sent = <<>> /\ c.got = <<>>
  /\ c.st = "SYN_SENT" => c.rcv = 0
  /\ c.st = "SYN_RCVD" => c.rcv = 1
  /\ h = "server" /\ c.inc > 0 => c.rcv > 0

Counts(c, b) ==
  /\ c.st \in SynSent => c.len = 1 /\ c.snd = b /\ c.sent = <<>> /\ c.got = <<>>
  /\ c.st = "ESTABLISHED" => c.len <= Len(c.sent) /\ c.snd + c.len = b + 1 + Len(c.sent)
  /\ c.st \in FinOut => c.len = 1 /\ b < c.snd /\ c.snd <= b + 1 + Len(c.sent)
  /\ c.st \in FinDone => c.len = 0 /\ b < c.snd /\ c.snd <= b + 2 + Len(c.sent)

Told(c) ==
  /\ c.st \in SynSent => c.heard = "nothing" /\ ~c.left
  /\ c.st = "ESTABLISHED" => c.heard = "open" /\ ~c.left
  /\ c.st \in {"FIN_WAIT_1", "FIN_WAIT_2"} => c.heard = "open" /\ c.left
  /\ c.st \in {"CLOSING", "TIME_WAIT"} => c.heard = "closed" /\ c.left
  /\ c.st = "LAST_ACK" => c.heard = "closed"
  /\ c.st = "CLOSED" /\ c.heard = "open" => c.left
  /\ c.stopped => c.st = "ESTABLISHED"

OwnOK(h, c, e) ==
  /\ c \in Conn /\ Numbered(c) /\ Sides(h, c) /\ Counts(c, Base(h, c.inc)) /\ Told(c)
  /\ Len(c.sent) <= BytesMax[h]
  /\ ~e /\ c.st \in FinOut => c.snd = Base(h, c.inc) + 1 + Len(c.sent)

(* The client is, or was last, connected to incarnation j of the server:   *)
(* what it expects next is a number of that one.                           *)
Joined(cs, j) ==
  /\ IssGap * j < cs["client"].rcv
  /\ cs["client"].rcv <= IssGap * j + BytesMax["server"] + 2

(* r has been given bytes of s from the first on; it expects the next one, *)
(* and no more than s has sent; and it hears of the end after all of them. *)
Follows(r, s, b, e) ==
  /\ Len(r.got) <= Len(s.sent) /\ \A i \in 1..Len(r.got) : r.got[i] = i
  /\ r.st = "ESTABLISHED" => r.rcv = b + 1 + Len(r.got)
  /\ r.heard \in {"nothing", "open"} => r.rcv <= b + 1 + Len(s.sent)
  /\ ~e /\ r.heard = "closed" /\ ~r.left => Len(r.got) = Len(s.sent) /\ s.st \in Over

Contact(cs, e) ==
  LET c == cs["client"]
      s == cs["server"]
  IN  /\ s.inc > 0 => c.inc = 1 /\ Follows(s, c, 0, e)
      /\ c.rcv = 0 \/ \E j \in 1..s.inc : Joined(cs, j)
      /\ c.st \in Alive => c.rcv > 0
      /\ s.st \in Alive \/ s.heard \in {"open", "closed"} \/ s.rcv > 1 => Joined(cs, s.inc)
      /\ Joined(cs, s.inc) => Follows(c, s, IssGap * s.inc, e)
      /\ Joined(cs, s.inc) /\ ~e => \A h \in Host : cs[h].st = "FIN_WAIT_2" =>
                                       cs[Peer(h)].heard \in {"closed", "broken"}

(* A segment m of host h, whose connection is c, that belongs to its       *)
(* incarnation j.                                                          *)
Within(h, m, j) ==
  LET b == Base(h, j)
  IN  /\ b <= m.seq /\ m.seq <= b + 2 + BytesMax[h]
      /\ m.kind \in {"SYN", "SYNACK"} => m.seq = b
      /\ m.kind = "SYN" => h = "client"
      /\ m.kind = "FIN" => b < m.seq /\ m.seq <= b + 1 + BytesMax[h]
      /\ m.kind # "ACK" => m.data = <<>>
      /\ m.data # <<>> => b < m.seq /\ m.seq + Len(m.data) <= b + 1 + BytesMax[h]
      /\ \A i \in 1..Len(m.data) : m.data[i] = (m.seq - b - 1) + i

Current(h, c, e, m) ==
  LET b == Base(h, c.inc)
  IN  /\ m.ack <= c.rcv
      /\ m.data # <<>> => m.seq + Len(m.data) <= b + 1 + Len(c.sent)
      /\ m.kind = "FIN" => /\ c.st \in Over /\ m.seq <= b + 1 + Len(c.sent)
                           /\ ~e => m.seq = b + 1 + Len(c.sent)

Kinds == {"SYN", "SYNACK", "ACK", "FIN", "RST"}

SegmentType == [to : Host, kind : Kinds, seq : Nat, ack : Nat, data : Seq(Nat)]

OfInc(cs, e, m, j) ==
  LET h == Peer(m.to)
  IN  /\ j \in 1..cs[h].inc /\ Within(h, m, j)
      /\ j = cs[h].inc => Current(h, cs[h], e, m)
      /\ h = "server" /\ m.ack > 1 => Joined(cs, j)

OnWay(cs, e, m) == m \in SegmentType /\ (m.kind # "RST" => \E j \in Nat : OfInc(cs, e, m, j))

Good(cs, w, e) ==
  /\ cs \in [Host -> Conn] /\ e \in BOOLEAN
  /\ \A h \in Host : OwnOK(h, cs[h], e)
  /\ Contact(cs, e)
  /\ \A m \in w : OnWay(cs, e, m)

TcpInv == Good(conn, wire, closedEarly) /\ dups \in 0..DupMax

-------------------------------------------------------------------------------
(***************************************************************************)
(* The constants, and the distance of the numbers of two connections.      *)
(***************************************************************************)
LEMMA Consts ==
  /\ SendMax \in Nat /\ SendMax > 0 /\ RtxMax \in Nat /\ RtxMax > 0 /\ IncMax \in Nat /\ DupMax \in Nat
  /\ IssGap \in Nat /\ \A h \in Host : BytesMax[h] \in Nat
  /\ IssGap > BytesMax["client"] + BytesMax["server"] + 2
<1>1. {SendMax, RtxMax, IncMax} \subseteq Nat \ {0}  BY TcpAssumption
<1>2. BytesMax \in [Host -> Nat]  BY TcpAssumption DEF Host
<1> QED  BY <1>1, <1>2, TcpAssumption

LEMMA Gap ==
  ASSUME NEW i \in Nat, NEW j \in Nat, i < j
  PROVE  IssGap * i + IssGap <= IssGap * j /\ IssGap * i \in Nat /\ IssGap * j \in Nat
<1> USE Consts
<1>1. PICK d \in Nat : j = i + 1 + d  BY j - i - 1 \in Nat
<1>2. IssGap * j = IssGap * i + IssGap + IssGap * d  BY <1>1
<1>3. IssGap * d \in Nat /\ IssGap * i \in Nat /\ IssGap * j \in Nat  BY <1>1
<1> QED  BY <1>2, <1>3

LEMMA BaseType ==
  ASSUME NEW h \in Host, NEW j \in Nat
  PROVE  Base(h, j) \in Nat /\ Base("server", j) = IssGap * j /\ IssGap * j \in Nat /\ Base("client", j) = 0
BY Consts DEF Base

LEMMA HostPeer ==
  /\ "client" \in Host /\ "server" \in Host
  /\ \A h \in Host : Peer(h) \in Host /\ Peer(Peer(h)) = h /\ Peer(h) # h
  /\ Peer("client") = "server" /\ Peer("server") = "client"
BY DEF Host, Peer

LEMMA ConnFields ==
  ASSUME NEW c \in Conn
  PROVE  /\ c.snd \in Nat /\ c.rcv \in Nat /\ c.len \in Nat /\ c.nrtx \in Nat /\ c.inc \in Nat
         /\ c.len <= SendMax /\ c.nrtx <= RtxMax /\ c.inc <= IncMax
         /\ c.sent \in Seq(Nat) /\ c.got \in Seq(Nat) /\ Len(c.sent) \in Nat /\ Len(c.got) \in Nat
         /\ c.stopped \in BOOLEAN /\ c.left \in BOOLEAN
         /\ c.heard \in {"nothing", "open", "closed", "broken"}
         /\ c.st \in SynSent \cup {"ESTABLISHED"} \cup Over
BY Consts DEF Conn, SynSent, Over, FinOut, FinDone

LEMMA SegmentFields ==
  ASSUME NEW m \in SegmentType
  PROVE  /\ m.to \in Host /\ m.kind \in Kinds /\ m.seq \in Nat /\ m.ack \in Nat /\ m.data \in Seq(Nat)
         /\ Len(m.data) \in Nat /\ (m.data = <<>> <=> Len(m.data) = 0)
<1>1. m.to \in Host /\ m.kind \in Kinds /\ m.seq \in Nat /\ m.ack \in Nat /\ m.data \in Seq(Nat)
  BY DEF SegmentType
<1> QED  BY <1>1

LEMMA JoinedOnce ==
  ASSUME NEW cs \in [Host -> Conn], NEW i \in Nat, NEW j \in Nat, Joined(cs, i), Joined(cs, j)
  PROVE  i = j
<1> DEFINE r == cs["client"].rcv
           B == BytesMax["server"]
<1>1. r \in Nat /\ B \in Nat /\ IssGap \in Nat /\ IssGap > B + 2
  BY Consts, HostPeer, ConnFields
<1>2. IssGap * i < r /\ r <= IssGap * i + B + 2 /\ IssGap * j < r /\ r <= IssGap * j + B + 2  BY DEF Joined
<1>3. IssGap * i \in Nat /\ IssGap * j \in Nat  BY BaseType, HostPeer
<1>4. ASSUME i < j PROVE FALSE
  <2>1. IssGap * i + IssGap <= IssGap * j  BY <1>4, Gap
  <2> HIDE DEF r, B
  <2> QED  BY <2>1, <1>1, <1>2, <1>3
<1>5. ASSUME j < i PROVE FALSE
  <2>1. IssGap * j + IssGap <= IssGap * i  BY <1>5, Gap
  <2> HIDE DEF r, B
  <2> QED  BY <2>1, <1>1, <1>2, <1>3
<1> QED  BY <1>4, <1>5

(* What the client expects next is of the connection it is in. *)
LEMMA SameInc ==
  ASSUME NEW cs \in [Host -> Conn], NEW m \in SegmentType, NEW j \in Nat, NEW k \in Nat,
         Within("server", m, j), m.seq = cs["client"].rcv, Joined(cs, k)
  PROVE  j = k
<1> DEFINE r == cs["client"].rcv
           B == BytesMax["server"]
<1>1. r \in Nat /\ B \in Nat /\ IssGap \in Nat /\ IssGap > B + 2
  BY Consts, HostPeer, ConnFields
<1>2. IssGap * j <= r /\ r <= IssGap * j + 2 + B  BY BaseType, HostPeer DEF Within
<1>3. IssGap * k < r /\ r <= IssGap * k + B + 2  BY DEF Joined
<1>4. IssGap * j \in Nat /\ IssGap * k \in Nat  BY BaseType, HostPeer
<1>5. ASSUME j < k PROVE FALSE
  <2>1. IssGap * j + IssGap <= IssGap * k  BY <1>5, Gap
  <2> HIDE DEF r, B
  <2> QED  BY <2>1, <1>1, <1>2, <1>3, <1>4
<1>6. ASSUME k < j PROVE FALSE
  <2>1. IssGap * k + IssGap <= IssGap * j  BY <1>6, Gap
  <2> HIDE DEF r, B
  <2> QED  BY <2>1, <1>1, <1>2, <1>3, <1>4
<1> QED  BY <1>5, <1>6

(* Whoever has numbers of the server's connection is paired with it. *)
LEMMA PairedIsJoined ==
  ASSUME NEW cs \in [Host -> Conn], NEW e, Contact(cs, e), cs["client"].rcv > IssGap * cs["server"].inc
  PROVE  Joined(cs, cs["server"].inc)
<1> DEFINE r == cs["client"].rcv
           k == cs["server"].inc
           B == BytesMax["server"]
<1>1. r \in Nat /\ k \in Nat /\ B \in Nat /\ IssGap \in Nat /\ IssGap > B + 2
  BY Consts, HostPeer, ConnFields
<1>2. IssGap * k \in Nat  BY <1>1, BaseType, HostPeer
<1>3. PICK j \in 1..k : Joined(cs, j)
  <2>1. r # 0  BY <1>1, <1>2
  <2> QED  BY <2>1 DEF Contact
<1>4. j = k
  <2> SUFFICES ASSUME j < k PROVE FALSE  BY <1>1
  <2>1. IssGap * j + IssGap <= IssGap * k /\ IssGap * j \in Nat  BY <1>1, Gap
  <2>2. r <= IssGap * j + B + 2  BY <1>3 DEF Joined
  <2>3. r > IssGap * k  OBVIOUS
  <2> HIDE DEF r, k, B
  <2> QED  BY <2>1, <2>2, <2>3, <1>1, <1>2
<1> QED  BY <1>3, <1>4

-------------------------------------------------------------------------------
(***************************************************************************)
(* A step of one host.                                                     *)
(***************************************************************************)
Moves(cs, cs2, h, d) ==
  cs2 \in [Host -> Conn] /\ cs2[h] = d /\ \A g \in Host : g # h => cs2[g] = cs[g]

Grows(c, d) ==
  /\ d.inc = c.inc /\ Len(c.sent) <= Len(d.sent) /\ c.rcv <= d.rcv
  /\ c.st \in Over => d.st \in Over /\ Len(d.sent) = Len(c.sent)

KeepsJoined(cs, cs2) == \A j \in Nat : Joined(cs, j) => Joined(cs2, j)

(* The connections grow: what is on its way remains what it was. *)
LEMMA WayKept ==
  ASSUME NEW cs \in [Host -> Conn], NEW cs2 \in [Host -> Conn],
         NEW e \in BOOLEAN, NEW e2 \in BOOLEAN, e => e2,
         \A h \in Host : Grows(cs[h], cs2[h]), KeepsJoined(cs, cs2),
         NEW m, OnWay(cs, e, m)
  PROVE  OnWay(cs2, e2, m)
<1> SUFFICES ASSUME m.kind # "RST" PROVE \E j \in Nat : OfInc(cs2, e2, m, j)
  BY DEF OnWay
<1>1. m \in SegmentType /\ Peer(m.to) \in Host  BY HostPeer, SegmentFields DEF OnWay
<1>2. PICK j \in Nat : OfInc(cs, e, m, j)  BY DEF OnWay
<1> DEFINE h == Peer(m.to)
           c == cs[h]
           d == cs2[h]
<1>3. Grows(c, d) /\ c \in Conn /\ d \in Conn  BY <1>1
<1>4. j \in 1..c.inc /\ Within(h, m, j) /\ (j = c.inc => Current(h, c, e, m))
      /\ (h = "server" /\ m.ack > 1 => Joined(cs, j))
  BY <1>2 DEF OfInc
<1> HIDE DEF c, d, h
<1>5. j = d.inc => Current(h, d, e2, m)
  <2> SUFFICES ASSUME j = d.inc PROVE Current(h, d, e2, m)
    OBVIOUS
  <2>1. Current(h, c, e, m) /\ d.inc = c.inc  BY <1>3, <1>4 DEF Grows
  <2> DEFINE b == Base(h, c.inc)
  <2>2. /\ c.rcv \in Nat /\ d.rcv \in Nat /\ Len(c.sent) \in Nat /\ Len(d.sent) \in Nat /\ c.inc \in Nat
        /\ m.seq \in Nat /\ m.ack \in Nat /\ Len(m.data) \in Nat
    BY <1>1, <1>3, ConnFields, SegmentFields
  <2>3. b \in Nat  BY <1>1, <2>2, BaseType DEF h
  <2>4. m.ack <= d.rcv  BY <2>1, <2>2, <1>3 DEF Current, Grows
  <2>5. m.data # <<>> => m.seq + Len(m.data) <= b + 1 + Len(d.sent)
    BY <2>1, <2>2, <2>3, <1>3 DEF Current, Grows
  <2>6. m.kind = "FIN" => d.st \in Over /\ m.seq <= b + 1 + Len(d.sent) /\ (~e2 => m.seq = b + 1 + Len(d.sent))
    BY <2>1, <1>3 DEF Current, Grows
  <2> QED  BY <2>1, <2>4, <2>5, <2>6 DEF Current
<1>6. h = "server" /\ m.ack > 1 => Joined(cs2, j)  BY <1>4 DEF KeepsJoined
<1>7. j \in 1..d.inc  BY <1>3, <1>4 DEF Grows
<1>8. OfInc(cs2, e2, m, j)  BY <1>4, <1>5, <1>6, <1>7 DEF OfInc, h, d
<1> QED  BY <1>8

LEMMA GoodMoves ==
  ASSUME NEW cs, NEW w, NEW e, Good(cs, w, e), NEW h \in Host, NEW d, NEW cs2, Moves(cs, cs2, h, d),
         NEW e2 \in BOOLEAN, e => e2, Grows(cs[h], d), KeepsJoined(cs, cs2),
         OwnOK(h, d, e2), Contact(cs2, e2),
         NEW w2, \A m \in w2 : m \in w \/ OnWay(cs2, e2, m)
  PROVE  Good(cs2, w2, e2)
<1>1. cs \in [Host -> Conn] /\ cs2 \in [Host -> Conn] /\ e \in BOOLEAN  BY DEF Good, Moves
<1>2. \A g \in Host : Grows(cs[g], cs2[g])
  <2> TAKE g \in Host
  <2>1. CASE g = h  BY <2>1 DEF Moves
  <2>2. CASE g # h
    <3>1. cs2[g] = cs[g] /\ cs[g] \in Conn  BY <2>2, <1>1 DEF Moves
    <3>2. cs[g].rcv \in Nat /\ Len(cs[g].sent) \in Nat  BY <3>1, ConnFields
    <3> QED  BY <3>1, <3>2 DEF Grows
  <2> QED  BY <2>1, <2>2
<1>3. \A g \in Host : OwnOK(g, cs2[g], e2)
  <2> TAKE g \in Host
  <2>1. CASE g = h  BY <2>1 DEF Moves
  <2>2. CASE g # h
    <3>1. cs2[g] = cs[g] /\ OwnOK(g, cs[g], e)  BY <2>2 DEF Moves, Good
    <3> QED  BY <3>1 DEF OwnOK
  <2> QED  BY <2>1, <2>2
<1>4. \A m \in w2 : OnWay(cs2, e2, m)
  <2> TAKE m \in w2
  <2>1. CASE m \in w
    <3>1. OnWay(cs, e, m)  BY <2>1 DEF Good
    <3> QED  BY <3>1, <1>1, <1>2, WayKept
  <2> QED  BY <2>1
<1> QED  BY <1>1, <1>3, <1>4 DEF Good

(* Nothing was received, and what is over stays over. *)
Stays(c, d) ==
  /\ d.inc = c.inc /\ d.rcv = c.rcv /\ d.got = c.got /\ Len(c.sent) <= Len(d.sent)
  /\ c.st \in Over => d.st \in Over /\ Len(d.sent) = Len(c.sent)
  /\ d.st = "ESTABLISHED" => c.st = "ESTABLISHED"
  /\ d.st \in Alive => c.st \in Alive
  /\ d.st = "FIN_WAIT_2" => c.st = "FIN_WAIT_2"
  /\ d.heard = c.heard \/ d.heard = "broken"
  /\ c.left => d.left

LEMMA FollowsStays ==
  ASSUME NEW r \in Conn, NEW s \in Conn, NEW r2 \in Conn, NEW s2 \in Conn, NEW b \in Nat,
         NEW e \in BOOLEAN, NEW e2 \in BOOLEAN, e => e2, Follows(r, s, b, e), Stays(r, r2), Stays(s, s2)
  PROVE  Follows(r2, s2, b, e2)
<1>1. /\ Len(r.got) \in Nat /\ Len(s.sent) \in Nat /\ Len(s2.sent) \in Nat /\ r.rcv \in Nat
      /\ r.got \in Seq(Nat)
  BY ConnFields
<1>2. r2.got = r.got /\ r2.rcv = r.rcv /\ Len(s.sent) <= Len(s2.sent)  BY DEF Stays
<1>3. Len(r2.got) <= Len(s2.sent) /\ \A i \in 1..Len(r2.got) : r2.got[i] = i
  BY <1>1, <1>2 DEF Follows
<1>4. r2.st = "ESTABLISHED" => r2.rcv = b + 1 + Len(r2.got)  BY <1>2 DEF Follows, Stays
<1>5. r2.heard \in {"nothing", "open"} => r2.rcv <= b + 1 + Len(s2.sent)
  <2> SUFFICES ASSUME r2.heard \in {"nothing", "open"} PROVE r2.rcv <= b + 1 + Len(s2.sent)
    OBVIOUS
  <2>1. r.heard \in {"nothing", "open"}  BY DEF Stays
  <2> DEFINE x == r.rcv
             k == Len(s.sent)
             n == Len(s2.sent)
  <2>2. x <= b + 1 + k  BY <2>1 DEF Follows
  <2>3. x \in Nat /\ k \in Nat /\ n \in Nat /\ k <= n /\ r2.rcv = x  BY <1>1, <1>2
  <2> HIDE DEF x, k, n
  <2>4. x <= b + 1 + n  BY <2>2, <2>3
  <2> QED  BY <2>3, <2>4 DEF n
<1>6. ~e2 /\ r2.heard = "closed" /\ ~r2.left => Len(r2.got) = Len(s2.sent) /\ s2.st \in Over
  BY <1>2 DEF Follows, Stays
<1> QED  BY <1>3, <1>4, <1>5, <1>6 DEF Follows

LEMMA StaysSame ==
  ASSUME NEW c \in Conn PROVE Stays(c, c)
<1>1. Len(c.sent) \in Nat  BY ConnFields
<1> QED  BY <1>1 DEF Stays

LEMMA ContactStays ==
  ASSUME NEW cs, NEW w, NEW e, Good(cs, w, e), NEW h \in Host, NEW d, NEW cs2, Moves(cs, cs2, h, d),
         NEW e2 \in BOOLEAN, e => e2, Stays(cs[h], d)
  PROVE  Contact(cs2, e2) /\ Grows(cs[h], d) /\ KeepsJoined(cs, cs2)
<1>1. cs \in [Host -> Conn] /\ cs2 \in [Host -> Conn] /\ e \in BOOLEAN /\ Contact(cs, e)
  BY DEF Good, Moves
<1>2. \A g \in Host : cs[g] \in Conn /\ cs2[g] \in Conn /\ Stays(cs[g], cs2[g])
  <2> TAKE g \in Host
  <2>1. CASE g = h  BY <2>1, <1>1 DEF Moves
  <2>2. CASE g # h  BY <2>2, <1>1, StaysSame DEF Moves
  <2> QED  BY <2>1, <2>2
<1> DEFINE c == cs["client"]
           s == cs["server"]
           c2 == cs2["client"]
           s2 == cs2["server"]
<1>3. c \in Conn /\ s \in Conn /\ c2 \in Conn /\ s2 \in Conn /\ Stays(c, c2) /\ Stays(s, s2)
  BY <1>2, HostPeer
<1>4. c2.rcv = c.rcv /\ s2.rcv = s.rcv /\ c2.inc = c.inc /\ s2.inc = s.inc /\ s.inc \in Nat
  BY <1>3, ConnFields DEF Stays
<1>5. \A j : Joined(cs2, j) <=> Joined(cs, j)  BY <1>4 DEF Joined
<1>6. /\ s.inc > 0 => c.inc = 1 /\ Follows(s, c, 0, e)
      /\ c.rcv = 0 \/ \E j \in 1..s.inc : Joined(cs, j)
      /\ c.st \in Alive => c.rcv > 0
      /\ s.st \in Alive \/ s.heard \in {"open", "closed"} \/ s.rcv > 1 => Joined(cs, s.inc)
      /\ Joined(cs, s.inc) => Follows(c, s, IssGap * s.inc, e)
      /\ Joined(cs, s.inc) /\ ~e => \A g \in Host : cs[g].st = "FIN_WAIT_2" =>
                                       cs[Peer(g)].heard \in {"closed", "broken"}
  BY <1>1 DEF Contact
<1>7. IssGap * s.inc \in Nat /\ 0 \in Nat  BY <1>4, BaseType, HostPeer
<1> HIDE DEF c, s, c2, s2
<1>8. s2.inc > 0 => c2.inc = 1 /\ Follows(s2, c2, 0, e2)
  BY <1>1, <1>3, <1>4, <1>6, <1>7, FollowsStays
<1>9. c2.rcv = 0 \/ \E j \in 1..s2.inc : Joined(cs2, j)  BY <1>4, <1>5, <1>6
<1>10. c2.st \in Alive => c2.rcv > 0  BY <1>3, <1>4, <1>6 DEF Stays
<1>11. s2.st \in Alive \/ s2.heard \in {"open", "closed"} \/ s2.rcv > 1 => Joined(cs2, s2.inc)
  <2>1. s2.st \in Alive => s.st \in Alive  BY <1>3 DEF Stays
  <2>2. s2.heard \in {"open", "closed"} => s.heard \in {"open", "closed"}  BY <1>3 DEF Stays
  <2> QED  BY <2>1, <2>2, <1>4, <1>5, <1>6
<1>12. Joined(cs2, s2.inc) => Follows(c2, s2, IssGap * s2.inc, e2)
  <2> SUFFICES ASSUME Joined(cs2, s2.inc) PROVE Follows(c2, s2, IssGap * s2.inc, e2)
    OBVIOUS
  <2>1. Follows(c, s, IssGap * s.inc, e)  BY <1>4, <1>5, <1>6
  <2>2. Follows(c2, s2, IssGap * s.inc, e2)  BY <2>1, <1>1, <1>3, <1>7, FollowsStays
  <2> QED  BY <2>2, <1>4
<1>13. Joined(cs2, s2.inc) /\ ~e2 => \A g \in Host : cs2[g].st = "FIN_WAIT_2" =>
                                       cs2[Peer(g)].heard \in {"closed", "broken"}
  <2> SUFFICES ASSUME Joined(cs2, s2.inc), ~e2, NEW g \in Host, cs2[g].st = "FIN_WAIT_2"
               PROVE  cs2[Peer(g)].heard \in {"closed", "broken"}
    OBVIOUS
  <2>1. cs[g].st = "FIN_WAIT_2"  BY <1>2 DEF Stays
  <2>2. cs[Peer(g)].heard \in {"closed", "broken"}  BY <2>1, <1>4, <1>5, <1>6
  <2>3. Peer(g) \in Host  BY HostPeer
  <2> QED  BY <2>2, <2>3, <1>2 DEF Stays
<1>14. Contact(cs2, e2)  BY <1>8, <1>9, <1>10, <1>11, <1>12, <1>13 DEF Contact, c2, s2
<1>15. Grows(cs[h], d)
  <2>1. cs[h].rcv \in Nat  BY <1>2, ConnFields
  <2> QED  BY <2>1 DEF Stays, Grows
<1>16. KeepsJoined(cs, cs2)  BY <1>5 DEF KeepsJoined
<1> QED  BY <1>14, <1>15, <1>16

(* The steps in which nothing is received. *)
LEMMA GoodStays ==
  ASSUME NEW cs, NEW w, NEW e, Good(cs, w, e), NEW h \in Host, NEW d, NEW cs2, Moves(cs, cs2, h, d),
         NEW e2 \in BOOLEAN, e => e2, Stays(cs[h], d), OwnOK(h, d, e2),
         NEW w2, \A m \in w2 : m \in w \/ OnWay(cs2, e2, m)
  PROVE  Good(cs2, w2, e2)
BY ContactStays, GoodMoves

-------------------------------------------------------------------------------
(***************************************************************************)
(* What a host sends is of its connection.                                 *)
(***************************************************************************)
LEMMA RstWay ==
  ASSUME NEW cs, NEW e, NEW m \in SegmentType, m.kind = "RST"
  PROVE  OnWay(cs, e, m)
BY DEF OnWay

LEMMA ResetIs ==
  ASSUME NEW m \in SegmentType
  PROVE  Reset(m) \in SegmentType /\ Reset(m).kind = "RST"
<1>1. m.to \in Host /\ m.seq \in Nat /\ m.ack \in Nat /\ Peer(m.to) \in Host  BY SegmentFields, HostPeer
<1> QED  BY <1>1 DEF Reset, SegmentType, Kinds

LEMMA ResetWay ==
  ASSUME NEW cs, NEW e, NEW m \in SegmentType
  PROVE  OnWay(cs, e, Reset(m))
BY ResetIs, RstWay

LEMMA SegmentIs ==
  ASSUME NEW h \in Host, NEW c \in Conn, NEW kind \in Kinds, NEW data \in Seq(Nat)
  PROVE  LET m == Segment(h, c, kind, data)
         IN  /\ m \in SegmentType /\ Peer(m.to) = h /\ m.kind = kind /\ m.seq = c.snd /\ m.ack = c.rcv
             /\ m.data = data
<1>1. c.snd \in Nat /\ c.rcv \in Nat /\ Peer(h) \in Host /\ Peer(Peer(h)) = h  BY ConnFields, HostPeer
<1> QED  BY <1>1 DEF Segment, SegmentType

LEMMA UnackedIs ==
  ASSUME NEW c \in Conn, c.len <= Len(c.sent)
  PROVE  /\ Unacked(c) \in Seq(Nat) /\ Len(Unacked(c)) = c.len
         /\ \A i \in 1..c.len : Unacked(c)[i] = c.sent[Len(c.sent) - c.len + i]
<1> DEFINE s == c.sent
           k == c.len
           m == Len(s) - k + 1
<1>1. s \in Seq(Nat) /\ k \in Nat /\ Len(s) \in Nat /\ k <= Len(s)  BY ConnFields
<1>2. Unacked(c) = SubSeq(s, m, Len(s))  BY DEF Unacked
<1> HIDE DEF s, k
<1>3. m \in Nat /\ m > 0 /\ m <= Len(s) + 1 /\ Len(s) - m + 1 = k  BY <1>1
<1>4. \A i \in m..Len(s) : i \in 1..Len(s)  BY <1>1, <1>3
<1>5. /\ SubSeq(s, m, Len(s)) \in Seq(Nat) /\ Len(SubSeq(s, m, Len(s))) = k
      /\ \A i \in 1..k : SubSeq(s, m, Len(s))[i] = s[m + i - 1]
  BY <1>1, <1>3, <1>4, SubSeqProperties
<1>6. \A i \in 1..k : SubSeq(s, m, Len(s))[i] = s[Len(s) - k + i]
  <2> TAKE i \in 1..k
  <2>1. m + i - 1 = Len(s) - k + i  BY <1>1
  <2> QED  BY <2>1, <1>5
<1> QED  BY <1>2, <1>5, <1>6 DEF s, k

(* What a connection may send. *)
Legit(c, kind, data) ==
  /\ kind \in Kinds /\ c.st # "CLOSED"
  /\ kind = "SYN" => c.st = "SYN_SENT"
  /\ kind = "SYNACK" => c.st = "SYN_RCVD"
  /\ kind = "FIN" => c.st \in FinOut
  /\ data # <<>> => kind = "ACK" /\ c.st = "ESTABLISHED" /\ data = Unacked(c)

LEMMA SndBounds ==
  ASSUME NEW h \in Host, NEW c, NEW e, OwnOK(h, c, e), c.st # "CLOSED", NEW b, b = Base(h, c.inc)
  PROVE  /\ b \in Nat /\ c.inc > 0 /\ Len(c.sent) <= BytesMax[h]
         /\ b <= c.snd /\ c.snd <= b + 2 + Len(c.sent)
<1>1. c \in Conn /\ Counts(c, b) /\ Sides(h, c) /\ Len(c.sent) <= BytesMax[h]  BY DEF OwnOK
<1>2. c.snd \in Nat /\ c.len \in Nat /\ c.inc \in Nat /\ Len(c.sent) \in Nat
      /\ c.st \in SynSent \cup {"ESTABLISHED"} \cup Over
  BY <1>1, ConnFields
<1>3. b \in Nat  BY <1>2, BaseType
<1> DEFINE k == Len(c.sent)
           x == c.snd
<1>8. k \in Nat /\ x \in Nat  BY <1>2
<1>9. c.inc > 0
  <2>1. c.inc # 0  BY <1>1 DEF Sides
  <2> QED  BY <2>1, <1>2
<1>10. b <= x /\ x <= b + 2 + k
  <2>1. CASE c.st \in SynSent
    <3>1. x = b  BY <2>1, <1>1 DEF Counts
    <3> HIDE DEF x, k
    <3> QED  BY <3>1, <1>3, <1>8
  <2>2. CASE c.st = "ESTABLISHED"
    <3>1. c.len <= k /\ x + c.len = b + 1 + k  BY <2>2, <1>1 DEF Counts
    <3> HIDE DEF x, k
    <3> QED  BY <3>1, <1>2, <1>3, <1>8
  <2>3. CASE c.st \in FinOut
    <3>1. b < x /\ x <= b + 1 + k  BY <2>3, <1>1 DEF Counts
    <3> HIDE DEF x, k
    <3> QED  BY <3>1, <1>3, <1>8
  <2>4. CASE c.st \in FinDone
    <3>1. b < x /\ x <= b + 2 + k  BY <2>4, <1>1 DEF Counts
    <3> HIDE DEF x, k
    <3> QED  BY <3>1, <1>3, <1>8
  <2> QED  BY <1>2, <2>1, <2>2, <2>3, <2>4 DEF Over
<1> QED  BY <1>1, <1>3, <1>9, <1>10

LEMMA SendsData ==
  ASSUME NEW h \in Host, NEW c, NEW e, OwnOK(h, c, e), c.st = "ESTABLISHED", NEW data, data = Unacked(c),
         NEW b, b = Base(h, c.inc)
  PROVE  /\ data \in Seq(Nat) /\ b < c.snd /\ c.snd + Len(data) = b + 1 + Len(c.sent)
         /\ \A i \in 1..Len(data) : data[i] = (c.snd - b - 1) + i
<1>1. c \in Conn /\ Counts(c, b) /\ Numbered(c)  BY DEF OwnOK
<1>2. c.snd \in Nat /\ c.len \in Nat /\ c.inc \in Nat /\ Len(c.sent) \in Nat  BY <1>1, ConnFields
<1>3. b \in Nat  BY <1>2, BaseType
<1>4. c.len <= Len(c.sent) /\ c.snd + c.len = b + 1 + Len(c.sent)  BY <1>1 DEF Counts
<1>5. /\ data \in Seq(Nat) /\ Len(data) = c.len
      /\ \A i \in 1..c.len : data[i] = c.sent[Len(c.sent) - c.len + i]
  BY <1>1, <1>4, UnackedIs
<1>6. \A i \in 1..c.len : data[i] = (c.snd - b - 1) + i
  <2> TAKE i \in 1..c.len
  <2>1. Len(c.sent) - c.len + i \in 1..Len(c.sent)  BY <1>2, <1>4
  <2>2. c.sent[Len(c.sent) - c.len + i] = Len(c.sent) - c.len + i  BY <2>1, <1>1 DEF Numbered
  <2>3. Len(c.sent) - c.len = c.snd - b - 1  BY <1>2, <1>3, <1>4
  <2> QED  BY <2>2, <2>3, <1>5
<1> QED  BY <1>2, <1>3, <1>4, <1>5, <1>6

LEMMA SendsWay ==
  ASSUME NEW cs, NEW e, cs \in [Host -> Conn], NEW h \in Host, OwnOK(h, cs[h], e), Contact(cs, e),
         NEW c, c = cs[h], NEW kind, NEW data, Legit(c, kind, data)
  PROVE  OnWay(cs, e, Segment(h, c, kind, data))
<1> DEFINE b == Base(h, c.inc)
           B == BytesMax[h]
<1>1. c \in Conn /\ Counts(c, b) /\ Sides(h, c) /\ kind \in Kinds /\ c.st # "CLOSED" /\ OwnOK(h, c, e)
  BY DEF OwnOK, Legit
<1>2. c.snd \in Nat /\ c.rcv \in Nat /\ c.inc \in Nat /\ Len(c.sent) \in Nat /\ B \in Nat
  BY <1>1, ConnFields, Consts
<1>3. b \in Nat /\ c.inc > 0 /\ Len(c.sent) <= B /\ b <= c.snd /\ c.snd <= b + 2 + Len(c.sent)
  BY <1>1, SndBounds
<1>4. data # <<>> =>
        /\ data \in Seq(Nat) /\ b < c.snd /\ c.snd + Len(data) = b + 1 + Len(c.sent)
        /\ \A i \in 1..Len(data) : data[i] = (c.snd - b - 1) + i
  BY <1>1, SendsData DEF Legit
<1>5. data \in Seq(Nat)
  <2>1. CASE data = <<>>  BY <2>1
  <2> QED  BY <2>1, <1>4
<1> DEFINE m == Segment(h, c, kind, data)
<1>6. /\ m \in SegmentType /\ Peer(m.to) = h /\ m.kind = kind /\ m.seq = c.snd /\ m.ack = c.rcv
      /\ m.data = data
  BY <1>1, <1>5, SegmentIs
<1> DEFINE k == Len(c.sent)
           x == c.snd
           n == Len(data)
<1>12. b \in Nat /\ B \in Nat /\ k \in Nat /\ x \in Nat /\ n \in Nat /\ k <= B /\ b <= x /\ x <= b + 2 + k
  BY <1>2, <1>3, <1>5
<1>13. m.seq = x /\ m.data = data /\ Len(m.data) = n  BY <1>6
<1>14. data # <<>> => b < x /\ x + n = b + 1 + k  BY <1>4
<1> HIDE DEF m, b, B, k, x, n
<1>7. Within(h, m, c.inc)
  <2>1. b <= m.seq /\ m.seq <= b + 2 + B  BY <1>12, <1>13
  <2>2. kind \in {"SYN", "SYNACK"} => m.seq = b
    BY <1>1, <1>6 DEF Legit, Counts, SynSent
  <2>3. kind = "SYN" => h = "client"  BY <1>1 DEF Legit, Sides, Host
  <2>4. kind = "FIN" => b < m.seq /\ m.seq <= b + 1 + B
    <3> SUFFICES ASSUME kind = "FIN" PROVE b < m.seq /\ m.seq <= b + 1 + B
      OBVIOUS
    <3>1. b < x /\ x <= b + 1 + k  BY <1>1 DEF Legit, Counts, x, k
    <3> QED  BY <3>1, <1>12, <1>13
  <2>5. kind # "ACK" => data = <<>>  BY DEF Legit
  <2>6. data # <<>> => b < m.seq /\ m.seq + Len(m.data) <= b + 1 + B
    BY <1>12, <1>13, <1>14
  <2>7. \A i \in 1..Len(data) : data[i] = (m.seq - b - 1) + i
    <3>1. CASE data = <<>>  BY <3>1
    <3>2. CASE data # <<>>  BY <3>2, <1>4, <1>6
    <3> QED  BY <3>1, <3>2
  <2> QED  BY <2>1, <2>2, <2>3, <2>4, <2>5, <2>6, <2>7, <1>6 DEF Within, b, B
<1>8. Current(h, c, e, m)
  <2>1. m.ack <= c.rcv  BY <1>2, <1>6
  <2>4. data # <<>> => m.seq + Len(m.data) <= b + 1 + k  BY <1>12, <1>13, <1>14
  <2>2. data # <<>> => m.seq + Len(m.data) <= b + 1 + Len(c.sent)  BY <2>4 DEF k
  <2>3. kind = "FIN" => c.st \in Over /\ m.seq <= b + 1 + Len(c.sent) /\ (~e => m.seq = b + 1 + Len(c.sent))
    <3> SUFFICES ASSUME kind = "FIN"
                 PROVE  c.st \in Over /\ m.seq <= b + 1 + Len(c.sent) /\ (~e => m.seq = b + 1 + Len(c.sent))
      OBVIOUS
    <3>1. c.st \in FinOut  BY DEF Legit
    <3>2. c.snd <= b + 1 + Len(c.sent)  BY <3>1, <1>1 DEF Counts
    <3>3. ~e => c.snd = b + 1 + Len(c.sent)  BY <3>1, <1>1 DEF OwnOK, b
    <3> QED  BY <3>1, <3>2, <3>3, <1>6 DEF Over
  <2> QED  BY <2>1, <2>2, <2>3, <1>6 DEF Current, b
<1>9. h = "server" /\ m.ack > 1 => Joined(cs, c.inc)  BY <1>6 DEF Contact
<1>10. OfInc(cs, e, m, c.inc)
  <2>1. c.inc \in 1..c.inc  BY <1>2, <1>3
  <2> QED  BY <2>1, <1>6, <1>7, <1>8, <1>9 DEF OfInc
<1>11. OnWay(cs, e, m)  BY <1>2, <1>6, <1>10 DEF OnWay
<1> QED  BY <1>11 DEF m

(* m is what host h with connection c may send. *)
Own(h, c, m) ==
  \/ m \in SegmentType /\ m.kind = "RST"
  \/ \E kind \in Kinds, data \in {<<>>, Unacked(c)} : Legit(c, kind, data) /\ m = Segment(h, c, kind, data)

LEMMA OwnWay ==
  ASSUME NEW cs, NEW e, cs \in [Host -> Conn], NEW h \in Host, NEW c, c = cs[h], OwnOK(h, c, e),
         Contact(cs, e), NEW m, Own(h, c, m)
  PROVE  OnWay(cs, e, m)
<1>1. CASE m \in SegmentType /\ m.kind = "RST"  BY <1>1, RstWay
<1>2. ASSUME NEW kind, NEW data, Legit(c, kind, data), m = Segment(h, c, kind, data)
      PROVE  OnWay(cs, e, m)
  BY <1>2, SendsWay
<1> QED  BY <1>1, <1>2 DEF Own

(* The events of an application in one step. *)
Orderly(c, d) ==
  /\ d.got # c.got => d.heard = "open" /\ ~c.left
  /\ c.heard = "open" => d.heard # "nothing"
  /\ c.heard = "closed" => d.heard \in {"closed", "broken"}
  /\ c.heard = "broken" => d.heard = "broken"

LEMMA StaysStep ==
  ASSUME NEW cs, NEW w, NEW e, Good(cs, w, e), NEW h \in Host, NEW d, NEW cs2, Moves(cs, cs2, h, d),
         NEW e2 \in BOOLEAN, e => e2, Stays(cs[h], d), OwnOK(h, d, e2),
         NEW w2, \A m \in w2 : m \in w \/ Own(h, d, m)
  PROVE  Good(cs2, w2, e2) /\ Orderly(cs[h], d)
<1>1. Contact(cs2, e2) /\ cs2 \in [Host -> Conn] /\ cs2[h] = d  BY ContactStays DEF Moves
<1>2. \A m \in w2 : m \in w \/ OnWay(cs2, e2, m)  BY <1>1, OwnWay
<1>3. Orderly(cs[h], d)  BY DEF Stays, Orderly
<1> QED  BY <1>2, <1>3, GoodStays
-------------------------------------------------------------------------------
(***************************************************************************)
(* One connection, before and after what does not receive anything.        *)
(***************************************************************************)
Keeps(c, d) ==
  c \in Conn /\ d \in Conn /\ d.rcv = c.rcv /\ d.sent = c.sent /\ d.got = c.got /\ d.inc = c.inc

LEMMA OwnFields ==
  ASSUME NEW h \in Host, NEW c, NEW e, OwnOK(h, c, e)
  PROVE  /\ c \in Conn /\ Numbered(c) /\ Sides(h, c) /\ Counts(c, Base(h, c.inc)) /\ Told(c)
         /\ Base(h, c.inc) \in Nat /\ Len(c.sent) \in Nat /\ Len(c.sent) <= BytesMax[h]
         /\ BytesMax[h] \in Nat /\ c.snd \in Nat /\ c.len \in Nat
<1>1. c \in Conn  BY DEF OwnOK
<1>2. c.inc \in Nat /\ Len(c.sent) \in Nat /\ c.snd \in Nat /\ c.len \in Nat  BY <1>1, ConnFields
<1>3. Base(h, c.inc) \in Nat  BY <1>2, BaseType
<1> QED  BY <1>1, <1>2, <1>3, Consts DEF OwnOK

LEMMA ClosedOK ==
  ASSUME NEW h \in Host, NEW c, NEW d, NEW e, NEW e2, OwnOK(h, c, e), Keeps(c, d), d.st = "CLOSED",
         ~d.stopped, d.heard \in {c.heard, "broken"}, c.left => d.left, d.heard = "open" => d.left,
         c.inc = 0 => d.heard = c.heard
  PROVE  OwnOK(h, d, e2) /\ Stays(c, d)
<1>1. /\ c \in Conn /\ Numbered(c) /\ Sides(h, c) /\ Told(c) /\ Len(c.sent) \in Nat
      /\ Len(c.sent) <= BytesMax[h]
  BY OwnFields
<1>2. Numbered(d)  BY <1>1 DEF Keeps, Numbered
<1>3. Sides(h, d)  BY <1>1 DEF Keeps, Sides
<1>4. Counts(d, Base(h, d.inc))  BY DEF Counts, SynSent, FinOut, FinDone
<1>5. Told(d)  BY DEF Told, SynSent
<1>6. OwnOK(h, d, e2)  BY <1>1, <1>2, <1>3, <1>4, <1>5 DEF OwnOK, Keeps, FinOut
<1>7. Stays(c, d)  BY <1>1 DEF Stays, Keeps, Over, Alive, FinOut, FinDone
<1> QED  BY <1>6, <1>7

(* Only the retransmissions are counted anew, and it may stop or go on. *)
LEMMA SameOK ==
  ASSUME NEW h \in Host, NEW c, NEW d, NEW e, OwnOK(h, c, e), Keeps(c, d), d.st = c.st,
         d.snd = c.snd, d.len = c.len, d.heard = c.heard, d.left = c.left,
         d.stopped => c.st = "ESTABLISHED"
  PROVE  OwnOK(h, d, e) /\ Stays(c, d)
<1>1. /\ c \in Conn /\ Numbered(c) /\ Sides(h, c) /\ Told(c) /\ Len(c.sent) \in Nat
      /\ Len(c.sent) <= BytesMax[h] /\ Counts(c, Base(h, c.inc))
  BY OwnFields
<1>2. Numbered(d)  BY <1>1 DEF Keeps, Numbered
<1>3. Sides(h, d)  BY <1>1 DEF Keeps, Sides
<1>4. Counts(d, Base(h, d.inc))  BY <1>1 DEF Counts, Keeps
<1>5. Told(d)  BY <1>1 DEF Told
<1>6. OwnOK(h, d, e)  BY <1>1, <1>2, <1>3, <1>4, <1>5 DEF OwnOK, Keeps
<1>7. Stays(c, d)  BY <1>1 DEF Stays, Keeps
<1> QED  BY <1>6, <1>7

(* All that was outstanding is acknowledged. *)
LEMMA AckedOK ==
  ASSUME NEW h \in Host, NEW c, NEW d, NEW e, OwnOK(h, c, e), Keeps(c, d),
         c.st = "ESTABLISHED", d.st = "ESTABLISHED", d.snd = c.snd + c.len, d.len = 0,
         d.heard = c.heard, d.left = c.left
  PROVE  OwnOK(h, d, e) /\ Stays(c, d)
<1>1. /\ c \in Conn /\ Numbered(c) /\ Sides(h, c) /\ Told(c) /\ Len(c.sent) \in Nat
      /\ Len(c.sent) <= BytesMax[h] /\ Counts(c, Base(h, c.inc)) /\ c.snd \in Nat /\ c.len \in Nat
  BY OwnFields
<1>2. Numbered(d)  BY <1>1 DEF Keeps, Numbered
<1>3. Sides(h, d)  BY <1>1 DEF Keeps, Sides
<1>4. Counts(d, Base(h, d.inc))
  <2>1. d.snd = Base(h, d.inc) + 1 + Len(c.sent)  BY <1>1 DEF Counts, Keeps
  <2>2. Base(h, d.inc) \in Nat  BY OwnFields DEF Keeps
  <2>3. d.snd + 0 = d.snd  BY <2>1, <2>2, <1>1
  <2>4. d.len <= Len(d.sent) /\ d.snd + d.len = Base(h, d.inc) + 1 + Len(d.sent)
    BY <2>1, <2>3, <1>1 DEF Keeps
  <2> QED  BY <2>4 DEF Counts, SynSent, FinOut, FinDone
<1>5. Told(d)  BY <1>1 DEF Told, SynSent
<1>6. OwnOK(h, d, e)  BY <1>1, <1>2, <1>3, <1>4, <1>5 DEF OwnOK, Keeps, FinOut
<1>7. Stays(c, d)  BY <1>1 DEF Stays, Keeps, Over, FinOut, FinDone
<1> QED  BY <1>6, <1>7

(* Closed by the application: what was outstanding is given up, which is   *)
(* remembered in e2.                                                       *)
LEMMA CloseOK ==
  ASSUME NEW h \in Host, NEW c, NEW d, NEW e, NEW e2, OwnOK(h, c, e), Keeps(c, d), ~e2 => c.len = 0,
         c.st = "ESTABLISHED", d.st = "FIN_WAIT_1", d.snd = c.snd, d.len = 1,
         d.heard = c.heard, d.left, ~d.stopped
  PROVE  OwnOK(h, d, e2) /\ Stays(c, d)
<1>1. /\ c \in Conn /\ Numbered(c) /\ Sides(h, c) /\ Told(c) /\ Len(c.sent) \in Nat
      /\ Len(c.sent) <= BytesMax[h] /\ Counts(c, Base(h, c.inc)) /\ c.snd \in Nat /\ c.len \in Nat
      /\ Base(h, c.inc) \in Nat
  BY OwnFields
<1> DEFINE b == Base(h, c.inc)
           k == Len(c.sent)
           x == c.snd
<1>2. Numbered(d)  BY <1>1 DEF Keeps, Numbered
<1>3. Sides(h, d)  BY <1>1 DEF Keeps, Sides
<1>8. b \in Nat /\ k \in Nat /\ x \in Nat /\ d.snd = x /\ Len(d.sent) = k /\ Base(h, d.inc) = b
  BY <1>1 DEF Keeps
<1>9. c.len <= k /\ x + c.len = b + 1 + k  BY <1>1 DEF Counts
<1>4. Counts(d, Base(h, d.inc))
  <2> HIDE DEF b, k, x
  <2>1. b < x /\ x <= b + 1 + k  BY <1>1, <1>8, <1>9
  <2> QED  BY <2>1, <1>8 DEF Counts, SynSent, FinOut, FinDone
<1>5. Told(d)  BY <1>1 DEF Told, SynSent
<1>6. OwnOK(h, d, e2)
  <2> HIDE DEF b, k, x
  <2>1. ~e2 => d.snd = b + 1 + k  BY <1>8, <1>9
  <2>2. ~e2 => d.snd = Base(h, d.inc) + 1 + Len(d.sent)  BY <2>1, <1>8
  <2> QED  BY <2>2, <1>1, <1>2, <1>3, <1>4, <1>5 DEF OwnOK, Keeps
<1>7. Stays(c, d)  BY <1>1 DEF Stays, Keeps, Over, FinOut, FinDone, Alive
<1> QED  BY <1>6, <1>7

(* The FIN of a connection that both ends close is acknowledged. *)
LEMMA ClosingOK ==
  ASSUME NEW h \in Host, NEW c, NEW d, NEW e, OwnOK(h, c, e), Keeps(c, d),
         c.st = "CLOSING", d.st = "TIME_WAIT", d.snd = c.snd + c.len, d.len = 0,
         d.heard = c.heard, d.left = c.left, ~d.stopped
  PROVE  OwnOK(h, d, e) /\ Stays(c, d)
<1>1. /\ c \in Conn /\ Numbered(c) /\ Sides(h, c) /\ Told(c) /\ Len(c.sent) \in Nat
      /\ Len(c.sent) <= BytesMax[h] /\ Counts(c, Base(h, c.inc)) /\ c.snd \in Nat /\ c.len \in Nat
      /\ Base(h, c.inc) \in Nat
  BY OwnFields
<1> DEFINE b == Base(h, c.inc)
           k == Len(c.sent)
           x == c.snd
<1>2. Numbered(d)  BY <1>1 DEF Keeps, Numbered
<1>3. Sides(h, d)  BY <1>1 DEF Keeps, Sides
<1>8. b \in Nat /\ k \in Nat /\ x \in Nat /\ Len(d.sent) = k /\ Base(h, d.inc) = b
  BY <1>1 DEF Keeps
<1>9. c.len = 1 /\ b < x /\ x <= b + 1 + k  BY <1>1 DEF Counts, FinOut
<1>10. d.snd = x + 1  BY <1>9
<1>4. Counts(d, Base(h, d.inc))
  <2> HIDE DEF b, k, x
  <2>1. b < d.snd /\ d.snd <= b + 2 + k  BY <1>8, <1>9, <1>10
  <2> QED  BY <2>1, <1>8 DEF Counts, SynSent, FinOut, FinDone
<1>5. Told(d)  BY <1>1 DEF Told, SynSent
<1>6. OwnOK(h, d, e)  BY <1>1, <1>2, <1>3, <1>4, <1>5 DEF OwnOK, Keeps, FinOut
<1>7. Stays(c, d)  BY <1>1 DEF Stays, Keeps, Over, FinOut, FinDone, Alive
<1> QED  BY <1>6, <1>7

(* n more bytes are handed over; they are numbered on. *)
LEMMA SendOK ==
  ASSUME NEW h \in Host, NEW c, NEW d, NEW e, OwnOK(h, c, e), c.st = "ESTABLISHED",
         NEW n \in Nat, NEW news, news = [i \in 1..n |-> Len(c.sent) + i],
         n > 0 => c.len = 0 /\ Len(c.sent) + n <= BytesMax[h],
         d \in Conn, d.rcv = c.rcv, d.got = c.got, d.inc = c.inc, d.sent = c.sent \o news,
         d.st = c.st, d.snd = c.snd, d.len = IF n > 0 THEN n ELSE c.len, d.heard = c.heard, d.left = c.left
  PROVE  OwnOK(h, d, e) /\ Stays(c, d)
<1>1. /\ c \in Conn /\ Numbered(c) /\ Sides(h, c) /\ Told(c) /\ Len(c.sent) \in Nat
      /\ Len(c.sent) <= BytesMax[h] /\ Counts(c, Base(h, c.inc)) /\ c.snd \in Nat /\ c.len \in Nat
      /\ Base(h, c.inc) \in Nat /\ c.sent \in Seq(Nat)
  BY OwnFields, ConnFields
<1> DEFINE b == Base(h, c.inc)
           s == c.sent
           k == Len(s)
           x == c.snd
<1>8. b \in Nat /\ k \in Nat /\ x \in Nat /\ s \in Seq(Nat) /\ d.snd = x /\ Base(h, d.inc) = b
  BY <1>1
<1>9. c.len <= k /\ x + c.len = b + 1 + k  BY <1>1 DEF Counts
<1>10. news \in Seq(Nat) /\ Len(news) = n /\ \A i \in 1..n : news[i] = k + i
  <2> HIDE DEF k
  <2>1. news = [i \in 1..n |-> k + i]  BY DEF k
  <2>2. \A i \in 1..n : k + i \in Nat  BY <1>8
  <2>3. news \in [1..n -> Nat] /\ DOMAIN news = 1..n  BY <2>1, <2>2
  <2>4. news \in Seq(Nat)  BY <2>3
  <2>5. Len(news) = n  BY <2>3, <2>4
  <2>6. \A i \in 1..n : news[i] = k + i  BY <2>1
  <2> QED  BY <2>4, <2>5, <2>6
<1> DEFINE t == s \o news
<1>11. Len(t) = k + n /\ \A i \in 1..Len(t) : t[i] = IF i <= k THEN s[i] ELSE news[i - k]
  BY <1>8, <1>10
<1>12. \A i \in 1..k : s[i] = i  BY <1>1 DEF Numbered
<1>13. d.sent = t  OBVIOUS
<1>2. Numbered(d)
  <2> HIDE DEF t, s, k
  <2>1. \A i \in 1..Len(t) : t[i] = i
    <3> TAKE i \in 1..Len(t)
    <3>1. CASE i <= k
      <4>1. i \in 1..k  BY <3>1, <1>8
      <4> QED  BY <4>1, <3>1, <1>11, <1>12
    <3>2. CASE ~(i <= k)
      <4>1. i - k \in 1..n  BY <3>2, <1>8, <1>11
      <4>2. t[i] = k + (i - k)  BY <3>2, <4>1, <1>10, <1>11
      <4> QED  BY <4>2, <1>8, <1>11
    <3> QED  BY <3>1, <3>2
  <2> QED  BY <2>1, <1>1, <1>13 DEF Numbered
<1>3. Sides(h, d)
  <2>1. c.inc # 0  BY <1>1 DEF Sides
  <2> QED  BY <2>1, <1>1 DEF Sides
<1>4. Counts(d, Base(h, d.inc))
  <2>1. d.len <= k + n /\ x + d.len = b + 1 + (k + n)
    <3> HIDE DEF b, k, x
    <3>1. CASE n = 0  BY <3>1, <1>1, <1>8, <1>9
    <3>2. CASE n > 0  BY <3>2, <1>1, <1>8, <1>9
    <3> QED  BY <3>1, <3>2
  <2> HIDE DEF b, k, x, t
  <2>2. d.len <= Len(d.sent) /\ d.snd + d.len = b + 1 + Len(d.sent)  BY <2>1, <1>8, <1>11, <1>13
  <2> QED  BY <2>2, <1>8 DEF Counts, SynSent, FinOut, FinDone
<1>5. Told(d)
  <2>1. d.stopped => d.st = "ESTABLISHED"  OBVIOUS
  <2> QED  BY <2>1, <1>1 DEF Told, SynSent
<1>14. Len(d.sent) <= BytesMax[h] /\ k <= Len(d.sent)
  <2>1. k + n <= BytesMax[h]
    <3>1. CASE n = 0  BY <3>1, <1>1
    <3>2. CASE n > 0  BY <3>2
    <3> QED  BY <3>1, <3>2
  <2> HIDE DEF t, k
  <2> QED  BY <2>1, <1>8, <1>11, <1>13
<1>6. OwnOK(h, d, e)
  <2>1. d.st \notin FinOut  BY DEF FinOut
  <2> QED  BY <2>1, <1>2, <1>3, <1>4, <1>5, <1>14 DEF OwnOK
<1>7. Stays(c, d)  BY <1>14 DEF Stays, Over, FinOut, FinDone
<1> QED  BY <1>6, <1>7

-------------------------------------------------------------------------------
(***************************************************************************)
(* What the application wants, once it has been called: cs1 are the        *)
(* connections with what the segment or the timer has done.                *)
(***************************************************************************)
LEMMA BecomesMoves ==
  ASSUME NEW h \in Host, NEW c, NEW d \in Conn, NEW used, NEW segs, Becomes(h, d, used, segs),
         conn \in [Host -> Conn], NEW cs1, Moves(conn, cs1, h, c)
  PROVE  Moves(cs1, conn', h, d) /\ \A m \in wire' : m \in wire \/ m \in segs
<1>1. conn' = [conn EXCEPT ![h] = d] /\ wire' = (wire \ used) \cup segs  BY DEF Becomes
<1>2. conn' \in [Host -> Conn] /\ conn'[h] = d /\ \A g \in Host : g # h => conn'[g] = conn[g]
  BY <1>1
<1>3. \A g \in Host : g # h => conn'[g] = cs1[g]  BY <1>2 DEF Moves
<1> QED  BY <1>1, <1>2, <1>3 DEF Moves

(* A host that has not moved yet. *)
LEMMA NotMoved ==
  ASSUME NEW h \in Host, conn \in [Host -> Conn] PROVE Moves(conn, conn, h, conn[h])
BY DEF Moves

(* The second half of a step, in which nothing is received. *)
LEMMA Becoming ==
  ASSUME NEW h \in Host, NEW c, NEW d, NEW used, NEW segs, Becomes(h, d, used, segs), d \in Conn,
         conn \in [Host -> Conn], NEW cs1, Moves(conn, cs1, h, c), Good(cs1, wire, closedEarly),
         Stays(c, d), NEW e2 \in BOOLEAN, closedEarly => e2, OwnOK(h, d, e2),
         \A m \in segs : Own(h, d, m)
  PROVE  Good(conn', wire', e2) /\ Orderly(c, d) /\ conn'[h] = d
<1>1. Moves(cs1, conn', h, d) /\ \A m \in wire' : m \in wire \/ Own(h, d, m)  BY BecomesMoves
<1>2. cs1[h] = c  BY DEF Moves
<1>3. Good(conn', wire', e2) /\ Orderly(c, d)  BY <1>1, <1>2, StaysStep
<1> QED  BY <1>1, <1>3 DEF Moves

(* A plain acknowledgment, and a FIN, may be sent. *)
LEMMA MaySend ==
  ASSUME NEW h \in Host, NEW d \in Conn
  PROVE  /\ d.st # "CLOSED" => Own(h, d, Segment(h, d, "ACK", <<>>))
         /\ d.st = "ESTABLISHED" => Own(h, d, Segment(h, d, "ACK", Unacked(d)))
         /\ d.st \in FinOut => Own(h, d, Segment(h, d, "FIN", <<>>))
         /\ d.st = "SYN_SENT" => Own(h, d, Segment(h, d, "SYN", <<>>))
         /\ d.st = "SYN_RCVD" => Own(h, d, Segment(h, d, "SYNACK", <<>>))
         /\ Own(h, d, Segment(h, d, "RST", <<>>))
<1>1. d.st # "CLOSED" => Legit(d, "ACK", <<>>)  BY DEF Legit, Kinds
<1>2. d.st = "ESTABLISHED" => Legit(d, "ACK", Unacked(d))  BY DEF Legit, Kinds
<1>3. d.st \in FinOut => Legit(d, "FIN", <<>>)  BY DEF Legit, Kinds, FinOut
<1>4. d.st = "SYN_SENT" => Legit(d, "SYN", <<>>)  BY DEF Legit, Kinds
<1>5. d.st = "SYN_RCVD" => Legit(d, "SYNACK", <<>>)  BY DEF Legit, Kinds
<1>6. Segment(h, d, "RST", <<>>) \in SegmentType /\ Segment(h, d, "RST", <<>>).kind = "RST"
  <2>1. "RST" \in Kinds /\ <<>> \in Seq(Nat)  BY DEF Kinds
  <2> QED  BY <2>1, SegmentIs
<1> QED  BY <1>1, <1>2, <1>3, <1>4, <1>5, <1>6 DEF Own, Kinds

(* What is left of the events once the application has been called. *)
Called(c, d) == d.heard = c.heard /\ d.got = c.got /\ d.inc = c.inc

LEMMA CloseGood ==
  ASSUME NEW h \in Host, NEW c, NEW used, conn \in [Host -> Conn], NEW cs1, Moves(conn, cs1, h, c),
         Good(cs1, wire, closedEarly), c.st = "ESTABLISHED", uip_close(h, c, used)
  PROVE  Good(conn', wire', closedEarly') /\ Called(c, conn'[h])
<1> DEFINE d == [c EXCEPT !.st = "FIN_WAIT_1", !.stopped = FALSE, !.len = 1, !.nrtx = 0, !.left = TRUE]
           e2 == closedEarly \/ c.len > 0
<1>1. OwnOK(h, c, closedEarly) /\ closedEarly \in BOOLEAN  BY DEF Good, Moves
<1>2. c \in Conn /\ c.len \in Nat  BY <1>1, OwnFields
<1>3. 1 \in 0..SendMax /\ 0 \in 0..RtxMax  BY Consts
<1>4. /\ d \in Conn /\ d.st = "FIN_WAIT_1" /\ d.stopped = FALSE /\ d.len = 1 /\ d.left = TRUE
      /\ d.snd = c.snd /\ d.rcv = c.rcv /\ d.sent = c.sent /\ d.got = c.got /\ d.heard = c.heard
      /\ d.inc = c.inc
  BY <1>2, <1>3, Zenon DEF Conn
<1>5. Becomes(h, d, used, {Segment(h, d, "FIN", <<>>)}) /\ closedEarly' = e2
  BY DEF uip_close
<1>6. e2 \in BOOLEAN /\ (closedEarly => e2) /\ (~e2 => c.len = 0)  BY <1>1, <1>2
<1> HIDE DEF d, e2
<1>7. Keeps(c, d)  BY <1>2, <1>4 DEF Keeps
<1>8. OwnOK(h, d, e2) /\ Stays(c, d)  BY <1>1, <1>4, <1>6, <1>7, CloseOK
<1>9. Own(h, d, Segment(h, d, "FIN", <<>>))  BY <1>4, MaySend DEF FinOut
<1>10. Good(conn', wire', e2) /\ conn'[h] = d  BY <1>4, <1>5, <1>6, <1>8, <1>9, Becoming
<1> QED  BY <1>4, <1>5, <1>10 DEF Called

LEMMA AbortGood ==
  ASSUME NEW h \in Host, NEW c, NEW used, conn \in [Host -> Conn], NEW cs1, Moves(conn, cs1, h, c),
         Good(cs1, wire, closedEarly), c.st = "ESTABLISHED", uip_abort(h, c, used)
  PROVE  Good(conn', wire', closedEarly') /\ Called(c, conn'[h])
<1> DEFINE d == [Closed(c) EXCEPT !.left = TRUE]
<1>1. OwnOK(h, c, closedEarly) /\ closedEarly \in BOOLEAN  BY DEF Good, Moves
<1>2. c \in Conn  BY <1>1, OwnFields
<1>4. /\ d \in Conn /\ d.st = "CLOSED" /\ d.stopped = FALSE /\ d.left = TRUE
      /\ d.rcv = c.rcv /\ d.sent = c.sent /\ d.got = c.got /\ d.heard = c.heard
      /\ d.inc = c.inc
  <2> DEFINE k == Closed(c)
  <2>1. /\ k \in Conn /\ k.st = "CLOSED" /\ k.stopped = FALSE
        /\ k.rcv = c.rcv /\ k.sent = c.sent /\ k.got = c.got /\ k.heard = c.heard /\ k.inc = c.inc
    BY <1>2, Zenon DEF Conn, Closed
  <2> HIDE DEF k
  <2>2. d = [k EXCEPT !.left = TRUE]  BY DEF k
  <2> HIDE DEF d
  <2> QED  BY <2>1, <2>2, Zenon DEF Conn
<1>5. Becomes(h, d, used, {Segment(h, d, "RST", <<>>)}) /\ closedEarly' = closedEarly
  BY DEF uip_abort
<1> HIDE DEF d
<1>7. Keeps(c, d)  BY <1>2, <1>4 DEF Keeps
<1>8. OwnOK(h, d, closedEarly) /\ Stays(c, d)  BY <1>1, <1>4, <1>7, ClosedOK
<1>9. Own(h, d, Segment(h, d, "RST", <<>>))  BY <1>4, MaySend
<1>10. Good(conn', wire', closedEarly) /\ conn'[h] = d  BY <1>1, <1>4, <1>5, <1>8, <1>9, Becoming
<1> QED  BY <1>4, <1>5, <1>10 DEF Called

LEMMA SendGood ==
  ASSUME NEW h \in Host, NEW c, NEW used, conn \in [Host -> Conn], NEW cs1, Moves(conn, cs1, h, c),
         Good(cs1, wire, closedEarly), c.st = "ESTABLISHED", NEW n \in 0..SendMax, uip_send(h, c, used, n),
         UNCHANGED closedEarly
  PROVE  Good(conn', wire', closedEarly') /\ Called(c, conn'[h])
<1> DEFINE news == [i \in 1..n |-> Len(c.sent) + i]
           t == c.sent \o news
           k == IF n > 0 THEN n ELSE c.len
           d == [c EXCEPT !.sent = t, !.len = k, !.nrtx = 0]
<1>1. OwnOK(h, c, closedEarly) /\ closedEarly \in BOOLEAN  BY DEF Good, Moves
<1>2. c \in Conn /\ n \in Nat /\ Len(c.sent) \in Nat /\ c.sent \in Seq(Nat) /\ c.len \in 0..SendMax
  BY <1>1, OwnFields, ConnFields, Consts DEF Conn
<1>3. 0 \in 0..RtxMax /\ k \in 0..SendMax  BY <1>2, Consts
<1>11. t \in Seq(Nat)
  <2> HIDE DEF t
  <2>1. \A i \in 1..n : Len(c.sent) + i \in Nat  BY <1>2
  <2>2. news \in [1..n -> Nat]  BY <2>1
  <2>3. news \in Seq(Nat)  BY <2>2, <1>2
  <2> HIDE DEF news
  <2> QED  BY <2>3, <1>2 DEF t
<1>12. uip_send(h, c, used, n) <=>
         /\ n > 0 => c.len = 0 /\ Len(c.sent) + n <= BytesMax[h]
         /\ Becomes(h, d, used, {Segment(h, d, "ACK", Unacked(d))})
  BY Zenon DEF uip_send
<1> HIDE DEF t, k
<1>4. /\ d \in Conn /\ d.st = c.st /\ d.len = k /\ d.left = c.left
      /\ d.snd = c.snd /\ d.rcv = c.rcv /\ d.sent = t /\ d.got = c.got /\ d.heard = c.heard
      /\ d.inc = c.inc
  BY <1>2, <1>3, <1>11, Zenon DEF Conn
<1>5. /\ Becomes(h, d, used, {Segment(h, d, "ACK", Unacked(d))}) /\ closedEarly' = closedEarly
      /\ n > 0 => c.len = 0 /\ Len(c.sent) + n <= BytesMax[h]
  BY <1>12
<1> HIDE DEF d
<1>8. OwnOK(h, d, closedEarly) /\ Stays(c, d)
  <2>1. d.sent = c.sent \o news  BY <1>4 DEF t
  <2>2. d.len = IF n > 0 THEN n ELSE c.len  BY <1>4 DEF k
  <2> HIDE DEF news
  <2>3. news = [i \in 1..n |-> Len(c.sent) + i]  BY DEF news
  <2> QED  BY <1>1, <1>2, <1>4, <1>5, <2>1, <2>2, <2>3, SendOK
<1>9. Own(h, d, Segment(h, d, "ACK", Unacked(d)))  BY <1>4, MaySend
<1>10. Good(conn', wire', closedEarly) /\ conn'[h] = d  BY <1>1, <1>4, <1>5, <1>8, <1>9, Becoming
<1> QED  BY <1>4, <1>5, <1>10 DEF Called

LEMMA QuietGood ==
  ASSUME NEW h \in Host, NEW c, NEW used, conn \in [Host -> Conn], NEW cs1, Moves(conn, cs1, h, c),
         Good(cs1, wire, closedEarly), c.st = "ESTABLISHED", NEW s \in BOOLEAN, NEW news,
         Quiet(h, [c EXCEPT !.stopped = s], used, news), UNCHANGED closedEarly
  PROVE  Good(conn', wire', closedEarly') /\ Called(c, conn'[h])
<1> DEFINE k == [c EXCEPT !.stopped = s]
           d == [k EXCEPT !.nrtx = 0]
<1>1. OwnOK(h, c, closedEarly) /\ closedEarly \in BOOLEAN  BY DEF Good, Moves
<1>2. c \in Conn  BY <1>1, OwnFields
<1>3. 0 \in 0..RtxMax  BY Consts
<1>4. /\ k \in Conn /\ k.st = c.st /\ k.len = c.len /\ k.left = c.left
      /\ k.snd = c.snd /\ k.rcv = c.rcv /\ k.sent = c.sent /\ k.got = c.got /\ k.heard = c.heard
      /\ k.inc = c.inc
  BY <1>2, Zenon DEF Conn
<1>5. Quiet(h, k, used, news)  OBVIOUS
<1> HIDE DEF k
<1>6. /\ d \in Conn /\ d.st = k.st /\ d.len = k.len /\ d.left = k.left
      /\ d.snd = k.snd /\ d.rcv = k.rcv /\ d.sent = k.sent /\ d.got = k.got /\ d.heard = k.heard
      /\ d.inc = k.inc
  BY <1>4, <1>3, Zenon DEF Conn
<1> DEFINE segs == IF news THEN {Segment(h, d, "ACK", <<>>)} ELSE {}
<1>7. Becomes(h, d, used, segs) /\ closedEarly' = closedEarly  BY <1>5, Zenon DEF Quiet
<1>11. \A m \in segs : m = Segment(h, d, "ACK", <<>>)  OBVIOUS
<1> HIDE DEF d, segs
<1>8. OwnOK(h, d, closedEarly) /\ Stays(c, d)
  <2>1. Keeps(c, d)  BY <1>2, <1>4, <1>6 DEF Keeps
  <2> QED  BY <2>1, <1>1, <1>4, <1>6, SameOK
<1>9. \A m \in segs : Own(h, d, m)  BY <1>4, <1>6, <1>11, MaySend
<1>10. Good(conn', wire', closedEarly) /\ conn'[h] = d  BY <1>1, <1>6, <1>7, <1>8, <1>9, Becoming
<1> QED  BY <1>4, <1>6, <1>7, <1>10 DEF Called

LEMMA StoppedSame ==
  ASSUME NEW c \in Conn PROVE [c EXCEPT !.stopped = c.stopped] = c /\ c.stopped \in BOOLEAN
BY Zenon DEF Conn

LEMMA AppsendGood ==
  ASSUME NEW h \in Host, NEW c, NEW used, conn \in [Host -> Conn], NEW cs1, Moves(conn, cs1, h, c),
         Good(cs1, wire, closedEarly), c.st = "ESTABLISHED", NEW news, appsend(h, c, used, news)
  PROVE  Good(conn', wire', closedEarly') /\ Called(c, conn'[h])
<1>0. c \in Conn  BY DEF Good, Moves
<1>1. CASE uip_close(h, c, used)  BY <1>1, CloseGood
<1>2. CASE uip_abort(h, c, used)  BY <1>2, AbortGood
<1>3. ASSUME UNCHANGED closedEarly, NEW n \in 0..SendMax, uip_send(h, c, used, n)
      PROVE  Good(conn', wire', closedEarly') /\ Called(c, conn'[h])
  BY <1>3, SendGood
<1>4. ASSUME UNCHANGED closedEarly, NEW k, Quiet(h, c, used, k)
      PROVE  Good(conn', wire', closedEarly') /\ Called(c, conn'[h])
  <2>1. [c EXCEPT !.stopped = c.stopped] = c /\ c.stopped \in BOOLEAN  BY <1>0, StoppedSame
  <2>2. Quiet(h, [c EXCEPT !.stopped = c.stopped], used, k)  BY <2>1, <1>4
  <2> QED  BY <2>1, <2>2, <1>4, QuietGood
<1>5. ASSUME UNCHANGED closedEarly, NEW s \in BOOLEAN, NEW k, Quiet(h, [c EXCEPT !.stopped = s], used, k)
      PROVE  Good(conn', wire', closedEarly') /\ Called(c, conn'[h])
  BY <1>5, QuietGood
<1> QED  BY <1>1, <1>2, <1>3, <1>4, <1>5 DEF appsend

-------------------------------------------------------------------------------
(***************************************************************************)
(* The timer, and what arrives but gives nothing new.                      *)
(***************************************************************************)
Done(h) ==
  /\ Good(conn', wire', closedEarly')
  /\ conn'[h].inc = conn[h].inc => Orderly(conn[h], conn'[h])

LEMMA WireOK ==
  ASSUME Good(conn, wire, closedEarly), NEW m \in wire
  PROVE  OnWay(conn, closedEarly, m) /\ m \in SegmentType
BY DEF Good, OnWay

LEMMA GoodHost ==
  ASSUME NEW cs, NEW w, NEW e, Good(cs, w, e), NEW h \in Host
  PROVE  /\ cs \in [Host -> Conn] /\ e \in BOOLEAN /\ cs[h] \in Conn /\ OwnOK(h, cs[h], e)
         /\ Contact(cs, e) /\ Told(cs[h]) /\ Sides(h, cs[h])
BY DEF Good, OwnOK

(* A step of one host in which nothing is received. *)
LEMMA StaysDone ==
  ASSUME Good(conn, wire, closedEarly), NEW h \in Host, NEW d \in Conn, NEW used, NEW segs,
         Becomes(h, d, used, segs), UNCHANGED closedEarly, Stays(conn[h], d), OwnOK(h, d, closedEarly),
         \A m \in segs : Own(h, d, m)
  PROVE  Done(h)
<1>1. conn \in [Host -> Conn] /\ closedEarly \in BOOLEAN  BY GoodHost
<1>2. Moves(conn, conn, h, conn[h])  BY <1>1, NotMoved
<1>3. Good(conn', wire', closedEarly) /\ Orderly(conn[h], d) /\ conn'[h] = d  BY <1>1, <1>2, Becoming
<1> QED  BY <1>3 DEF Done

LEMMA ClosedIs ==
  ASSUME NEW c \in Conn
  PROVE  /\ Closed(c) \in Conn /\ Closed(c).st = "CLOSED" /\ Closed(c).stopped = FALSE
         /\ Closed(c).rcv = c.rcv /\ Closed(c).sent = c.sent /\ Closed(c).got = c.got
         /\ Closed(c).heard = c.heard /\ Closed(c).inc = c.inc /\ Closed(c).left = c.left
BY Zenon DEF Conn, Closed

LEMMA WaitsGood ==
  ASSUME Good(conn, wire, closedEarly), NEW h \in Host, Waits(h)
  PROVE  Done(h)
<1> DEFINE c == conn[h]
           d == Closed(c)
<1>1. c \in Conn /\ OwnOK(h, c, closedEarly) /\ Told(c) /\ Sides(h, c)  BY GoodHost
<1>2. /\ d \in Conn /\ d.st = "CLOSED" /\ d.stopped = FALSE /\ d.rcv = c.rcv /\ d.sent = c.sent
      /\ d.got = c.got /\ d.heard = c.heard /\ d.inc = c.inc /\ d.left = c.left
  BY <1>1, ClosedIs
<1>3. c.st \in {"FIN_WAIT_2", "TIME_WAIT"} /\ Becomes(h, d, {}, {}) /\ UNCHANGED closedEarly  BY DEF Waits
<1> HIDE DEF c, d
<1>4. c.left  BY <1>1, <1>3 DEF Told
<1>5. OwnOK(h, d, closedEarly) /\ Stays(c, d)
  <2>1. Keeps(c, d)  BY <1>1, <1>2 DEF Keeps
  <2> QED  BY <2>1, <1>1, <1>2, <1>4, ClosedOK
<1> QED  BY <1>2, <1>3, <1>5, StaysDone DEF c

LEMMA BrokenGood ==
  ASSUME Good(conn, wire, closedEarly), NEW h \in Host, conn[h].st # "CLOSED", NEW used, NEW segs,
         Becomes(h, [Closed(conn[h]) EXCEPT !.heard = "broken"], used, segs),
         \A m \in segs : m \in SegmentType /\ m.kind = "RST", UNCHANGED closedEarly
  PROVE  Done(h)
<1> DEFINE c == conn[h]
           k == Closed(c)
           d == [k EXCEPT !.heard = "broken"]
<1>1. c \in Conn /\ OwnOK(h, c, closedEarly) /\ Told(c) /\ Sides(h, c)  BY GoodHost
<1>2. /\ k \in Conn /\ k.st = "CLOSED" /\ k.stopped = FALSE /\ k.rcv = c.rcv /\ k.sent = c.sent
      /\ k.got = c.got /\ k.heard = c.heard /\ k.inc = c.inc /\ k.left = c.left
  BY <1>1, ClosedIs
<1>3. c.st # "CLOSED" /\ Becomes(h, d, used, segs)  OBVIOUS
<1> HIDE DEF k, c
<1>4. /\ d \in Conn /\ d.st = "CLOSED" /\ d.stopped = FALSE /\ d.rcv = c.rcv /\ d.sent = c.sent
      /\ d.got = c.got /\ d.heard = "broken" /\ d.inc = c.inc /\ d.left = c.left
  BY <1>2, Zenon DEF Conn
<1> HIDE DEF d
<1>5. OwnOK(h, d, closedEarly) /\ Stays(c, d)
  <2>1. Keeps(c, d)  BY <1>1, <1>4 DEF Keeps
  <2>2. c.inc # 0  BY <1>1, <1>3 DEF Sides
  <2> QED  BY <2>1, <2>2, <1>1, <1>4, ClosedOK
<1>6. \A m \in segs : Own(h, d, m)  BY DEF Own
<1> QED  BY <1>3, <1>4, <1>5, <1>6, StaysDone DEF c

LEMMA TimesOutGood ==
  ASSUME Good(conn, wire, closedEarly), NEW h \in Host, TimesOut(h)
  PROVE  Done(h)
<1> DEFINE c == [Closed(conn[h]) EXCEPT !.heard = "broken"]
           seg == Segment(h, c, "RST", <<>>)
<1>1. conn[h] \in Conn  BY GoodHost
<1>2. c \in Conn  BY <1>1, Zenon DEF Conn, Closed
<1>3. seg \in SegmentType /\ seg.kind = "RST"
  <2>1. "RST" \in Kinds /\ <<>> \in Seq(Nat)  BY DEF Kinds
  <2> HIDE DEF c
  <2> QED  BY <1>2, <2>1, SegmentIs
<1>4. conn[h].st # "CLOSED" /\ Becomes(h, c, {}, {seg}) /\ UNCHANGED closedEarly  BY DEF TimesOut
<1> HIDE DEF seg
<1> QED  BY <1>3, <1>4, BrokenGood

LEMMA RexmitGood ==
  ASSUME Good(conn, wire, closedEarly), NEW h \in Host, Rexmit(h)
  PROVE  Done(h)
<1> DEFINE c    == conn[h]
           n    == c.nrtx + 1
           d    == [c EXCEPT !.nrtx = n]
           kind == CASE d.st = "SYN_SENT" -> "SYN"
                     [] d.st = "SYN_RCVD" -> "SYNACK"
                     [] d.st = "ESTABLISHED" -> "ACK"
                     [] d.st \in {"FIN_WAIT_1", "CLOSING", "LAST_ACK"} -> "FIN"
           seg  == Segment(h, d, kind, IF kind = "ACK" THEN Unacked(d) ELSE <<>>)
<1>1. c \in Conn /\ OwnOK(h, c, closedEarly) /\ Told(c)  BY GoodHost
<1>2. /\ c.st # "CLOSED" /\ c.len > 0 /\ c.nrtx < RtxMax /\ Becomes(h, d, {}, {seg})
      /\ UNCHANGED closedEarly
  BY Zenon DEF Rexmit
<1>3. n \in 0..RtxMax  BY <1>1, <1>2, ConnFields, Consts
<1>4. c.st \in SynSent \cup {"ESTABLISHED"} \cup FinOut
  <2>1. Counts(c, Base(h, c.inc))  BY <1>1, OwnFields
  <2>2. c.st \in FinDone => c.len = 0  BY <2>1 DEF Counts
  <2>3. c.st \in SynSent \cup {"ESTABLISHED"} \cup Over  BY <1>1, ConnFields
  <2> QED  BY <2>2, <2>3, <1>2 DEF Over
<1>5. c.stopped => c.st = "ESTABLISHED"  BY <1>1 DEF Told
<1> HIDE DEF n
<1>6. /\ d \in Conn /\ d.st = c.st /\ d.stopped = c.stopped /\ d.snd = c.snd /\ d.len = c.len
      /\ d.rcv = c.rcv /\ d.sent = c.sent /\ d.got = c.got /\ d.heard = c.heard /\ d.inc = c.inc
      /\ d.left = c.left
  BY <1>1, <1>3, Zenon DEF Conn
<1> HIDE DEF c, d
<1>7. Own(h, d, seg)
  <2>1. CASE d.st = "SYN_SENT"
    <3>1. seg = Segment(h, d, "SYN", <<>>)  BY <2>1
    <3> HIDE DEF seg
    <3> QED  BY <2>1, <3>1, <1>6, MaySend
  <2>2. CASE d.st = "SYN_RCVD"
    <3>1. seg = Segment(h, d, "SYNACK", <<>>)  BY <2>2
    <3> HIDE DEF seg
    <3> QED  BY <2>2, <3>1, <1>6, MaySend
  <2>3. CASE d.st = "ESTABLISHED"
    <3>1. seg = Segment(h, d, "ACK", Unacked(d))  BY <2>3
    <3> HIDE DEF seg
    <3> QED  BY <2>3, <3>1, <1>6, MaySend
  <2>4. CASE d.st \in FinOut
    <3>1. seg = Segment(h, d, "FIN", <<>>)  BY <2>4 DEF FinOut
    <3> HIDE DEF seg
    <3> QED  BY <2>4, <3>1, <1>6, MaySend
  <2> QED  BY <2>1, <2>2, <2>3, <2>4, <1>4, <1>6 DEF SynSent
<1> HIDE DEF seg
<1>8. OwnOK(h, d, closedEarly) /\ Stays(c, d)
  <2>1. Keeps(c, d)  BY <1>1, <1>6 DEF Keeps
  <2> QED  BY <2>1, <1>1, <1>5, <1>6, SameOK
<1> QED  BY <1>2, <1>6, <1>7, <1>8, StaysDone DEF c

LEMMA PollGood ==
  ASSUME Good(conn, wire, closedEarly), NEW h \in Host, Poll(h)
  PROVE  Done(h)
<1>1. conn \in [Host -> Conn] /\ Told(conn[h])  BY GoodHost
<1>2. conn[h].st = "ESTABLISHED" /\ appsend(h, conn[h], {}, FALSE)  BY DEF Poll
<1>3. Good(conn', wire', closedEarly') /\ Called(conn[h], conn'[h])  BY <1>1, <1>2, NotMoved, AppsendGood
<1>4. Orderly(conn[h], conn'[h])  BY <1>3 DEF Called, Orderly
<1> QED  BY <1>3, <1>4 DEF Done

LEMMA RecvResetGood ==
  ASSUME Good(conn, wire, closedEarly), NEW h \in Host, NEW m \in wire, NEW u, RecvReset(h, m, u)
  PROVE  Done(h)
<1>1. m \in SegmentType  BY WireOK
<1>2. conn' = conn /\ closedEarly' = closedEarly /\ wire' = (wire \ u) \cup {Reset(m)}  BY DEF RecvReset
<1>3. OnWay(conn, closedEarly, Reset(m))  BY <1>1, ResetWay
<1>4. \A k \in wire' : OnWay(conn, closedEarly, k)  BY <1>2, <1>3 DEF Good
<1>5. Good(conn', wire', closedEarly')  BY <1>2, <1>4 DEF Good
<1>6. Orderly(conn[h], conn'[h])  BY <1>2 DEF Orderly
<1> QED  BY <1>5, <1>6 DEF Done

LEMMA RecvRstGood ==
  ASSUME Good(conn, wire, closedEarly), NEW h \in Host, NEW m \in wire, NEW u, RecvRst(h, m, u)
  PROVE  Done(h)
BY BrokenGood DEF RecvRst

(* The connection is as before, and acknowledges once more. *)
LEMMA AgainGood ==
  ASSUME Good(conn, wire, closedEarly), NEW h \in Host, conn[h].st # "CLOSED", NEW u,
         Becomes(h, conn[h], u, {Segment(h, conn[h], "ACK", <<>>)}), UNCHANGED closedEarly
  PROVE  Done(h)
<1>1. conn[h] \in Conn /\ OwnOK(h, conn[h], closedEarly)  BY GoodHost
<1>2. Stays(conn[h], conn[h])  BY <1>1, StaysSame
<1>3. Own(h, conn[h], Segment(h, conn[h], "ACK", <<>>))  BY <1>1, MaySend
<1> QED  BY <1>1, <1>2, <1>3, StaysDone

LEMMA RecvOutOfOrderGood ==
  ASSUME Good(conn, wire, closedEarly), NEW h \in Host, NEW m \in wire, NEW u, RecvOutOfOrder(h, m, u)
  PROVE  Done(h)
BY AgainGood DEF RecvOutOfOrder

LEMMA RecvTimeWaitGood ==
  ASSUME Good(conn, wire, closedEarly), NEW h \in Host, NEW m \in wire, NEW u, RecvTimeWait(h, m, u)
  PROVE  Done(h)
<1>1. conn[h].st # "CLOSED"  BY DEF RecvTimeWait, Received
<1> QED  BY <1>1, AgainGood DEF RecvTimeWait

LEMMA AfterAckIs ==
  ASSUME NEW c \in Conn, NEW m, NEW a, a = AfterAck(c, m)
  PROVE  /\ a \in Conn /\ a.st = c.st /\ a.stopped = c.stopped /\ a.nrtx = c.nrtx /\ a.rcv = c.rcv
         /\ a.sent = c.sent /\ a.got = c.got /\ a.heard = c.heard /\ a.inc = c.inc /\ a.left = c.left
         /\ Acks(c, m) => a.snd = c.snd + c.len /\ a.len = 0
         /\ ~Acks(c, m) => a = c
<1> DEFINE n == c.snd + c.len
           k == [c EXCEPT !.snd = n, !.len = 0]
<1>1. n \in Nat /\ 0 \in 0..SendMax  BY ConnFields, Consts
<1>2. Acks(c, m) => a = k  BY DEF AfterAck
<1>3. ~Acks(c, m) => a = c  BY DEF AfterAck
<1> HIDE DEF n
<1>4. /\ k \in Conn /\ k.st = c.st /\ k.stopped = c.stopped /\ k.nrtx = c.nrtx /\ k.rcv = c.rcv
      /\ k.sent = c.sent /\ k.got = c.got /\ k.heard = c.heard /\ k.inc = c.inc /\ k.left = c.left
      /\ k.snd = n /\ k.len = 0
  BY <1>1, Zenon DEF Conn
<1> HIDE DEF k
<1> QED  BY <1>2, <1>3, <1>4 DEF n

LEMMA RecvClosingGood ==
  ASSUME Good(conn, wire, closedEarly), NEW h \in Host, NEW m \in wire, NEW u, RecvClosing(h, m, u)
  PROVE  Done(h)
<1> DEFINE c == conn[h]
           a == AfterAck(c, m)
           d == [a EXCEPT !.st = "TIME_WAIT"]
<1>1. c \in Conn /\ OwnOK(h, c, closedEarly) /\ Told(c)  BY GoodHost
<1>2. c.st = "CLOSING" /\ Acks(c, m) /\ Becomes(h, d, u, {}) /\ UNCHANGED closedEarly
  BY DEF RecvClosing, Received
<1>3. /\ a \in Conn /\ a.st = c.st /\ a.stopped = c.stopped /\ a.rcv = c.rcv /\ a.sent = c.sent
      /\ a.got = c.got /\ a.heard = c.heard /\ a.inc = c.inc /\ a.left = c.left
      /\ a.snd = c.snd + c.len /\ a.len = 0
  BY <1>1, <1>2, AfterAckIs
<1> HIDE DEF a, c
<1>4. /\ d \in Conn /\ d.st = "TIME_WAIT" /\ d.stopped = a.stopped /\ d.rcv = a.rcv /\ d.sent = a.sent
      /\ d.got = a.got /\ d.heard = a.heard /\ d.inc = a.inc /\ d.left = a.left
      /\ d.snd = a.snd /\ d.len = a.len
  BY <1>3, Zenon DEF Conn
<1> HIDE DEF d
<1>5. OwnOK(h, d, closedEarly) /\ Stays(c, d)
  <2>1. Keeps(c, d)  BY <1>1, <1>3, <1>4 DEF Keeps
  <2>2. ~d.stopped  BY <1>1, <1>2, <1>3, <1>4 DEF Told
  <2> QED  BY <2>1, <2>2, <1>1, <1>2, <1>3, <1>4, ClosingOK
<1> QED  BY <1>2, <1>4, <1>5, StaysDone DEF c

LEMMA RecvLastAckGood ==
  ASSUME Good(conn, wire, closedEarly), NEW h \in Host, NEW m \in wire, NEW u, RecvLastAck(h, m, u)
  PROVE  Done(h)
<1> DEFINE c == conn[h]
           a == AfterAck(c, m)
           k == Closed(a)
           d == [k EXCEPT !.heard = "closed"]
<1>1. c \in Conn /\ OwnOK(h, c, closedEarly) /\ Told(c) /\ Sides(h, c)  BY GoodHost
<1>2. c.st = "LAST_ACK" /\ Acks(c, m) /\ Becomes(h, d, u, {}) /\ UNCHANGED closedEarly
  BY DEF RecvLastAck, Received
<1>3. /\ a \in Conn /\ a.rcv = c.rcv /\ a.sent = c.sent
      /\ a.got = c.got /\ a.heard = c.heard /\ a.inc = c.inc /\ a.left = c.left
  BY <1>1, <1>2, AfterAckIs
<1> HIDE DEF a, c
<1>6. /\ k \in Conn /\ k.st = "CLOSED" /\ k.stopped = FALSE /\ k.rcv = a.rcv /\ k.sent = a.sent
      /\ k.got = a.got /\ k.heard = a.heard /\ k.inc = a.inc /\ k.left = a.left
  BY <1>3, ClosedIs
<1> HIDE DEF k
<1>4. /\ d \in Conn /\ d.st = "CLOSED" /\ d.stopped = FALSE /\ d.rcv = k.rcv /\ d.sent = k.sent
      /\ d.got = k.got /\ d.heard = "closed" /\ d.inc = k.inc /\ d.left = k.left
  BY <1>6, Zenon DEF Conn
<1> HIDE DEF d
<1>5. OwnOK(h, d, closedEarly) /\ Stays(c, d)
  <2>1. Keeps(c, d)  BY <1>1, <1>3, <1>4, <1>6 DEF Keeps
  <2>2. d.heard = c.heard  BY <1>1, <1>2, <1>4 DEF Told
  <2> QED  BY <2>1, <2>2, <1>1, <1>2, <1>3, <1>4, <1>6, ClosedOK
<1> QED  BY <1>2, <1>4, <1>5, StaysDone DEF c

(* In ESTABLISHED, the connections with the acknowledgment taken. *)
LEMMA AckGood ==
  ASSUME Good(conn, wire, closedEarly), NEW h \in Host, NEW m, conn[h].st = "ESTABLISHED",
         NEW a, a = AfterAck(conn[h], m), NEW cs1, cs1 = [conn EXCEPT ![h] = a]
  PROVE  /\ Moves(conn, cs1, h, a) /\ Good(cs1, wire, closedEarly) /\ a \in Conn
         /\ OwnOK(h, a, closedEarly) /\ Stays(conn[h], a)
<1> DEFINE c == conn[h]
<1>1. c \in Conn /\ OwnOK(h, c, closedEarly) /\ conn \in [Host -> Conn] /\ closedEarly \in BOOLEAN  BY GoodHost
<1>2. /\ a \in Conn /\ a.st = c.st /\ a.stopped = c.stopped /\ a.rcv = c.rcv /\ a.sent = c.sent
      /\ a.got = c.got /\ a.heard = c.heard /\ a.inc = c.inc /\ a.left = c.left
      /\ Acks(c, m) => a.snd = c.snd + c.len /\ a.len = 0
      /\ ~Acks(c, m) => a = c
  BY <1>1, AfterAckIs
<1>3. OwnOK(h, a, closedEarly) /\ Stays(c, a)
  <2>1. CASE Acks(c, m)
    <3>1. Keeps(c, a)  BY <1>1, <1>2 DEF Keeps
    <3> QED  BY <3>1, <2>1, <1>1, <1>2, AckedOK
  <2>2. CASE ~Acks(c, m)  BY <2>2, <1>1, <1>2, StaysSame
  <2> QED  BY <2>1, <2>2
<1>4. Moves(conn, cs1, h, a)  BY <1>1, <1>2 DEF Moves
<1>5. Good(cs1, wire, closedEarly)  BY <1>1, <1>3, <1>4, StaysStep
<1> QED  BY <1>2, <1>3, <1>4, <1>5

-------------------------------------------------------------------------------
(***************************************************************************)
(* Receiving: what arrives in order is of the connection it arrives at.    *)
(***************************************************************************)
Fits(cs, e, h, m, j) ==
  /\ Within(Peer(h), m, j)
  /\ j = cs[Peer(h)].inc => Current(Peer(h), cs[Peer(h)], e, m)
  /\ h = "client" => Joined(cs, j)
  /\ h = "server" => j = cs["client"].inc

LEMMA InOrder ==
  ASSUME NEW cs, NEW w, NEW e, Good(cs, w, e), NEW h \in Host, cs[h].st \in Alive, NEW m,
         OnWay(cs, e, m), m.to = h, m.kind # "RST", m.seq = cs[h].rcv
  PROVE  /\ m \in SegmentType
         /\ \E j \in Nat : Fits(cs, e, h, m, j)
<1>1. PICK j \in Nat : OfInc(cs, e, m, j)  BY DEF OnWay
<1>2. m \in SegmentType  BY DEF OnWay
<1>3. /\ cs \in [Host -> Conn] /\ Contact(cs, e)
  BY DEF Good
<1>4. j \in 1..cs[Peer(h)].inc /\ Within(Peer(h), m, j)
      /\ (j = cs[Peer(h)].inc => Current(Peer(h), cs[Peer(h)], e, m))
  BY <1>1 DEF OfInc
<1>5. CASE h = "client"
  <2>1. cs["client"].rcv # 0  BY <1>3, <1>5 DEF Contact
  <2>2. PICK k \in 1..cs["server"].inc : Joined(cs, k)  BY <2>1, <1>3 DEF Contact
  <2>3. k \in Nat /\ Within("server", m, j)  BY <2>2, <1>4, <1>5, HostPeer
  <2>4. j = k  BY <2>2, <2>3, <1>2, <1>3, <1>5, SameInc
  <2>5. "client" # "server"  OBVIOUS
  <2>6. Fits(cs, e, h, m, j)  BY <2>2, <2>4, <2>5, <1>4, <1>5 DEF Fits
  <2> QED  BY <2>6, <1>2
<1>6. CASE h = "server"
  <2>1. Sides("client", cs["client"]) /\ cs["client"] \in Conn  BY HostPeer, GoodHost
  <2>2. cs["client"].inc <= 1 /\ cs["client"].inc \in Nat  BY <2>1, ConnFields DEF Sides
  <2>3. j = cs["client"].inc  BY <2>2, <1>4, <1>6, HostPeer
  <2>4. Fits(cs, e, h, m, j)  BY <2>3, <1>4, <1>6 DEF Fits
  <2> QED  BY <2>4, <1>2
<1> QED  BY <1>5, <1>6 DEF Host

(* Both ends know each other's numbers. *)
LEMMA PeerFollows ==
  ASSUME NEW cs, NEW w, NEW e, Good(cs, w, e), NEW h \in Host, cs[h].st \in Alive, NEW p, p = Peer(h)
  PROVE  /\ h = "server" => Follows(cs[h], cs[p], 0, e) /\ Joined(cs, cs[h].inc) /\ cs[p].inc = 1
         /\ h = "client" /\ Joined(cs, cs[p].inc) => Follows(cs[h], cs[p], IssGap * cs[p].inc, e)
<1>1. Contact(cs, e) /\ Sides(h, cs[h]) /\ cs[h] \in Conn  BY GoodHost
<1>2. cs[h].inc # 0  BY <1>1 DEF Sides, Alive, FinOut, FinDone
<1>3. cs[h].inc > 0  BY <1>1, <1>2, ConnFields
<1> QED  BY <1>1, <1>3, HostPeer DEF Contact

(* Received from the same sender: only r has moved. *)
LEMMA FollowsSender ==
  ASSUME NEW r, NEW s, NEW s2, NEW b, NEW e, Follows(r, s, b, e), s2.sent = s.sent,
         s.st \in Over => s2.st \in Over
  PROVE  Follows(r, s2, b, e)
BY DEF Follows

LEMMA FollowsNone ==
  ASSUME NEW r, NEW d, NEW s, NEW b, NEW e, Follows(r, s, b, e), d.got = r.got, d.rcv = r.rcv,
         d.heard = r.heard, d.st = "ESTABLISHED" => r.st = "ESTABLISHED", r.left => d.left
  PROVE  Follows(d, s, b, e)
BY DEF Follows

LEMMA FollowsData ==
  ASSUME NEW r \in Conn, NEW d \in Conn, NEW s \in Conn, NEW b \in Nat, NEW e, NEW m \in SegmentType,
         Follows(r, s, b, e), m.seq = r.rcv, m.seq + Len(m.data) <= b + 1 + Len(s.sent),
         \A i \in 1..Len(m.data) : m.data[i] = (m.seq - b - 1) + i,
         d.rcv = r.rcv + Len(m.data), d.heard = "open",
         \/ d.got = r.got \o m.data /\ r.st = "ESTABLISHED"
         \/ d.got = r.got /\ d.st # "ESTABLISHED"
  PROVE  Follows(d, s, b, e)
<1> DEFINE g == r.got
           k == Len(g)
           x == m.data
           n == Len(x)
           t == Len(s.sent)
           v == g \o x
<1>1. /\ g \in Seq(Nat) /\ k \in Nat /\ x \in Seq(Nat) /\ n \in Nat /\ t \in Nat /\ r.rcv \in Nat
  BY ConnFields, SegmentFields
<1>2. r.rcv + n <= b + 1 + t /\ d.rcv = r.rcv + n /\ \A i \in 1..n : x[i] = (r.rcv - b - 1) + i
  OBVIOUS
<1>3. k <= t /\ (\A i \in 1..k : g[i] = i) /\ (r.st = "ESTABLISHED" => r.rcv = b + 1 + k)
  BY DEF Follows
<1>4. CASE d.got = v /\ r.st = "ESTABLISHED"
  <2>1. Len(v) = k + n /\ \A i \in 1..Len(v) : v[i] = IF i <= k THEN g[i] ELSE x[i - k]
    <3> HIDE DEF g, x
    <3> QED  BY <1>1
  <2> HIDE DEF g, k, x, n, t, v
  <2>2. r.rcv = b + 1 + k  BY <1>3, <1>4
  <2>3. Len(v) <= t  BY <2>1, <2>2, <1>1, <1>2
  <2>4. \A i \in 1..Len(v) : v[i] = i
    <3> TAKE i \in 1..Len(v)
    <3>1. i \in 1..(k + n)  BY <2>1
    <3>2. CASE i <= k
      <4>1. i \in 1..k  BY <3>1, <3>2, <1>1
      <4> QED  BY <4>1, <3>2, <2>1, <1>3
    <3>3. CASE ~(i <= k)
      <4>1. i - k \in 1..n  BY <3>1, <3>3, <1>1
      <4>2. v[i] = (r.rcv - b - 1) + (i - k)  BY <4>1, <3>3, <2>1, <1>2
      <4> QED  BY <4>2, <2>2, <3>1, <1>1
    <3> QED  BY <3>2, <3>3
  <2>5. d.rcv = b + 1 + Len(v)
    <3>1. r.rcv + n = b + 1 + (k + n)  BY <2>2, <1>1
    <3> QED  BY <3>1, <2>1, <1>2
  <2>6. d.rcv <= b + 1 + t  BY <1>2
  <2> QED  BY <2>3, <2>4, <2>5, <2>6, <1>4 DEF Follows, t
<1>5. CASE d.got = g /\ d.st # "ESTABLISHED"
  <2>1. d.rcv <= b + 1 + Len(s.sent)  BY <1>2
  <2> QED  BY <2>1, <1>3, <1>5 DEF Follows
<1> QED  BY <1>4, <1>5

LEMMA FollowsFin ==
  ASSUME NEW r \in Conn, NEW d \in Conn, NEW s \in Conn, NEW b \in Nat, NEW e,
         Follows(r, s, b, e), s.st \in Over, ~e => r.rcv = b + 1 + Len(s.sent),
         d.got = r.got, d.heard = "closed", d.st # "ESTABLISHED", r.st = "ESTABLISHED" \/ d.left
  PROVE  Follows(d, s, b, e)
<1>1. Len(r.got) \in Nat /\ Len(s.sent) \in Nat  BY ConnFields
<1>2. ASSUME ~e, ~d.left PROVE Len(r.got) = Len(s.sent)
  <2> DEFINE k == Len(r.got)
             t == Len(s.sent)
  <2>1. r.rcv = b + 1 + k /\ r.rcv = b + 1 + t  BY <1>2 DEF Follows
  <2> HIDE DEF k, t
  <2>2. k \in Nat /\ t \in Nat  BY <1>1 DEF k, t
  <2>3. k = t  BY <2>1, <2>2
  <2> QED  BY <2>3 DEF k, t
<1> QED  BY <1>2 DEF Follows

(* The bytes and the FIN that host h takes raise the number it expects.    *)
Raises(cs, h, d) ==
  /\ d.inc = cs[h].inc /\ d.sent = cs[h].sent /\ cs[h].rcv <= d.rcv
  /\ cs[h].st \in Alive /\ d.st \in Alive /\ (cs[h].st \in Over => d.st \in Over)
  /\ cs[h].heard = "open"

LEMMA ContactRaises ==
  ASSUME NEW cs, NEW w, NEW e, Good(cs, w, e), NEW h \in Host, NEW d \in Conn, NEW cs2, Moves(cs, cs2, h, d),
         Raises(cs, h, d), KeepsJoined(cs, cs2), NEW p, p = Peer(h),
         h = "server" => Follows(d, cs[p], 0, e),
         h = "client" /\ Joined(cs, cs[p].inc) => Follows(d, cs[p], IssGap * cs[p].inc, e),
         d.st = "FIN_WAIT_2" /\ ~e /\ Joined(cs, cs["server"].inc) => cs[p].heard \in {"closed", "broken"}
  PROVE  Contact(cs2, e) /\ Grows(cs[h], d)
<1>1. cs \in [Host -> Conn] /\ Contact(cs, e) /\ cs[h] \in Conn /\ p \in Host /\ p # h /\ cs[p] \in Conn
  BY GoodHost, HostPeer
<1>2. cs2 \in [Host -> Conn] /\ cs2[h] = d /\ cs2[p] = cs[p]  BY <1>1 DEF Moves
<1>3. Len(d.sent) \in Nat /\ Len(cs[h].sent) = Len(d.sent)  BY ConnFields DEF Raises
<1>4. Grows(cs[h], d)  BY <1>3 DEF Raises, Grows
<1>5. /\ cs["server"].inc > 0 => cs["client"].inc = 1 /\ Follows(cs["server"], cs["client"], 0, e)
      /\ cs["client"].rcv = 0 \/ \E j \in 1..cs["server"].inc : Joined(cs, j)
      /\ cs["client"].st \in Alive => cs["client"].rcv > 0
      /\ cs["server"].st \in Alive \/ cs["server"].heard \in {"open", "closed"} \/ cs["server"].rcv > 1
           => Joined(cs, cs["server"].inc)
      /\ Joined(cs, cs["server"].inc)
           => Follows(cs["client"], cs["server"], IssGap * cs["server"].inc, e)
      /\ Joined(cs, cs["server"].inc) /\ ~e => \A g \in Host : cs[g].st = "FIN_WAIT_2" =>
                                       cs[Peer(g)].heard \in {"closed", "broken"}
  BY <1>1 DEF Contact
<1>6. cs2["server"].inc = cs["server"].inc /\ cs2["client"].inc = cs["client"].inc /\ cs["server"].inc \in Nat
  <2>1. d.inc = cs[h].inc  BY DEF Raises
  <2>2. \A g \in Host : cs2[g].inc = cs[g].inc  BY <2>1 DEF Moves
  <2> QED  BY <2>2, <1>1, HostPeer, ConnFields
<1> DEFINE k == cs["server"].inc
<1>7. Joined(cs2, k) => Joined(cs, k)
  <2>1. CASE h = "server"
    <3>1. cs2["client"] = cs["client"]  BY <2>1, HostPeer DEF Moves
    <3> QED  BY <3>1 DEF Joined
  <2>2. CASE h = "client"
    <3>1. cs["client"].rcv # 0  BY <2>2, <1>5 DEF Raises
    <3>2. PICK j \in 1..k : Joined(cs, j)  BY <3>1, <1>5
    <3>3. Joined(cs2, j) /\ j \in Nat  BY <3>2 DEF KeepsJoined
    <3> HIDE DEF k
    <3>4. Joined(cs2, k) => j = k  BY <3>3, <1>2, <1>6, JoinedOnce DEF k
    <3> QED  BY <3>2, <3>4
  <2> QED  BY <2>1, <2>2 DEF Host
<1>8. Joined(cs, k) => Joined(cs2, k)  BY <1>6 DEF KeepsJoined
<1>9. cs[h].st \in Over => d.st \in Over  BY DEF Raises
<1>10. d.sent = cs[h].sent  BY DEF Raises
<1> DEFINE A1 == k > 0 => cs2["client"].inc = 1 /\ Follows(cs2["server"], cs2["client"], 0, e)
           A5 == Joined(cs2, k) => Follows(cs2["client"], cs2["server"], IssGap * k, e)
<1>11. A1 /\ A5
  <2>1. CASE h = "server"
    <3>1. cs2["client"] = cs["client"] /\ cs2["server"] = d /\ p = "client"  BY <2>1, <1>2, HostPeer
    <3>2. Follows(d, cs["client"], 0, e)  BY <2>1, <3>1
    <3>3. A1  BY <3>1, <3>2, <1>5
    <3>4. Joined(cs2, k) => Follows(cs["client"], cs["server"], IssGap * k, e)  BY <1>5, <1>7
    <3>5. A5  BY <2>1, <3>1, <3>4, <1>9, <1>10, FollowsSender
    <3> QED  BY <3>3, <3>5
  <2>2. CASE h = "client"
    <3>1. cs2["server"] = cs["server"] /\ cs2["client"] = d /\ p = "server"  BY <2>2, <1>2, HostPeer
    <3>2. A5  BY <2>2, <3>1, <1>7
    <3>3. k > 0 => Follows(cs["server"], d, 0, e)  BY <2>2, <1>5, <1>9, <1>10, FollowsSender
    <3>4. A1  BY <3>1, <3>3, <1>5, <1>6
    <3> QED  BY <3>2, <3>4
  <2> QED  BY <2>1, <2>2 DEF Host
<1>12. cs2["client"].rcv = 0 \/ \E j \in 1..k : Joined(cs2, j)
  <2>1. CASE cs["client"].rcv = 0
    <3>1. h = "server"  BY <2>1, <1>5 DEF Raises, Host
    <3> QED  BY <2>1, <3>1, <1>2, HostPeer
  <2>2. CASE \E j \in 1..k : Joined(cs, j)
    <3>1. PICK j \in 1..k : Joined(cs, j)  BY <2>2
    <3>2. j \in Nat  BY <3>1, <1>6
    <3> QED  BY <3>1, <3>2 DEF KeepsJoined
  <2> QED  BY <2>1, <2>2, <1>5
<1>13. cs2["client"].st \in Alive => cs2["client"].rcv > 0
  <2>1. CASE h = "server"  BY <2>1, <1>2, <1>5, HostPeer
  <2>2. CASE h = "client"
    <3>1. cs["client"].rcv > 0 /\ cs["client"].rcv <= d.rcv  BY <2>2, <1>5 DEF Raises
    <3>2. cs["client"].rcv \in Nat /\ d.rcv \in Nat  BY <1>1, HostPeer, ConnFields
    <3>3. d.rcv > 0  BY <3>1, <3>2
    <3> QED  BY <2>2, <3>3, <1>2
  <2> QED  BY <2>1, <2>2 DEF Host
<1>14. cs2["server"].st \in Alive \/ cs2["server"].heard \in {"open", "closed"} \/ cs2["server"].rcv > 1
         => Joined(cs2, k)
  <2>1. CASE h = "server"
    <3>1. Joined(cs, k)  BY <2>1, <1>5 DEF Raises
    <3> QED  BY <3>1, <1>8
  <2>2. CASE h = "client"
    <3>1. cs2["server"] = cs["server"]  BY <2>2, <1>2, HostPeer
    <3> QED  BY <3>1, <1>5, <1>8
  <2> QED  BY <2>1, <2>2 DEF Host
<1>15. Joined(cs2, k) /\ ~e => \A g \in Host : cs2[g].st = "FIN_WAIT_2" => cs2[Peer(g)].heard \in {"closed", "broken"}
  <2> SUFFICES ASSUME Joined(cs2, k), ~e, NEW g \in Host, cs2[g].st = "FIN_WAIT_2"
               PROVE  cs2[Peer(g)].heard \in {"closed", "broken"}
    OBVIOUS
  <2>1. CASE g = h
    <3>1. d.st = "FIN_WAIT_2" /\ Joined(cs, k)  BY <2>1, <1>2, <1>7
    <3> QED  BY <2>1, <3>1, <1>2
  <2>2. CASE g # h
    <3>1. g = p /\ Peer(g) = h  BY <2>2, HostPeer DEF Host, Peer
    <3>2. cs[h].heard \in {"closed", "broken"}  BY <3>1, <1>2, <1>5, <1>7
    <3> QED  BY <3>2 DEF Raises
  <2> QED  BY <2>1, <2>2
<1> HIDE DEF k
<1>16. Contact(cs2, e)
  <2>1. cs2["server"].inc = k  BY <1>6 DEF k
  <2> QED  BY <2>1, <1>11, <1>12, <1>13, <1>14, <1>15 DEF Contact
<1> QED  BY <1>4, <1>16

(* What the client takes leaves it in its connection. *)
LEMMA RaisesJoined ==
  ASSUME NEW cs \in [Host -> Conn], NEW h \in Host, NEW d \in Conn, NEW cs2, Moves(cs, cs2, h, d),
         cs[h].rcv <= d.rcv, NEW j \in Nat,
         h = "client" => Joined(cs, j) /\ d.rcv <= IssGap * j + BytesMax["server"] + 2
  PROVE  KeepsJoined(cs, cs2)
<1> SUFFICES ASSUME NEW k \in Nat, Joined(cs, k) PROVE Joined(cs2, k)
  BY DEF KeepsJoined
<1>1. CASE h = "server"
  <2>1. cs2["client"] = cs["client"]  BY <1>1, HostPeer DEF Moves
  <2> QED  BY <2>1 DEF Joined
<1>2. CASE h = "client"
  <2>1. j = k  BY <1>2, JoinedOnce
  <2>2. cs2["client"] = d  BY <1>2 DEF Moves
  <2>3. IssGap * k < cs["client"].rcv /\ cs["client"].rcv <= d.rcv /\ d.rcv <= IssGap * k + BytesMax["server"] + 2
    BY <2>1, <1>2 DEF Joined
  <2>4. cs["client"].rcv \in Nat /\ d.rcv \in Nat /\ IssGap * k \in Nat  BY <1>2, ConnFields, BaseType, HostPeer
  <2>5. IssGap * k < d.rcv  BY <2>3, <2>4
  <2> QED  BY <2>2, <2>3, <2>5 DEF Joined
<1> QED  BY <1>1, <1>2 DEF Host


(* What host h may take of m, its connection being d then. *)
GotData(c, m, d) == d.got = c.got \o m.data

TakesData(c, m, d) ==
  /\ m.seq = c.rcv /\ m.data # <<>> /\ d.rcv = c.rcv + Len(m.data) /\ d.heard = "open"
  /\ \/ GotData(c, m, d) /\ c.st = "ESTABLISHED"
     \/ d.got = c.got /\ d.st # "ESTABLISHED"

TakesFin(c, m, d) ==
  /\ m.seq = c.rcv /\ m.kind = "FIN" /\ d.rcv = c.rcv + 1 /\ d.heard = "closed"
  /\ d.got = c.got /\ d.st # "ESTABLISHED" /\ (c.st = "ESTABLISHED" \/ d.left)

TakesNone(c, m, d) ==
  /\ d.rcv = c.rcv /\ d.heard = c.heard /\ d.got = c.got
  /\ d.st = "ESTABLISHED" => c.st = "ESTABLISHED"
  /\ c.left => d.left

Takes(c, m, d) == TakesData(c, m, d) \/ TakesFin(c, m, d) \/ TakesNone(c, m, d)

(* One half: how far the receiver follows the sender then. *)
LEMMA FollowsTakes ==
  ASSUME NEW r \in Conn, NEW d \in Conn, NEW s \in Conn, NEW p \in Host, NEW e, NEW m \in SegmentType,
         NEW b, b = Base(p, s.inc), Follows(r, s, b, e), Takes(r, m, d),
         m.seq = r.rcv => Within(p, m, s.inc) /\ Current(p, s, e, m)
  PROVE  Follows(d, s, b, e)
<1>1. s.inc \in Nat /\ b \in Nat  BY ConnFields, BaseType
<1>2. CASE TakesData(r, m, d)
  <2>1. Within(p, m, s.inc) /\ Current(p, s, e, m) /\ m.data # <<>>  BY <1>2 DEF TakesData
  <2>2. m.seq + Len(m.data) <= b + 1 + Len(s.sent)  BY <2>1 DEF Current
  <2>3. \A i \in 1..Len(m.data) : m.data[i] = (m.seq - b - 1) + i  BY <2>1 DEF Within
  <2>4. \/ d.got = r.got \o m.data /\ r.st = "ESTABLISHED"
        \/ d.got = r.got /\ d.st # "ESTABLISHED"
    BY <1>2 DEF TakesData, GotData
  <2>5. m.seq = r.rcv /\ d.rcv = r.rcv + Len(m.data) /\ d.heard = "open"  BY <1>2 DEF TakesData
  <2> QED  BY <2>2, <2>3, <2>4, <2>5, <1>1, FollowsData
<1>3. CASE TakesFin(r, m, d)
  <2>1. Current(p, s, e, m) /\ m.kind = "FIN" /\ m.seq = r.rcv  BY <1>3 DEF TakesFin
  <2>2. s.st \in Over /\ (~e => r.rcv = b + 1 + Len(s.sent))  BY <2>1 DEF Current
  <2>3. d.got = r.got /\ d.heard = "closed" /\ d.st # "ESTABLISHED" /\ (r.st = "ESTABLISHED" \/ d.left)
    BY <1>3 DEF TakesFin
  <2> QED  BY <2>2, <2>3, <1>1, FollowsFin
<1>4. CASE TakesNone(r, m, d)  BY <1>4, FollowsNone DEF TakesNone
<1> QED  BY <1>2, <1>3, <1>4 DEF Takes

(* The number expected next stays within the connection. *)
LEMMA TakesBound ==
  ASSUME NEW r \in Conn, NEW d \in Conn, NEW m \in SegmentType, NEW j \in Nat, Within("server", m, j),
         TakesData(r, m, d) \/ TakesFin(r, m, d)
  PROVE  r.rcv <= d.rcv /\ d.rcv <= IssGap * j + BytesMax["server"] + 2
<1> DEFINE b == IssGap * j
           B == BytesMax["server"]
           n == Len(m.data)
<1>1. r.rcv \in Nat /\ d.rcv \in Nat /\ b \in Nat /\ B \in Nat /\ n \in Nat /\ b = Base("server", j)
  BY ConnFields, SegmentFields, BaseType, HostPeer, Consts
<1> HIDE DEF b, B, n
<1>2. CASE TakesData(r, m, d)
  <2>1. d.rcv = r.rcv + n /\ r.rcv + n <= b + 1 + B  BY <1>1, <1>2 DEF TakesData, Within, n, B
  <2> QED  BY <2>1, <1>1 DEF b, B
<1>3. CASE TakesFin(r, m, d)
  <2>1. d.rcv = r.rcv + 1 /\ r.rcv <= b + 1 + B  BY <1>1, <1>3 DEF TakesFin, Within, n, B
  <2> QED  BY <2>1, <1>1 DEF b, B
<1> QED  BY <1>2, <1>3

LEMMA ReceivesGood ==
  ASSUME NEW cs, NEW w, NEW e, Good(cs, w, e), NEW h \in Host, NEW m, OnWay(cs, e, m), m.to = h,
         m.kind # "RST", NEW d \in Conn, NEW cs2, Moves(cs, cs2, h, d), OwnOK(h, d, e),
         NEW c, c = cs[h], c.st \in Alive, d.st \in Alive, c.st \in Over => d.st \in Over,
         c.heard = "open", d.inc = c.inc, d.sent = c.sent, Takes(c, m, d),
         d.st = "FIN_WAIT_2" /\ ~e /\ Joined(cs, cs["server"].inc)
           => cs[Peer(h)].heard \in {"closed", "broken"},
         NEW w2, \A k \in w2 : k \in w \/ Own(h, d, k)
  PROVE  Good(cs2, w2, e)
<1> DEFINE p == Peer(h)
           s == cs[p]
<1>1. /\ p \in Host /\ s \in Conn /\ c \in Conn /\ cs \in [Host -> Conn] /\ e \in BOOLEAN
      /\ Contact(cs, e) /\ m \in SegmentType
  BY GoodHost, HostPeer DEF OnWay
<1>2. c.rcv \in Nat /\ d.rcv \in Nat /\ cs["server"].inc \in Nat  BY <1>1, ConnFields, HostPeer
<1>3. /\ h = "server" => Follows(c, s, 0, e) /\ Joined(cs, cs[h].inc) /\ s.inc = 1
      /\ h = "client" /\ Joined(cs, s.inc) => Follows(c, s, IssGap * s.inc, e)
  BY <1>1, PeerFollows
<1>4. m.seq = c.rcv => \E j \in Nat : Fits(cs, e, h, m, j)  BY InOrder
<1> HIDE DEF p, s
<1>5. h = "server" => Follows(d, s, 0, e)
  <2> SUFFICES ASSUME h = "server" PROVE Follows(d, s, 0, e)
    OBVIOUS
  <2>1. ASSUME m.seq = c.rcv PROVE Within(p, m, s.inc) /\ Current(p, s, e, m)
    <3>1. PICK j \in Nat : Fits(cs, e, h, m, j)  BY <2>1, <1>4
    <3>2. h = "server" => p = "client"  BY HostPeer DEF p
    <3> QED  BY <3>1, <3>2 DEF Fits, p, s
  <2>2. p = "client" /\ Base(p, s.inc) = 0  BY HostPeer DEF p, Base
  <2>3. Follows(c, s, 0, e)  BY <1>3
  <2> QED  BY <2>1, <2>2, <2>3, <1>1, FollowsTakes
<1>6. h = "client" /\ Joined(cs, s.inc) => Follows(d, s, IssGap * s.inc, e)
  <2> SUFFICES ASSUME h = "client", Joined(cs, s.inc) PROVE Follows(d, s, IssGap * s.inc, e)
    OBVIOUS
  <2>1. s.inc \in Nat  BY <1>1, ConnFields
  <2>2. ASSUME m.seq = c.rcv PROVE Within(p, m, s.inc) /\ Current(p, s, e, m)
    <3>1. PICK j \in Nat : Fits(cs, e, h, m, j)  BY <2>2, <1>4
    <3>2. /\ Within(p, m, j) /\ (j = s.inc => Current(p, s, e, m)) /\ Joined(cs, j)
      BY <3>1 DEF Fits, p, s
    <3>3. j = s.inc  BY <2>1, <3>1, <3>2, <1>1, JoinedOnce
    <3> QED  BY <3>2, <3>3
  <2>3. p = "server" /\ Base(p, s.inc) = IssGap * s.inc  BY HostPeer DEF p, Base
  <2>4. Follows(c, s, IssGap * s.inc, e)  BY <1>3
  <2> QED  BY <2>2, <2>3, <2>4, <1>1, FollowsTakes
<1>7. c.rcv <= d.rcv /\ KeepsJoined(cs, cs2)
  <2>1. CASE TakesNone(c, m, d)
    <3>1. d.rcv = c.rcv  BY <2>1 DEF TakesNone
    <3>2. cs2["client"].rcv = cs["client"].rcv
      <4>1. CASE h = "client"  BY <4>1, <3>1 DEF Moves
      <4>2. CASE h = "server"  BY <4>2, HostPeer DEF Moves
      <4> QED  BY <4>1, <4>2 DEF Host
    <3> QED  BY <3>1, <3>2, <1>2 DEF KeepsJoined, Joined
  <2>2. CASE TakesData(c, m, d) \/ TakesFin(c, m, d)
    <3>1. m.seq = c.rcv  BY <2>2 DEF TakesData, TakesFin
    <3>5. PICK j \in Nat : Fits(cs, e, h, m, j)  BY <3>1, <1>4
    <3>2. Within(p, m, j) /\ (h = "client" => Joined(cs, j))  BY <3>5 DEF Fits, p
    <3>3. h = "client" => c.rcv <= d.rcv /\ d.rcv <= IssGap * j + BytesMax["server"] + 2
      <4>1. h = "client" => p = "server"  BY HostPeer DEF p
      <4> QED  BY <4>1, <3>2, <3>5, <2>2, <1>1, TakesBound
    <3>4. c.rcv <= d.rcv
      <4>1. Len(m.data) \in Nat  BY <1>1, SegmentFields
      <4>2. d.rcv = c.rcv + Len(m.data) \/ d.rcv = c.rcv + 1  BY <2>2 DEF TakesData, TakesFin
      <4> QED  BY <4>1, <4>2, <1>2
    <3> QED  BY <3>2, <3>3, <3>4, <3>5, <1>1, RaisesJoined
  <2> QED  BY <2>1, <2>2 DEF Takes
<1>8. Raises(cs, h, d)  BY <1>7 DEF Raises
<1>9. Contact(cs2, e) /\ Grows(c, d)
  <2>1. /\ h = "server" => Follows(d, cs[p], 0, e)
        /\ h = "client" /\ Joined(cs, cs[p].inc) => Follows(d, cs[p], IssGap * cs[p].inc, e)
        /\ d.st = "FIN_WAIT_2" /\ ~e /\ Joined(cs, cs["server"].inc) => cs[p].heard \in {"closed", "broken"}
        /\ p = Peer(h)
    BY <1>5, <1>6 DEF p, s
  <2> QED  BY <2>1, <1>7, <1>8, ContactRaises
<1>10. cs2 \in [Host -> Conn] /\ cs2[h] = d  BY DEF Moves
<1>11. \A k \in w2 : k \in w \/ OnWay(cs2, e, k)  BY <1>9, <1>10, OwnWay
<1> QED  BY <1>1, <1>7, <1>9, <1>11, GoodMoves

-------------------------------------------------------------------------------
(***************************************************************************)
(* The handlers that take something of a segment.                          *)
(***************************************************************************)
LEMMA NoDataInFin ==
  ASSUME NEW cs, NEW e, NEW m, OnWay(cs, e, m), m.kind \notin {"RST", "ACK"}
  PROVE  m.data = <<>>
<1>1. PICK j \in Nat : OfInc(cs, e, m, j)  BY DEF OnWay
<1> QED  BY <1>1 DEF OfInc, Within

(* Whose FIN is acknowledged has been heard to the end. *)
LEMMA FinHeard ==
  ASSUME NEW cs, NEW w, NEW e, Good(cs, w, e), NEW h \in Host, cs[h].st = "FIN_WAIT_1", NEW m,
         OnWay(cs, e, m), m.to = h, m.kind # "RST", Acks(cs[h], m), ~e, Joined(cs, cs["server"].inc)
  PROVE  cs[Peer(h)].heard \in {"closed", "broken"}
<1> DEFINE p == Peer(h)
           c == cs[h]
           r == cs[p]
           b == Base(h, c.inc)
           k == Len(c.sent)
<1>1. /\ p \in Host /\ c \in Conn /\ r \in Conn /\ cs \in [Host -> Conn] /\ Contact(cs, e) /\ OwnOK(h, c, e)
      /\ m \in SegmentType /\ OwnOK(p, r, e)
  BY GoodHost, HostPeer DEF OnWay
<1>2. PICK j \in Nat : OfInc(cs, e, m, j)  BY DEF OnWay
<1>3. j \in 1..r.inc /\ (j = r.inc => Current(p, r, e, m)) /\ (p = "server" /\ m.ack > 1 => Joined(cs, j))
  BY <1>2 DEF OfInc
<1>4. b \in Nat /\ k \in Nat /\ m.ack \in Nat /\ r.rcv \in Nat /\ r.inc \in Nat
  BY <1>1, OwnFields, SegmentFields, ConnFields
<1>5. m.ack = b + 2 + k
  <2>1. c.snd = b + 1 + k  BY <1>1 DEF OwnOK, FinOut
  <2>2. c.len = 1 /\ m.ack = c.snd + c.len
    <3>1. Counts(c, b)  BY <1>1, OwnFields
    <3> QED  BY <3>1 DEF Counts, FinOut, Acks
  <2> HIDE DEF b, k
  <2> QED  BY <2>1, <2>2, <1>4
<1>6. j = r.inc
  <2>1. CASE h = "server"
    <3>1. p = "client"  BY <2>1, HostPeer
    <3>2. r.inc <= 1  BY <3>1, <1>1, OwnFields DEF Sides
    <3> QED  BY <3>2, <1>3, <1>4
  <2>2. CASE h = "client"
    <3>1. p = "server"  BY <2>2, HostPeer
    <3>2. m.ack > 1
      <4> HIDE DEF b, k
      <4> QED  BY <1>4, <1>5
    <3>3. Joined(cs, j) /\ Joined(cs, r.inc)  BY <3>1, <3>2, <1>3
    <3> HIDE DEF r
    <3> QED  BY <3>3, <1>1, <1>4, JoinedOnce
  <2> QED  BY <2>1, <2>2 DEF Host
<1>7. m.ack <= r.rcv  BY <1>3, <1>6 DEF Current
<1>8. Follows(r, c, b, e)
  <2>1. CASE h = "server"
    <3>1. p = "client" /\ b = IssGap * cs["server"].inc  BY <2>1, HostPeer DEF Base
    <3> QED  BY <2>1, <3>1, <1>1 DEF Contact
  <2>2. CASE h = "client"
    <3>1. p = "server" /\ b = 0  BY <2>2, HostPeer DEF Base
    <3>2. r.inc > 0  BY <1>3, <1>4
    <3> QED  BY <2>2, <3>1, <3>2, <1>1 DEF Contact
  <2> QED  BY <2>1, <2>2 DEF Host
<1>9. ASSUME r.heard \in {"nothing", "open"} PROVE FALSE
  <2>1. r.rcv <= b + 1 + k  BY <1>8, <1>9 DEF Follows
  <2> HIDE DEF r, b, k
  <2> QED  BY <2>1, <1>4, <1>5, <1>7
<1>10. r.heard \in {"nothing", "open", "closed", "broken"}  BY <1>1, ConnFields
<1> QED  BY <1>9, <1>10

(* One's own side of what is received. *)
LEMMA TakesOK ==
  ASSUME NEW h \in Host, NEW c, NEW d \in Conn, NEW e, OwnOK(h, c, e), d.inc = c.inc, d.sent = c.sent,
         c.rcv <= d.rcv, c.st \in Alive, d.st \in Alive, Counts(d, Base(h, d.inc)), Told(d),
         ~e /\ d.st \in FinOut => d.snd = Base(h, d.inc) + 1 + Len(d.sent)
  PROVE  OwnOK(h, d, e)
<1>1. c \in Conn /\ Numbered(c) /\ Sides(h, c) /\ Len(c.sent) <= BytesMax[h]  BY OwnFields
<1>2. d.got \in Seq(Nat) /\ c.rcv \in Nat /\ d.rcv \in Nat  BY <1>1, ConnFields
<1>3. Numbered(d)
  <2>1. \A i \in 1..Len(d.got) : d.got[i] \in Nat  BY <1>2
  <2> QED  BY <2>1, <1>1 DEF Numbered
<1>4. Sides(h, d)
  <2>1. c.inc # 0 /\ d.st \notin {"SYN_SENT", "SYN_RCVD", "CLOSED"}
    BY <1>1 DEF Sides, Alive, FinOut, FinDone
  <2>2. c.rcv > 0 => d.rcv > 0  BY <1>2
  <2> QED  BY <2>1, <2>2, <1>1 DEF Sides
<1> QED  BY <1>1, <1>3, <1>4 DEF OwnOK

(* d is c with the data of m delivered. *)
Delivers(c, m, d) ==
  /\ d \in Conn /\ d.st = c.st /\ d.snd = c.snd /\ d.len = c.len /\ d.stopped = c.stopped
  /\ d.sent = c.sent /\ d.heard = c.heard /\ d.left = c.left /\ d.inc = c.inc
  /\ d.rcv = c.rcv + Len(m.data) /\ GotData(c, m, d)

LEMMA DeliverIs ==
  ASSUME NEW c \in Conn, NEW m \in SegmentType
  PROVE  Delivers(c, m, Deliver(c, m))
<1> DEFINE d == Deliver(c, m)
           n == c.rcv + Len(m.data)
           g == c.got \o m.data
<1>1. n \in Nat /\ g \in Seq(Nat)
  <2>1. c.got \in Seq(Nat) /\ m.data \in Seq(Nat) /\ c.rcv \in Nat /\ Len(m.data) \in Nat
    BY ConnFields, SegmentFields
  <2> QED  BY <2>1
<1>2. d = [c EXCEPT !.rcv = n, !.got = g]  BY DEF Deliver
<1> HIDE DEF n, g, d
<1>3. /\ d \in Conn /\ d.st = c.st /\ d.snd = c.snd /\ d.len = c.len /\ d.stopped = c.stopped
      /\ d.sent = c.sent /\ d.heard = c.heard /\ d.left = c.left /\ d.inc = c.inc
      /\ d.rcv = n /\ d.got = g
  BY <1>1, <1>2, Zenon DEF Conn
<1>4. Delivers(c, m, d)  BY <1>3 DEF n, g, GotData, Delivers
<1> QED  BY <1>4 DEF d

(* In ESTABLISHED, the connections with the data taken as well. *)
LEMMA DeliverGood ==
  ASSUME conn \in [Host -> Conn], NEW h \in Host, NEW a, NEW cs1, Moves(conn, cs1, h, a),
         Good(cs1, wire, closedEarly), a.st = "ESTABLISHED", NEW m, OnWay(cs1, closedEarly, m), m.to = h,
         m.kind # "RST", m.data # <<>>, m.seq = a.rcv, NEW d, Delivers(a, m, d),
         NEW cs2, cs2 = [conn EXCEPT ![h] = d]
  PROVE  /\ Moves(conn, cs2, h, d) /\ Good(cs2, wire, closedEarly) /\ d.st = "ESTABLISHED"
         /\ d.inc = a.inc /\ d.heard = "open"
<1>1. /\ a = cs1[h] /\ a \in Conn /\ OwnOK(h, a, closedEarly) /\ Told(a) /\ cs1 \in [Host -> Conn]
      /\ m \in SegmentType
  BY GoodHost DEF Moves, OnWay
<1>2. /\ d \in Conn /\ d.st = a.st /\ d.snd = a.snd /\ d.len = a.len /\ d.stopped = a.stopped
      /\ d.sent = a.sent /\ d.heard = a.heard /\ d.left = a.left /\ d.inc = a.inc
      /\ d.rcv = a.rcv + Len(m.data) /\ GotData(a, m, d)
  BY DEF Delivers
<1>3. a.heard = "open" /\ ~a.left  BY <1>1 DEF Told
<1>4. Moves(conn, cs2, h, d) /\ Moves(cs1, cs2, h, d)  BY <1>2 DEF Moves
<1>5. OwnOK(h, d, closedEarly)
  <2>1. Counts(a, Base(h, a.inc))  BY <1>1, OwnFields
  <2>2. Counts(d, Base(h, d.inc))  BY <2>1, <1>2 DEF Counts, SynSent, FinOut, FinDone
  <2>3. Told(d)  BY <1>1, <1>2 DEF Told, SynSent
  <2>4. a.rcv <= d.rcv
    <3>1. a.rcv \in Nat /\ Len(m.data) \in Nat  BY <1>1, ConnFields, SegmentFields
    <3> QED  BY <3>1, <1>2
  <2>5. d.st \in Alive /\ a.st \in Alive /\ d.st \notin FinOut  BY <1>2 DEF Alive, FinOut
  <2> QED  BY <2>2, <2>3, <2>4, <2>5, <1>1, <1>2, TakesOK
<1>6. Takes(a, m, d)  BY <1>2, <1>3 DEF Takes, TakesData
<1>7. Good(cs2, wire, closedEarly)
  <2>1. a.st \in Alive /\ d.st \in Alive /\ a.st \notin Over /\ d.st # "FIN_WAIT_2"
    BY <1>2 DEF Alive, Over, FinOut, FinDone
  <2> QED  BY <2>1, <1>1, <1>2, <1>3, <1>4, <1>5, <1>6, ReceivesGood
<1> QED  BY <1>2, <1>3, <1>4, <1>7

(* A step that ends in a call of the application of an open connection. *)
LEMMA CalledDone ==
  ASSUME NEW h \in Host, conn[h].heard \in {"nothing", "open"}, ~conn[h].left, NEW d, d.heard = "open",
         Good(conn', wire', closedEarly'), Called(d, conn'[h])
  PROVE  Done(h)
BY DEF Called, Orderly, Done

LEMMA RecvDataGood ==
  ASSUME Good(conn, wire, closedEarly), NEW m \in wire, NEW h, h = m.to, NEW u, RecvData(h, m, u)
  PROVE  Done(h)
<1> DEFINE c    == conn[h]
           a    == AfterAck(c, m)
           news == m.data # <<>> /\ ~c.stopped
           cs1  == [conn EXCEPT ![h] = a]
           d    == Deliver(a, m)
           cs2  == [conn EXCEPT ![h] = d]
<1>1. m \in SegmentType /\ h \in Host  BY WireOK, SegmentFields
<1>2. conn \in [Host -> Conn] /\ c \in Conn /\ Told(c)  BY <1>1, GoodHost
<1>3. /\ c.st = "ESTABLISHED" /\ m.kind # "RST" /\ Expected(c, m)
      /\ IF Acks(c, m) \/ news
         THEN appsend(h, IF news THEN d ELSE a, u, news)
         ELSE Becomes(h, a, u, {}) /\ UNCHANGED closedEarly
  BY Zenon DEF RecvData, Received
<1>4. c.heard = "open" /\ ~c.left  BY <1>2, <1>3 DEF Told
<1>5. /\ Moves(conn, cs1, h, a) /\ Good(cs1, wire, closedEarly) /\ a \in Conn
      /\ OwnOK(h, a, closedEarly) /\ Stays(c, a)
  BY <1>1, <1>3, AckGood
<1>6. a.st = "ESTABLISHED" /\ a.heard = "open" /\ a.rcv = c.rcv  BY <1>2, <1>3, <1>4, AfterAckIs
<1>7. OnWay(cs1, closedEarly, m)
  <2> HIDE DEF cs1
  <2> QED  BY <1>5 DEF Good
<1>8. CASE news
  <2>1. m.seq = c.rcv  BY <1>3, <1>8 DEF Expected
  <2>2. /\ Moves(conn, cs2, h, d) /\ Good(cs2, wire, closedEarly) /\ d.st = "ESTABLISHED"
        /\ d.inc = a.inc /\ d.heard = "open"
    <3>1. m.data # <<>> /\ Delivers(a, m, d) /\ cs2 = [conn EXCEPT ![h] = d] /\ m.seq = a.rcv
      BY <2>1, <1>1, <1>5, <1>6, <1>8, DeliverIs
    <3> HIDE DEF a, c, cs1, d, cs2
    <3> QED  BY <3>1, <1>1, <1>2, <1>3, <1>5, <1>6, <1>7, DeliverGood
  <2>3. appsend(h, d, u, news)  BY <1>3, <1>8
  <2> HIDE DEF d, cs2, news
  <2>4. Good(conn', wire', closedEarly') /\ Called(d, conn'[h])
    BY <2>2, <2>3, <1>1, <1>2, AppsendGood
  <2> QED  BY <2>2, <2>4, <1>1, <1>4, CalledDone DEF c
<1>9. CASE ~news /\ Acks(c, m)
  <2>1. appsend(h, a, u, news)  BY <1>3, <1>9
  <2> HIDE DEF a, cs1, news
  <2>2. Good(conn', wire', closedEarly') /\ Called(a, conn'[h])
    BY <2>1, <1>1, <1>2, <1>5, <1>6, AppsendGood
  <2> QED  BY <2>2, <1>1, <1>4, <1>6, CalledDone DEF c
<1>10. CASE ~news /\ ~Acks(c, m)
  <2>1. Becomes(h, a, u, {}) /\ UNCHANGED closedEarly  BY <1>3, <1>10
  <2> HIDE DEF a, cs1
  <2> QED  BY <2>1, <1>1, <1>5, StaysDone DEF c
<1> QED  BY <1>8, <1>9, <1>10

LEMMA RecvFinGood ==
  ASSUME Good(conn, wire, closedEarly), NEW m \in wire, NEW h, h = m.to, NEW u, RecvFin(h, m, u)
  PROVE  Done(h)
<1> DEFINE c   == conn[h]
           a   == AfterAck(c, m)
           cs1 == [conn EXCEPT ![h] = a]
           n   == a.rcv + 1
           f   == [a EXCEPT !.st = "LAST_ACK", !.rcv = n, !.len = 1, !.nrtx = 0, !.heard = "closed"]
           seg == Segment(h, f, "FIN", <<>>)
<1>1. m \in SegmentType /\ h \in Host  BY WireOK, SegmentFields
<1>2. conn \in [Host -> Conn] /\ c \in Conn /\ Told(c) /\ closedEarly \in BOOLEAN  BY <1>1, GoodHost
<1>3. /\ c.st = "ESTABLISHED" /\ m.kind = "FIN" /\ Expected(c, m) /\ ~c.stopped /\ UNCHANGED closedEarly
      /\ IF a.len > 0 THEN Becomes(h, a, u, {}) ELSE Becomes(h, f, u, {seg})
  BY Zenon DEF RecvFin, Received
<1>4. c.heard = "open" /\ ~c.left /\ m.seq = c.rcv  BY <1>2, <1>3 DEF Told, Expected
<1>5. /\ Moves(conn, cs1, h, a) /\ Good(cs1, wire, closedEarly) /\ a \in Conn
      /\ OwnOK(h, a, closedEarly) /\ Stays(c, a)
  BY <1>1, <1>3, AckGood
<1>6. a.st = "ESTABLISHED" /\ a.heard = "open" /\ a.rcv = c.rcv /\ a.got = c.got /\ a.left = c.left /\ a.stopped = c.stopped
  BY <1>2, <1>3, <1>4, AfterAckIs
<1>7. CASE a.len > 0
  <2>1. Becomes(h, a, u, {})  BY <1>3, <1>7
  <2> HIDE DEF a, cs1
  <2> QED  BY <2>1, <1>1, <1>3, <1>5, StaysDone DEF c
<1>8. CASE ~(a.len > 0)
  <2>1. Becomes(h, f, u, {seg})  BY <1>3, <1>8
  <2> HIDE DEF a, cs1, c
  <2>2. a.len = 0 /\ n \in Nat /\ a.rcv \in Nat
    <3>1. a.len \in Nat /\ a.rcv \in Nat  BY <1>5, ConnFields
    <3> QED  BY <3>1, <1>8
  <2>3. 1 \in 0..SendMax /\ 0 \in 0..RtxMax  BY Consts
  <2> HIDE DEF n
  <2>4. /\ f \in Conn /\ f.st = "LAST_ACK" /\ f.rcv = n /\ f.len = 1 /\ f.heard = "closed" /\ f.snd = a.snd
        /\ f.sent = a.sent /\ f.got = a.got /\ f.inc = a.inc /\ f.left = a.left /\ f.stopped = a.stopped
    BY <1>5, <2>2, <2>3, Zenon DEF Conn
  <2> HIDE DEF f
  <2>5. OwnOK(h, f, closedEarly)
    <3> DEFINE b == Base(h, a.inc)
               k == Len(a.sent)
               x == a.snd
    <3>1. Counts(a, b) /\ b \in Nat /\ k \in Nat /\ x \in Nat  BY <1>1, <1>5, OwnFields
    <3>2. x + a.len = b + 1 + k  BY <3>1, <1>6 DEF Counts
    <3>3. f.snd = x /\ Base(h, f.inc) = b /\ Len(f.sent) = k  BY <2>4
    <3>4. x = b + 1 + k
      <4> HIDE DEF b, k, x
      <4> QED  BY <3>1, <3>2, <2>2
    <3>5. Counts(f, Base(h, f.inc))
      <4> HIDE DEF b, k, x
      <4>1. b < x /\ x <= b + 1 + k  BY <3>1, <3>4
      <4> QED  BY <4>1, <3>3, <2>4 DEF Counts, SynSent, FinOut, FinDone
    <3>6. Told(f)  BY <2>4, <1>3, <1>6 DEF Told, SynSent
    <3>7. a.rcv <= f.rcv  BY <2>2, <2>4 DEF n
    <3>8. a.st \in Alive /\ f.st \in Alive  BY <1>6, <2>4 DEF Alive, FinOut
    <3>9. f.snd = Base(h, f.inc) + 1 + Len(f.sent)  BY <3>3, <3>4
    <3> QED  BY <3>5, <3>6, <3>7, <3>8, <3>9, <1>1, <1>5, <2>4, TakesOK
  <2>6. Takes(a, m, f)  BY <1>3, <1>4, <1>6, <2>4 DEF Takes, TakesFin, n
  <2>8. Own(h, f, seg)  BY <1>1, <2>4, MaySend DEF FinOut
  <2> HIDE DEF seg
  <2>7. Moves(cs1, conn', h, f) /\ \A k \in wire' : k \in wire \/ k \in {seg}
    BY <1>1, <1>2, <1>5, <2>1, <2>4, BecomesMoves
  <2>9. OnWay(cs1, closedEarly, m) /\ cs1[h] = a  BY <1>5 DEF Good, Moves
  <2>10. a.st \in Alive /\ f.st \in Alive /\ a.st \notin Over /\ f.st # "FIN_WAIT_2" /\ m.kind # "RST"
    BY <1>3, <1>6, <2>4 DEF Alive, Over, FinOut, FinDone
  <2>11. Good(conn', wire', closedEarly)
    BY <1>1, <1>5, <1>6, <2>4, <2>5, <2>6, <2>7, <2>8, <2>9, <2>10, ReceivesGood
  <2>12. conn'[h] = f  BY <2>7 DEF Moves
  <2>13. Orderly(c, f)  BY <1>4, <1>6, <2>4 DEF Orderly
  <2> QED  BY <1>3, <2>11, <2>12, <2>13 DEF Done, c
<1> QED  BY <1>7, <1>8


(* Who has closed takes only numbers, and the FIN. *)
WaitTakes(c, m, d) ==
  /\ d.inc = c.inc /\ d.sent = c.sent /\ d.got = c.got /\ d.left = c.left /\ d.stopped = c.stopped
  /\ \/ /\ m.kind = "FIN" /\ d.heard = "closed" /\ d.rcv = c.rcv + Len(m.data) + 1
        /\ d.st \in {"CLOSING", "TIME_WAIT"}
     \/ /\ m.kind # "FIN" /\ d.heard = c.heard /\ d.rcv = c.rcv + Len(m.data)
        /\ d.st \in {"FIN_WAIT_1", "FIN_WAIT_2"}
  /\ d.st \in {"FIN_WAIT_1", "CLOSING"} => c.st = "FIN_WAIT_1" /\ d.snd = c.snd /\ d.len = 1
  /\ d.st \in FinDone => /\ d.len = 0
                         /\ \/ c.st = "FIN_WAIT_1" /\ Acks(c, m) /\ d.snd = c.snd + c.len
                            \/ c.st = "FIN_WAIT_2" /\ d.snd = c.snd

LEMMA WaitReceives ==
  ASSUME Good(conn, wire, closedEarly), NEW m \in wire, NEW h, h = m.to, m.kind # "RST",
         NEW c, c = conn[h], c.st \in {"FIN_WAIT_1", "FIN_WAIT_2"}, Expected(c, m), NEW d \in Conn,
         WaitTakes(c, m, d),
         NEW used, NEW segs, Becomes(h, d, used, segs), \A k \in segs : Own(h, d, k),
         UNCHANGED closedEarly
  PROVE  Done(h)
<1>0. /\ d.inc = c.inc /\ d.sent = c.sent /\ d.got = c.got /\ d.left = c.left /\ d.stopped = c.stopped
      /\ \/ /\ m.kind = "FIN" /\ d.heard = "closed" /\ d.rcv = c.rcv + Len(m.data) + 1
            /\ d.st \in {"CLOSING", "TIME_WAIT"}
         \/ /\ m.kind # "FIN" /\ d.heard = c.heard /\ d.rcv = c.rcv + Len(m.data)
            /\ d.st \in {"FIN_WAIT_1", "FIN_WAIT_2"}
      /\ d.st \in {"FIN_WAIT_1", "CLOSING"} => c.st = "FIN_WAIT_1" /\ d.snd = c.snd /\ d.len = 1
      /\ d.st \in FinDone => /\ d.len = 0
                             /\ \/ c.st = "FIN_WAIT_1" /\ Acks(c, m) /\ d.snd = c.snd + c.len
                                \/ c.st = "FIN_WAIT_2" /\ d.snd = c.snd
  BY DEF WaitTakes
<1> USE <1>0
<1>1. m \in SegmentType /\ h \in Host /\ OnWay(conn, closedEarly, m)  BY WireOK, SegmentFields
<1>2. /\ conn \in [Host -> Conn] /\ c \in Conn /\ Told(c) /\ OwnOK(h, c, closedEarly)
      /\ Contact(conn, closedEarly) /\ closedEarly \in BOOLEAN
  BY <1>1, GoodHost
<1>3. c.heard = "open" /\ c.left /\ ~c.stopped  BY <1>2 DEF Told
<1>4. m.kind = "FIN" => m.data = <<>> /\ Len(m.data) = 0
  <2>1. m.kind = "FIN" => m.data = <<>>  BY <1>1, NoDataInFin
  <2> QED  BY <2>1, <1>1, SegmentFields
<1>5. m.kind = "FIN" \/ m.data # <<>> => m.seq = c.rcv  BY DEF Expected
<1>6. c.rcv \in Nat /\ d.rcv \in Nat /\ Len(m.data) \in Nat /\ (m.data = <<>> <=> Len(m.data) = 0)
  BY <1>1, <1>2, ConnFields, SegmentFields
<1>7. m.kind = "FIN" => d.rcv = c.rcv + 1
  <2> SUFFICES ASSUME m.kind = "FIN" PROVE d.rcv = c.rcv + 1
    OBVIOUS
  <2>1. d.rcv = c.rcv + Len(m.data) + 1 /\ Len(m.data) = 0  BY <1>4
  <2> QED  BY <2>1, <1>6
<1>8. m.kind # "FIN" /\ m.data = <<>> => d.rcv = c.rcv
  <2> SUFFICES ASSUME m.kind # "FIN", m.data = <<>> PROVE d.rcv = c.rcv
    OBVIOUS
  <2>1. d.rcv = c.rcv + Len(m.data) /\ Len(m.data) = 0  BY <1>6
  <2> QED  BY <2>1, <1>6
<1>9. c.rcv <= d.rcv
  <2>1. CASE m.kind = "FIN"  BY <2>1, <1>6, <1>7
  <2>2. CASE m.kind # "FIN"  BY <2>2, <1>6
  <2> QED  BY <2>1, <2>2
<1>10. Takes(c, m, d)
  <2>1. d.st # "ESTABLISHED" /\ d.left  BY <1>3
  <2>2. CASE m.kind = "FIN"  BY <2>1, <2>2, <1>5, <1>7 DEF Takes, TakesFin
  <2>3. CASE m.kind # "FIN" /\ m.data = <<>>  BY <2>1, <2>3, <1>8 DEF Takes, TakesNone
  <2>4. CASE m.kind # "FIN" /\ m.data # <<>>  BY <2>1, <2>4, <1>3, <1>5 DEF Takes, TakesData
  <2> QED  BY <2>2, <2>3, <2>4
<1> DEFINE b == Base(h, c.inc)
           k == Len(c.sent)
           x == c.snd
<1>11. Counts(c, b) /\ b \in Nat /\ k \in Nat /\ x \in Nat  BY <1>1, <1>2, OwnFields
<1>12. Base(h, d.inc) = b /\ Len(d.sent) = k  OBVIOUS
<1>13. /\ c.st = "FIN_WAIT_1" => c.len = 1 /\ b < x /\ x <= b + 1 + k
       /\ c.st = "FIN_WAIT_2" => b < x /\ x <= b + 2 + k
  BY <1>11 DEF Counts, FinOut, FinDone
<1>14. Counts(d, b)
  <2>1. CASE d.st \in {"FIN_WAIT_1", "CLOSING"}
    <3>1. d.snd = x /\ d.len = 1 /\ b < x /\ x <= b + 1 + k  BY <2>1, <1>13
    <3> QED  BY <2>1, <3>1, <1>12 DEF Counts, SynSent, FinOut, FinDone
  <2>2. CASE d.st \in FinDone
    <3>1. b < d.snd /\ d.snd <= b + 2 + k
      <4>1. CASE c.st = "FIN_WAIT_1"
        <5>1. d.snd = x + 1 /\ b < x /\ x <= b + 1 + k  BY <2>2, <4>1, <1>13
        <5> HIDE DEF b, x, k
        <5> QED  BY <5>1, <1>11
      <4>2. CASE c.st = "FIN_WAIT_2"  BY <2>2, <4>2, <1>13
      <4> QED  BY <4>1, <4>2
    <3> QED  BY <2>2, <3>1, <1>12 DEF Counts, SynSent, FinOut, FinDone
  <2> QED  BY <2>1, <2>2 DEF FinDone
<1>15. Told(d)  BY <1>3 DEF Told, SynSent
<1>16. ~closedEarly /\ d.st \in FinOut => d.snd = b + 1 + k
  <2> SUFFICES ASSUME ~closedEarly, d.st \in FinOut PROVE d.snd = b + 1 + k
    OBVIOUS
  <2>1. c.st = "FIN_WAIT_1" /\ d.snd = c.snd  BY DEF FinOut
  <2> QED  BY <2>1, <1>2 DEF OwnOK, FinOut
<1>17. c.st \in Alive /\ d.st \in Alive /\ d.st \in Over  BY DEF Alive, Over, FinOut, FinDone
<1>18. OwnOK(h, d, closedEarly)
  <2>1. Counts(d, Base(h, d.inc)) /\ (~closedEarly /\ d.st \in FinOut => d.snd = Base(h, d.inc) + 1 + Len(d.sent))
    BY <1>12, <1>14, <1>16
  <2> HIDE DEF b, k, x
  <2> QED  BY <2>1, <1>1, <1>2, <1>9, <1>15, <1>17, TakesOK
<1>19. d.st = "FIN_WAIT_2" /\ ~closedEarly /\ Joined(conn, conn["server"].inc)
         => conn[Peer(h)].heard \in {"closed", "broken"}
  <2> SUFFICES ASSUME d.st = "FIN_WAIT_2", ~closedEarly, Joined(conn, conn["server"].inc)
               PROVE  conn[Peer(h)].heard \in {"closed", "broken"}
    OBVIOUS
  <2>1. CASE c.st = "FIN_WAIT_1"
    <3>1. Acks(c, m)  BY <2>1 DEF FinDone
    <3> QED  BY <2>1, <3>1, <1>1, FinHeard
  <2>2. CASE c.st = "FIN_WAIT_2"  BY <2>2, <1>1, <1>2 DEF Contact
  <2> QED  BY <2>1, <2>2
<1>20. Moves(conn, conn', h, d) /\ \A g \in wire' : g \in wire \/ g \in segs
  <2>1. Moves(conn, conn, h, c)  BY <1>1, <1>2, NotMoved
  <2> QED  BY <2>1, <1>1, <1>2, BecomesMoves
<1>21. Good(conn', wire', closedEarly)
  BY <1>1, <1>3, <1>10, <1>17, <1>18, <1>19, <1>20, ReceivesGood
<1>22. conn'[h] = d  BY <1>20 DEF Moves
<1>23. Orderly(c, d)  BY <1>3 DEF Orderly
<1> QED  BY <1>21, <1>22, <1>23 DEF Done

LEMMA DiscardIs ==
  ASSUME NEW c \in Conn, NEW m \in SegmentType, NEW d, d = Discard(c, m)
  PROVE  /\ d \in Conn /\ d.st = c.st /\ d.snd = c.snd /\ d.len = c.len /\ d.stopped = c.stopped
         /\ d.sent = c.sent /\ d.heard = c.heard /\ d.left = c.left /\ d.inc = c.inc
         /\ d.rcv = c.rcv + Len(m.data) /\ d.got = c.got
<1> DEFINE n == c.rcv + Len(m.data)
<1>1. n \in Nat
  <2>1. c.rcv \in Nat /\ Len(m.data) \in Nat  BY ConnFields, SegmentFields
  <2> QED  BY <2>1
<1>2. d = [c EXCEPT !.rcv = n]  BY DEF Discard
<1> HIDE DEF n
<1>3. /\ d \in Conn /\ d.st = c.st /\ d.snd = c.snd /\ d.len = c.len /\ d.stopped = c.stopped
      /\ d.sent = c.sent /\ d.heard = c.heard /\ d.left = c.left /\ d.inc = c.inc
      /\ d.rcv = n /\ d.got = c.got
  BY <1>1, <1>2, Zenon DEF Conn
<1> QED  BY <1>3 DEF n

(* The connection that has heard of the end, in state st. *)
Ended(c, st) == [c EXCEPT !.rcv = @ + 1, !.heard = "closed", !.st = st]

LEMMA EndIs ==
  ASSUME NEW c \in Conn, NEW st \in {"CLOSING", "TIME_WAIT"}, NEW d, d = Ended(c, st)
  PROVE  /\ d \in Conn /\ d.st = st /\ d.snd = c.snd /\ d.len = c.len /\ d.stopped = c.stopped
         /\ d.sent = c.sent /\ d.heard = "closed" /\ d.left = c.left /\ d.inc = c.inc
         /\ d.rcv = c.rcv + 1 /\ d.got = c.got
<1> DEFINE n == c.rcv + 1
<1>1. n \in Nat
  <2>1. c.rcv \in Nat  BY ConnFields
  <2> QED  BY <2>1
<1>3. d = [c EXCEPT !.rcv = n, !.heard = "closed", !.st = st]  BY DEF Ended
<1> HIDE DEF n
<1>2. st \in {"CLOSED", "SYN_SENT", "SYN_RCVD", "ESTABLISHED", "FIN_WAIT_1", "FIN_WAIT_2",
              "CLOSING", "TIME_WAIT", "LAST_ACK"}
  OBVIOUS
<1>4. /\ d \in Conn /\ d.st = st /\ d.snd = c.snd /\ d.len = c.len /\ d.stopped = c.stopped
      /\ d.sent = c.sent /\ d.heard = "closed" /\ d.left = c.left /\ d.inc = c.inc
      /\ d.rcv = n /\ d.got = c.got
  BY <1>1, <1>2, <1>3, Zenon DEF Conn
<1> QED  BY <1>4 DEF n

LEMMA RecvFinWait1Good ==
  ASSUME Good(conn, wire, closedEarly), NEW m \in wire, NEW h, h = m.to, NEW u, RecvFinWait1(h, m, u)
  PROVE  Done(h)
<1> DEFINE c  == conn[h]
           a0 == AfterAck(c, m)
           a  == Discard(a0, m)
           st == IF a.len = 0 THEN "TIME_WAIT" ELSE "CLOSING"
           f  == Ended(a, st)
           g  == [a EXCEPT !.st = "FIN_WAIT_2"]
           as == Segment(h, a, "ACK", <<>>)
           fs == Segment(h, f, "ACK", <<>>)
<1>1. m \in SegmentType /\ h \in Host  BY WireOK, SegmentFields
<1>2. c \in Conn /\ OwnOK(h, c, closedEarly)  BY <1>1, GoodHost
<1>3. /\ c.st = "FIN_WAIT_1" /\ m.kind # "RST" /\ Expected(c, m) /\ UNCHANGED closedEarly
      /\ \/ m.kind = "FIN" /\ Becomes(h, f, u, {fs})
         \/ m.kind # "FIN" /\ a.len = 0 /\ Becomes(h, g, u, {})
         \/ m.kind # "FIN" /\ a.len > 0 /\ Becomes(h, a, u, IF m.data = <<>> THEN {} ELSE {as})
  BY Zenon DEF RecvFinWait1, Received, Ended
<1>4. /\ a0 \in Conn /\ a0.st = c.st /\ a0.stopped = c.stopped /\ a0.rcv = c.rcv
      /\ a0.sent = c.sent /\ a0.got = c.got /\ a0.heard = c.heard /\ a0.inc = c.inc /\ a0.left = c.left
      /\ Acks(c, m) => a0.snd = c.snd + c.len /\ a0.len = 0
      /\ ~Acks(c, m) => a0 = c
  BY <1>2, AfterAckIs
<1>5. c.len = 1
  <2>1. Counts(c, Base(h, c.inc))  BY <1>1, <1>2, OwnFields
  <2> QED  BY <2>1, <1>3 DEF Counts, FinOut
<1> HIDE DEF a0
<1>6. /\ a \in Conn /\ a.st = a0.st /\ a.snd = a0.snd /\ a.len = a0.len /\ a.stopped = a0.stopped
      /\ a.sent = a0.sent /\ a.heard = a0.heard /\ a.left = a0.left /\ a.inc = a0.inc
      /\ a.rcv = a0.rcv + Len(m.data) /\ a.got = a0.got
  BY <1>1, <1>4, DiscardIs
<1> HIDE DEF a, c
<1>7. /\ a.st = "FIN_WAIT_1" /\ a.sent = c.sent /\ a.got = c.got /\ a.heard = c.heard /\ a.inc = c.inc
      /\ a.left = c.left /\ a.stopped = c.stopped /\ a.rcv = c.rcv + Len(m.data)
      /\ \/ Acks(c, m) /\ a.snd = c.snd + c.len /\ a.len = 0
         \/ a.snd = c.snd /\ a.len = 1
  BY <1>3, <1>4, <1>5, <1>6
<1>8. CASE m.kind = "FIN" /\ Becomes(h, f, u, {fs})
  <2>1. st \in {"CLOSING", "TIME_WAIT"} /\ (a.len = 0 => st = "TIME_WAIT") /\ (a.len = 1 => st = "CLOSING")
    OBVIOUS
  <2>2. f = Ended(a, st)  OBVIOUS
  <2>10. Becomes(h, f, u, {fs}) /\ fs = Segment(h, f, "ACK", <<>>)  BY <1>8
  <2> HIDE DEF st, fs, f
  <2>3. /\ f \in Conn /\ f.st = st /\ f.snd = a.snd /\ f.len = a.len /\ f.stopped = a.stopped
        /\ f.sent = a.sent /\ f.heard = "closed" /\ f.left = a.left /\ f.inc = a.inc
        /\ f.rcv = a.rcv + 1 /\ f.got = a.got
    BY <2>1, <2>2, <1>6, EndIs
  <2>4. Own(h, f, fs)  BY <2>1, <2>3, <2>10, <1>1, MaySend
  <2>5. \A k \in {fs} : Own(h, f, k)  BY <2>4
  <2>6. f.rcv = c.rcv + Len(m.data) + 1  BY <2>2, <2>3, <1>7
  <2>7. f.st \in {"FIN_WAIT_1", "CLOSING"} => c.st = "FIN_WAIT_1" /\ f.snd = c.snd /\ f.len = 1
    BY <2>1, <2>3, <1>3, <1>7
  <2>8. f.st \in FinDone => f.len = 0 /\ c.st = "FIN_WAIT_1" /\ Acks(c, m) /\ f.snd = c.snd + c.len
    BY <2>1, <2>3, <1>3, <1>7 DEF FinDone
  <2>9. c = conn[h] /\ f.st \in {"CLOSING", "TIME_WAIT"}  BY <2>1, <2>3 DEF c
  <2>11. WaitTakes(c, m, f)  BY <2>1, <2>3, <2>6, <2>7, <2>8, <1>7, <1>8 DEF WaitTakes
  <2> QED  BY <2>3, <2>5, <2>9, <2>10, <2>11, <1>3, WaitReceives
<1>9. CASE m.kind # "FIN" /\ a.len = 0 /\ Becomes(h, g, u, {})
  <2>3. /\ g \in Conn /\ g.st = "FIN_WAIT_2" /\ g.snd = a.snd /\ g.len = a.len /\ g.stopped = a.stopped
        /\ g.sent = a.sent /\ g.heard = a.heard /\ g.left = a.left /\ g.inc = a.inc
        /\ g.rcv = a.rcv /\ g.got = a.got
    BY <1>6, Zenon DEF Conn
  <2> HIDE DEF g
  <2>8. g.len = 0 /\ c.st = "FIN_WAIT_1" /\ Acks(c, m) /\ g.snd = c.snd + c.len
    BY <2>3, <1>3, <1>7, <1>9
  <2>9. /\ c = conn[h] /\ g.rcv = c.rcv + Len(m.data) /\ g.inc = c.inc /\ g.sent = c.sent
        /\ g.got = c.got /\ g.left = c.left /\ g.stopped = c.stopped /\ g.heard = c.heard
    BY <2>3, <1>7 DEF c
  <2>10. g \in Conn /\ g.st \in {"FIN_WAIT_1", "FIN_WAIT_2"} /\ g.st \notin {"FIN_WAIT_1", "CLOSING"}
    BY <2>3
  <2>11. WaitTakes(c, m, g)  BY <2>8, <2>9, <2>10, <1>9 DEF WaitTakes
  <2> DEFINE segs == {}
  <2>12. Becomes(h, g, u, segs) /\ \A k \in segs : Own(h, g, k)  BY <1>9
  <2> HIDE DEF segs
  <2> QED  BY <2>9, <2>10, <2>11, <2>12, <1>3, WaitReceives
<1>10. CASE m.kind # "FIN" /\ a.len > 0 /\ Becomes(h, a, u, IF m.data = <<>> THEN {} ELSE {as})
  <2> DEFINE segs == IF m.data = <<>> THEN {} ELSE {as}
  <2>1. Own(h, a, as)  BY <1>1, <1>6, <1>7, MaySend
  <2> HIDE DEF as
  <2>2. \A k \in segs : Own(h, a, k)  BY <2>1
  <2>3. Becomes(h, a, u, segs)  BY <1>10
  <2> HIDE DEF segs
  <2>4. a.len = 1 /\ a.snd = c.snd  BY <1>7, <1>10
  <2>5. a.st \notin FinDone /\ c = conn[h]  BY <1>7 DEF FinDone, c
  <2>6. WaitTakes(c, m, a)  BY <2>4, <2>5, <1>3, <1>7, <1>10 DEF WaitTakes
  <2> QED  BY <2>2, <2>3, <2>5, <2>6, <1>3, <1>6, WaitReceives
<1> QED  BY <1>3, <1>8, <1>9, <1>10

LEMMA RecvFinWait2Good ==
  ASSUME Good(conn, wire, closedEarly), NEW m \in wire, NEW h, h = m.to, NEW u, RecvFinWait2(h, m, u)
  PROVE  Done(h)
<1> DEFINE c  == conn[h]
           a  == Discard(c, m)
           n  == a.rcv + 1
           f  == [a EXCEPT !.st = "TIME_WAIT", !.rcv = n, !.heard = "closed"]
           as == Segment(h, a, "ACK", <<>>)
           fs == Segment(h, f, "ACK", <<>>)
<1>1. m \in SegmentType /\ h \in Host  BY WireOK, SegmentFields
<1>2. c \in Conn /\ OwnOK(h, c, closedEarly)  BY <1>1, GoodHost
<1>3. /\ c.st = "FIN_WAIT_2" /\ m.kind # "RST" /\ Expected(c, m) /\ UNCHANGED closedEarly
      /\ \/ m.kind = "FIN" /\ Becomes(h, f, u, {fs})
         \/ m.kind # "FIN" /\ Becomes(h, a, u, IF m.data = <<>> THEN {} ELSE {as})
  BY Zenon DEF RecvFinWait2, Received
<1>5. c.len = 0
  <2>1. Counts(c, Base(h, c.inc))  BY <1>1, <1>2, OwnFields
  <2> QED  BY <2>1, <1>3 DEF Counts, FinDone
<1>6. /\ a \in Conn /\ a.st = c.st /\ a.snd = c.snd /\ a.len = c.len /\ a.stopped = c.stopped
      /\ a.sent = c.sent /\ a.heard = c.heard /\ a.left = c.left /\ a.inc = c.inc
      /\ a.rcv = c.rcv + Len(m.data) /\ a.got = c.got
  BY <1>1, <1>2, DiscardIs
<1> HIDE DEF a, c
<1>8. CASE m.kind = "FIN" /\ Becomes(h, f, u, {fs})
  <2>2. n = a.rcv + 1 /\ n \in Nat
    <3>1. a.rcv \in Nat  BY <1>6, ConnFields
    <3> QED  BY <3>1
  <2>10. Becomes(h, f, u, {fs}) /\ fs = Segment(h, f, "ACK", <<>>)  BY <1>8
  <2> HIDE DEF n, fs
  <2>3. /\ f \in Conn /\ f.st = "TIME_WAIT" /\ f.snd = a.snd /\ f.len = a.len /\ f.stopped = a.stopped
        /\ f.sent = a.sent /\ f.heard = "closed" /\ f.left = a.left /\ f.inc = a.inc
        /\ f.rcv = n /\ f.got = a.got
    BY <2>2, <1>6, Zenon DEF Conn
  <2> HIDE DEF f
  <2>4. Own(h, f, fs)  BY <2>3, <2>10, <1>1, MaySend
  <2>5. \A k \in {fs} : Own(h, f, k)  BY <2>4
  <2>6. f.rcv = c.rcv + Len(m.data) + 1  BY <2>2, <2>3, <1>6
  <2>8. f.len = 0 /\ c.st = "FIN_WAIT_2" /\ f.snd = c.snd  BY <2>3, <1>3, <1>5, <1>6
  <2>9. /\ c = conn[h] /\ f.inc = c.inc /\ f.sent = c.sent /\ f.got = c.got /\ f.left = c.left
        /\ f.stopped = c.stopped
    BY <2>3, <1>6 DEF c
  <2>11. /\ f \in Conn /\ f.st \in {"CLOSING", "TIME_WAIT"} /\ f.st \notin {"FIN_WAIT_1", "CLOSING"}
         /\ f.heard = "closed"
    BY <2>3
  <2>12. WaitTakes(c, m, f)  BY <2>6, <2>8, <2>9, <2>11, <1>8 DEF WaitTakes
  <2> DEFINE segs == {fs}
  <2>13. Becomes(h, f, u, segs) /\ \A k \in segs : Own(h, f, k)  BY <2>5, <2>10
  <2>14. c = conn[h] /\ f \in Conn /\ c.st \in {"FIN_WAIT_1", "FIN_WAIT_2"}  BY <2>9, <2>11, <1>3
  <2> HIDE DEF segs
  <2> QED  BY <2>12, <2>13, <2>14, <1>3, WaitReceives
<1>10. CASE m.kind # "FIN" /\ Becomes(h, a, u, IF m.data = <<>> THEN {} ELSE {as})
  <2> DEFINE segs == IF m.data = <<>> THEN {} ELSE {as}
  <2>1. Own(h, a, as)  BY <1>1, <1>3, <1>6, MaySend
  <2> HIDE DEF as
  <2>2. \A k \in segs : Own(h, a, k)  BY <2>1
  <2>3. Becomes(h, a, u, segs)  BY <1>10
  <2> HIDE DEF segs
  <2>5. a.st = "FIN_WAIT_2" /\ a.len = 0 /\ c = conn[h]  BY <1>3, <1>5, <1>6 DEF c
  <2>6. WaitTakes(c, m, a)  BY <2>5, <1>3, <1>6, <1>10 DEF WaitTakes
  <2> QED  BY <2>2, <2>3, <2>5, <2>6, <1>3, <1>6, WaitReceives
<1> QED  BY <1>3, <1>8, <1>10

-------------------------------------------------------------------------------
(***************************************************************************)
(* The connections open.                                                   *)
(***************************************************************************)
Opened(c, d) ==
  /\ c \in Conn /\ d \in Conn /\ d.st = "ESTABLISHED" /\ d.heard = "open" /\ d.snd = c.snd + c.len
  /\ d.len = 0 /\ d.sent = c.sent /\ d.got = c.got /\ d.inc = c.inc /\ d.left = c.left

LEMMA OpenedOK ==
  ASSUME NEW h \in Host, NEW c, NEW d, NEW e, OwnOK(h, c, e), c.st \in SynSent, Opened(c, d), d.rcv > 0
  PROVE  OwnOK(h, d, e) /\ d.got = <<>> /\ d.sent = <<>> /\ c.inc # 0
<1>1. /\ c \in Conn /\ Numbered(c) /\ Sides(h, c) /\ Counts(c, Base(h, c.inc)) /\ Told(c)
      /\ Base(h, c.inc) \in Nat /\ Len(c.sent) <= BytesMax[h]
  BY OwnFields
<1>2. c.len = 1 /\ c.snd = Base(h, c.inc) /\ c.sent = <<>> /\ c.got = <<>>  BY <1>1 DEF Counts
<1>3. Numbered(d)  BY <1>1 DEF Numbered, Opened
<1>4. Sides(h, d) /\ c.inc # 0  BY <1>1 DEF Sides, Opened, SynSent
<1>5. Told(d)  BY <1>1 DEF Told, SynSent, Opened
<1>6. Counts(d, Base(h, d.inc))
  <2> DEFINE b == Base(h, c.inc)
  <2>1. d.snd = b + 1 /\ d.len = 0 /\ Len(d.sent) = 0 /\ Base(h, d.inc) = b /\ b \in Nat
    BY <1>1, <1>2 DEF Opened
  <2> HIDE DEF b
  <2>2. d.len <= Len(d.sent) /\ d.snd + d.len = b + 1 + Len(d.sent)  BY <2>1
  <2> QED  BY <2>1, <2>2 DEF Counts, Opened, SynSent, FinOut, FinDone
<1>7. OwnOK(h, d, e)  BY <1>1, <1>3, <1>4, <1>5, <1>6 DEF OwnOK, Opened, FinOut
<1> QED  BY <1>2, <1>4, <1>7 DEF Opened

LEMMA FollowsFresh ==
  ASSUME NEW r, NEW s \in Conn, NEW b \in Nat, NEW e, r.got = <<>>, r.rcv = b + 1,
         r.heard \in {"nothing", "open"}
  PROVE  Follows(r, s, b, e)
<1>1. Len(s.sent) \in Nat /\ Len(r.got) = 0  BY ConnFields
<1>2. b + 1 <= b + 1 + Len(s.sent) /\ b + 1 = b + 1 + 0
  <2> DEFINE k == Len(s.sent)
  <2>1. k \in Nat  BY <1>1
  <2> HIDE DEF k
  <2>2. b + 1 <= b + 1 + k /\ b + 1 = b + 1 + 0  BY <2>1
  <2> QED  BY <2>2 DEF k
<1>3. \A i \in 1..Len(r.got) : r.got[i] = i  BY <1>1
<1>4. Len(r.got) <= Len(s.sent)  BY <1>1
<1>5. r.rcv = b + 1 + Len(r.got)  BY <1>1, <1>2
<1> QED  BY <1>2, <1>3, <1>4, <1>5 DEF Follows

LEMMA OpenServerGood ==
  ASSUME NEW cs, NEW w, NEW e, Good(cs, w, e), NEW c, c = cs["server"], c.st = "SYN_RCVD", NEW m,
         OnWay(cs, e, m), m.to = "server", m.kind # "RST", Acks(c, m), NEW d, Opened(c, d), d.rcv = c.rcv,
         NEW cs2, Moves(cs, cs2, "server", d)
  PROVE  Good(cs2, w, e)
<1> DEFINE r == cs["client"]
           k == c.inc
<1>1. /\ "server" \in Host /\ "client" \in Host /\ Peer("server") = "client" /\ Peer("client") = "server"
      /\ "client" # "server"
  BY HostPeer
<1>2. /\ cs \in [Host -> Conn] /\ Contact(cs, e) /\ OwnOK("server", c, e) /\ c \in Conn /\ Sides("server", c)
      /\ r \in Conn /\ Sides("client", r) /\ e \in BOOLEAN /\ OwnOK("client", r, e) /\ m \in SegmentType
  BY <1>1, GoodHost DEF OnWay
<1>3. /\ r.inc \in Nat /\ r.rcv \in Nat /\ k \in Nat /\ m.ack \in Nat /\ r.inc <= 1 /\ c.rcv = 1
      /\ Base("server", k) = IssGap * k /\ IssGap * k \in Nat
  BY <1>1, <1>2, ConnFields, SegmentFields, BaseType DEF Sides
<1>4. c.len = 1 /\ c.snd = IssGap * k
  <2>1. Counts(c, Base("server", c.inc))  BY <1>1, <1>2, OwnFields
  <2> QED  BY <2>1, <1>3 DEF Counts, SynSent
<1>5. Joined(cs, k)
  <2>1. PICK j \in Nat : OfInc(cs, e, m, j)  BY DEF OnWay
  <2>2. j \in 1..r.inc /\ (j = r.inc => Current("client", r, e, m))  BY <2>1, <1>1 DEF OfInc
  <2>3. m.ack <= r.rcv
    <3>1. j = r.inc  BY <2>2, <1>3
    <3> QED  BY <3>1, <2>2 DEF Current
  <2>4. m.ack = IssGap * k + 1  BY <1>4 DEF Acks
  <2>5. r.rcv > IssGap * k
    <3> HIDE DEF r, k
    <3> QED  BY <2>3, <2>4, <1>3
  <2> QED  BY <2>5, <1>2, PairedIsJoined
<1>6. d.rcv > 0  BY <1>3
<1>7. OwnOK("server", d, e) /\ d.got = <<>> /\ d.sent = <<>> /\ k # 0
  BY <1>1, <1>2, <1>6, OpenedOK DEF SynSent
<1>8. cs2 \in [Host -> Conn] /\ cs2["server"] = d /\ cs2["client"] = r  BY <1>1 DEF Moves
<1>9. d.inc = k /\ c.sent = <<>> /\ d.st \notin Over /\ c.st \notin Over /\ d.heard = "open" /\ d \in Conn
  BY <1>7 DEF Opened, Over, FinOut, FinDone
<1>10. \A j : Joined(cs2, j) <=> Joined(cs, j)  BY <1>8 DEF Joined
<1> HIDE DEF r, k
<1>11. r.inc = 1 /\ Follows(d, r, 0, e)
  <2>1. r.inc = 1
    <3>1. k > 0  BY <1>3, <1>7
    <3> QED  BY <3>1, <1>2 DEF Contact, r, k
  <2>2. d.rcv = 0 + 1 /\ 0 \in Nat  BY <1>3
  <2> QED  BY <2>1, <2>2, <1>2, <1>7, <1>9, FollowsFresh
<1>12. Follows(r, d, IssGap * k, e)
  <2>1. Follows(r, c, IssGap * k, e)  BY <1>2, <1>5 DEF Contact, r, k
  <2> QED  BY <2>1, <1>7, <1>9, FollowsSender
<1>13. r.rcv = 0 \/ \E j \in 1..k : Joined(cs, j)  BY <1>2 DEF Contact, r, k
<1>14. r.st \in Alive => r.rcv > 0  BY <1>2 DEF Contact, r
<1>15. ~e => r.st # "FIN_WAIT_2"
  <2>1. c.heard = "nothing"
    <3>1. Told(c)  BY <1>1, <1>2, OwnFields
    <3> QED  BY <3>1 DEF Told, SynSent
  <2> QED  BY <2>1, <1>1, <1>2, <1>5 DEF Contact, r, k
<1>16. Contact(cs2, e)
  <2>1. d.st # "FIN_WAIT_2"  BY <1>9 DEF Over, FinDone
  <2>2. ~e => \A g \in Host : cs2[g].st = "FIN_WAIT_2" => cs2[Peer(g)].heard \in {"closed", "broken"}
    BY <2>1, <1>8, <1>15 DEF Host
  <2> QED  BY <2>2, <1>5, <1>8, <1>9, <1>10, <1>11, <1>12, <1>13, <1>14 DEF Contact
<1>17. Grows(c, d)
  <2>1. Len(d.sent) = Len(c.sent) /\ Len(c.sent) \in Nat  BY <1>7, <1>9
  <2>2. d.inc = c.inc /\ c.rcv <= d.rcv  BY <1>3, <1>9 DEF k
  <2> QED  BY <2>1, <2>2, <1>9 DEF Grows
<1>18. KeepsJoined(cs, cs2)  BY <1>10 DEF KeepsJoined
<1> QED  BY <1>1, <1>2, <1>7, <1>16, <1>17, <1>18, GoodMoves

LEMMA OpenClientGood ==
  ASSUME NEW cs, NEW w, NEW e, Good(cs, w, e), NEW c, c = cs["client"], c.st = "SYN_SENT", NEW m,
         OnWay(cs, e, m), m.to = "client", m.kind = "SYNACK", NEW d, Opened(c, d),
         d.rcv = m.seq + 1, NEW cs2, Moves(cs, cs2, "client", d)
  PROVE  Good(cs2, w, e)
<1> DEFINE s == cs["server"]
           k == s.inc
<1>1. /\ "server" \in Host /\ "client" \in Host /\ Peer("server") = "client" /\ Peer("client") = "server"
      /\ "client" # "server"
  BY HostPeer
<1>2. /\ cs \in [Host -> Conn] /\ Contact(cs, e) /\ OwnOK("client", c, e) /\ c \in Conn /\ Sides("client", c)
      /\ s \in Conn /\ e \in BOOLEAN /\ m \in SegmentType
  BY <1>1, GoodHost DEF OnWay
<1>3. c.rcv = 0 /\ k \in Nat /\ m.seq \in Nat  BY <1>2, ConnFields, SegmentFields DEF Sides
<1>4. \A i \in Nat : ~Joined(cs, i)
  <2> SUFFICES ASSUME NEW i \in Nat, Joined(cs, i) PROVE FALSE
    OBVIOUS
  <2>1. IssGap * i \in Nat  BY <1>1, BaseType
  <2>2. IssGap * i < 0  BY <1>3 DEF Joined
  <2> QED  BY <2>1, <2>2
<1>5. PICK j \in Nat : OfInc(cs, e, m, j)  BY DEF OnWay
<1>6. j \in 1..k /\ Within("server", m, j)  BY <1>1, <1>5 DEF OfInc
<1>7. m.seq = IssGap * j /\ IssGap * j \in Nat /\ BytesMax["server"] \in Nat
  BY <1>1, <1>6, BaseType, Consts DEF Within
<1>8. d.rcv > 0
  <2>1. d.rcv = IssGap * j + 1  BY <1>7
  <2> QED  BY <2>1, <1>7
<1>9. OwnOK("client", d, e) /\ d.got = <<>> /\ d.sent = <<>> /\ c.inc # 0
  BY <1>1, <1>2, <1>8, OpenedOK DEF SynSent
<1>10. cs2 \in [Host -> Conn] /\ cs2["client"] = d /\ cs2["server"] = s  BY <1>1 DEF Moves
<1>11. /\ d.inc = c.inc /\ c.sent = <<>> /\ d.st \notin Over /\ c.st \notin Over /\ d.heard = "open"
       /\ d \in Conn
  BY <1>9 DEF Opened, Over, FinOut, FinDone
<1>12. Joined(cs2, j)
  <2>1. d.rcv = IssGap * j + 1  BY <1>7
  <2>2. IssGap * j < d.rcv /\ d.rcv <= IssGap * j + BytesMax["server"] + 2  BY <2>1, <1>7
  <2> QED  BY <2>2, <1>10 DEF Joined
<1> HIDE DEF s, k
<1>13. s.st \notin Alive /\ s.heard \notin {"open", "closed"} /\ ~(s.rcv > 1)
  BY <1>2, <1>3, <1>4 DEF Contact, s, k
<1>14. k > 0 => d.inc = 1 /\ Follows(s, d, 0, e)
  <2> SUFFICES ASSUME k > 0 PROVE d.inc = 1 /\ Follows(s, d, 0, e)
    OBVIOUS
  <2>1. c.inc = 1 /\ Follows(s, c, 0, e)  BY <1>2 DEF Contact, s, k
  <2> QED  BY <2>1, <1>9, <1>11, FollowsSender
<1>15. Joined(cs2, k) => Follows(d, s, IssGap * k, e)
  <2> SUFFICES ASSUME Joined(cs2, k) PROVE Follows(d, s, IssGap * k, e)
    OBVIOUS
  <2>1. j = k  BY <1>3, <1>10, <1>12, JoinedOnce
  <2>2. d.rcv = IssGap * k + 1 /\ IssGap * k \in Nat  BY <2>1, <1>7
  <2> QED  BY <2>2, <1>2, <1>9, <1>11, FollowsFresh
<1>16. Contact(cs2, e)
  <2>1. s.st # "FIN_WAIT_2" /\ d.st # "FIN_WAIT_2"  BY <1>11, <1>13 DEF Over, FinDone, Alive
  <2>2. \A g \in Host : cs2[g].st # "FIN_WAIT_2"  BY <2>1, <1>10 DEF Host
  <2>3. cs2["server"].inc = k  BY <1>10 DEF s, k
  <2>4. \E i \in 1..k : Joined(cs2, i)  BY <1>6, <1>12
  <2> QED  BY <2>2, <2>3, <2>4, <1>8, <1>10, <1>13, <1>14, <1>15 DEF Contact
<1>17. Grows(c, d)
  <2>1. Len(d.sent) = Len(c.sent) /\ Len(c.sent) \in Nat  BY <1>9, <1>11
  <2>2. d.rcv \in Nat /\ c.rcv <= d.rcv  BY <1>3, <1>7
  <2> QED  BY <2>1, <2>2, <1>11 DEF Grows
<1>18. KeepsJoined(cs, cs2)  BY <1>4 DEF KeepsJoined
<1> QED  BY <1>1, <1>2, <1>9, <1>16, <1>17, <1>18, GoodMoves


Open(a) == [a EXCEPT !.st = "ESTABLISHED", !.heard = "open"]

LEMMA OpenIs ==
  ASSUME NEW a \in Conn, NEW d, d = Open(a)
  PROVE  /\ d \in Conn /\ d.st = "ESTABLISHED" /\ d.heard = "open" /\ d.snd = a.snd /\ d.len = a.len
         /\ d.stopped = a.stopped /\ d.sent = a.sent /\ d.got = a.got /\ d.rcv = a.rcv /\ d.inc = a.inc
         /\ d.left = a.left
<1>1. d = [a EXCEPT !.st = "ESTABLISHED", !.heard = "open"]  BY DEF Open
<1> QED  BY <1>1, Zenon DEF Conn

LEMMA RecvSynRcvdGood ==
  ASSUME Good(conn, wire, closedEarly), NEW m \in wire, NEW h, h = m.to, NEW u, RecvSynRcvd(h, m, u)
  PROVE  Done(h)
<1> DEFINE c   == conn[h]
           a   == AfterAck(c, m)
           o   == Open(a)
           cs1 == [conn EXCEPT ![h] = o]
           v   == Deliver(a, m)
           d   == Open(v)
           cs2 == [conn EXCEPT ![h] = d]
           news == m.data # <<>>
<1>1. m \in SegmentType /\ h \in Host /\ OnWay(conn, closedEarly, m)  BY WireOK, SegmentFields
<1>2. /\ conn \in [Host -> Conn] /\ c \in Conn /\ Told(c) /\ Sides(h, c) /\ OwnOK(h, c, closedEarly)
      /\ closedEarly \in BOOLEAN
  BY <1>1, GoodHost
<1>3. /\ c.st = "SYN_RCVD" /\ m.kind # "RST" /\ Expected(c, m) /\ Acks(c, m)
      /\ appsend(h, d, u, news)
  BY Zenon DEF RecvSynRcvd, Received, Open
<1>4. h = "server" /\ c.heard = "nothing" /\ ~c.left  BY <1>1, <1>2, <1>3 DEF Sides, Host, Told, SynSent
<1>5. /\ a \in Conn /\ a.stopped = c.stopped /\ a.rcv = c.rcv
      /\ a.sent = c.sent /\ a.got = c.got /\ a.heard = c.heard /\ a.inc = c.inc /\ a.left = c.left
      /\ a.snd = c.snd + c.len /\ a.len = 0
  BY <1>2, <1>3, AfterAckIs
<1> HIDE DEF a
<1>6. /\ o \in Conn /\ o.st = "ESTABLISHED" /\ o.heard = "open" /\ o.snd = a.snd /\ o.len = a.len
      /\ o.stopped = a.stopped /\ o.sent = a.sent /\ o.got = a.got /\ o.rcv = a.rcv /\ o.inc = a.inc
      /\ o.left = a.left
  BY <1>5, OpenIs
<1> HIDE DEF o
<1>7. Opened(c, o) /\ o.rcv = c.rcv  BY <1>2, <1>5, <1>6 DEF Opened
<1>8. Moves(conn, cs1, h, o)  BY <1>1, <1>2, <1>6 DEF Moves
<1> HIDE DEF cs1
<1>9. Good(cs1, wire, closedEarly)  BY <1>1, <1>3, <1>4, <1>7, <1>8, OpenServerGood
<1>10. Delivers(a, m, v)  BY <1>1, <1>5, DeliverIs
<1> HIDE DEF v
<1>11. v \in Conn  BY <1>10 DEF Delivers
<1>12. /\ d \in Conn /\ d.st = "ESTABLISHED" /\ d.heard = "open" /\ d.snd = v.snd /\ d.len = v.len
       /\ d.stopped = v.stopped /\ d.sent = v.sent /\ d.got = v.got /\ d.rcv = v.rcv /\ d.inc = v.inc
       /\ d.left = v.left
  BY <1>11, OpenIs
<1> HIDE DEF d
<1>13. Moves(conn, cs2, h, d)  BY <1>1, <1>2, <1>12 DEF Moves
<1>14. Good(cs2, wire, closedEarly)
  <2>1. CASE m.data # <<>>
    <3>1. m.seq = o.rcv  BY <2>1, <1>3, <1>5, <1>6 DEF Expected
    <3>2. Delivers(o, m, d)  BY <1>6, <1>10, <1>12 DEF Delivers, GotData
    <3>3. OnWay(cs1, closedEarly, m)  BY <1>9 DEF Good
    <3>4. cs2 = [conn EXCEPT ![h] = d]  OBVIOUS
    <3> HIDE DEF cs2
    <3> QED  BY <2>1, <3>1, <3>2, <3>3, <3>4, <1>1, <1>2, <1>3, <1>6, <1>8, <1>9, DeliverGood
  <2>2. CASE m.data = <<>>
    <3>1. Len(m.data) = 0 /\ c.rcv \in Nat /\ c.got \in Seq(Nat)  BY <2>2, <1>1, <1>2, SegmentFields, ConnFields
    <3>2. v.rcv = c.rcv + 0  BY <3>1, <1>5, <1>10 DEF Delivers
    <3>3. d.rcv = c.rcv  BY <3>1, <3>2, <1>12
    <3> DEFINE g == c.got
    <3>4. g \o <<>> = g
      <4>1. g \in Seq(Nat)  BY <3>1
      <4> HIDE DEF g
      <4> QED  BY <4>1
    <3>5. v.got = a.got \o m.data  BY <1>10 DEF Delivers, GotData
    <3>6. d.got = c.got
      <4>1. d.got = g \o <<>>  BY <3>5, <2>2, <1>5, <1>12
      <4> QED  BY <4>1, <3>4
    <3>7. Opened(c, d)  BY <3>6, <1>2, <1>5, <1>10, <1>12 DEF Opened, Delivers
    <3> HIDE DEF cs2
    <3> QED  BY <3>3, <3>7, <1>1, <1>3, <1>4, <1>13, OpenServerGood
  <2> QED  BY <2>1, <2>2
<1> HIDE DEF cs2, news
<1>15. Good(conn', wire', closedEarly') /\ Called(d, conn'[h])
  BY <1>1, <1>2, <1>3, <1>12, <1>13, <1>14, AppsendGood
<1> QED  BY <1>1, <1>4, <1>12, <1>15, CalledDone DEF c

LEMMA RecvSynSentGood ==
  ASSUME Good(conn, wire, closedEarly), NEW m \in wire, NEW h, h = m.to, NEW u, RecvSynSent(h, m, u)
  PROVE  Done(h)
<1> DEFINE c   == conn[h]
           a   == AfterAck(c, m)
           n   == m.seq + 1
           d   == [a EXCEPT !.st = "ESTABLISHED", !.heard = "open", !.rcv = n]
           cs1 == [conn EXCEPT ![h] = d]
           ok  == m.kind = "SYNACK" /\ Acks(c, m)
<1>1. m \in SegmentType /\ h \in Host /\ OnWay(conn, closedEarly, m) /\ n \in Nat
  <2>1. m \in SegmentType /\ OnWay(conn, closedEarly, m)  BY WireOK
  <2>2. m.seq \in Nat /\ h \in Host  BY <2>1, SegmentFields
  <2> QED  BY <2>1, <2>2
<1>2. /\ conn \in [Host -> Conn] /\ c \in Conn /\ Told(c) /\ Sides(h, c) /\ OwnOK(h, c, closedEarly)
      /\ closedEarly \in BOOLEAN
  BY <1>1, GoodHost
<1>3. /\ c.st = "SYN_SENT" /\ m.kind # "RST"
      /\ IF ok THEN appsend(h, d, u, TRUE)
         ELSE Becomes(h, [Closed(c) EXCEPT !.heard = "broken"], u, {Reset(m)}) /\ UNCHANGED closedEarly
  BY Zenon DEF RecvSynSent, Received
<1>4. h = "client" /\ c.heard = "nothing" /\ ~c.left  BY <1>1, <1>2, <1>3 DEF Sides, Host, Told, SynSent
<1>5. CASE ok
  <2>1. /\ a \in Conn /\ a.sent = c.sent /\ a.got = c.got /\ a.inc = c.inc /\ a.left = c.left
        /\ a.snd = c.snd + c.len /\ a.len = 0
    BY <1>2, <1>5, AfterAckIs
  <2>2. appsend(h, d, u, TRUE) /\ m.kind = "SYNACK"  BY <1>3, <1>5
  <2>6. n = m.seq + 1  OBVIOUS
  <2> HIDE DEF a, n
  <2>3. /\ d \in Conn /\ d.st = "ESTABLISHED" /\ d.heard = "open" /\ d.rcv = n /\ d.snd = a.snd
        /\ d.len = a.len /\ d.sent = a.sent /\ d.got = a.got /\ d.inc = a.inc /\ d.left = a.left
    BY <2>1, <1>1, Zenon DEF Conn
  <2> HIDE DEF d
  <2>4. Opened(c, d) /\ d.rcv = m.seq + 1  BY <2>1, <2>3, <2>6, <1>2 DEF Opened
  <2>5. Moves(conn, cs1, h, d)  BY <2>3, <1>1, <1>2 DEF Moves
  <2> HIDE DEF cs1
  <2>7. Good(cs1, wire, closedEarly)
    BY <2>2, <2>4, <2>5, <1>1, <1>3, <1>4, OpenClientGood
  <2>8. Good(conn', wire', closedEarly') /\ Called(d, conn'[h])
    BY <2>2, <2>3, <2>5, <2>7, <1>1, <1>2, AppsendGood
  <2> QED  BY <2>3, <2>8, <1>1, <1>4, CalledDone DEF c
<1>6. CASE ~ok
  <2> DEFINE segs == {Reset(m)}
  <2>1. /\ Becomes(h, [Closed(conn[h]) EXCEPT !.heard = "broken"], u, segs) /\ UNCHANGED closedEarly
        /\ conn[h].st # "CLOSED"
    BY <1>3, <1>6
  <2>2. \A k \in segs : k \in SegmentType /\ k.kind = "RST"  BY <1>1, ResetIs
  <2> HIDE DEF segs
  <2> QED  BY <2>1, <2>2, <1>1, BrokenGood
<1> QED  BY <1>5, <1>6

IsFresh(d, st, iss, ack, inc) ==
  /\ d \in Conn /\ d.st = st /\ d.snd = iss /\ d.rcv = ack /\ d.len = 1 /\ d.stopped = FALSE
  /\ d.sent = <<>> /\ d.got = <<>> /\ d.heard = "nothing" /\ d.left = FALSE /\ d.inc = inc

LEMMA FreshIs ==
  ASSUME NEW st \in SynSent, NEW iss \in Nat, NEW ack \in Nat, NEW inc \in 0..IncMax
  PROVE  IsFresh(Fresh(st, iss, ack, inc), st, iss, ack, inc)
<1>1. 1 \in 0..SendMax /\ 0 \in 0..RtxMax /\ <<>> \in Seq(Nat)  BY Consts
<1>2. st \in {"CLOSED", "SYN_SENT", "SYN_RCVD", "ESTABLISHED", "FIN_WAIT_1", "FIN_WAIT_2",
              "CLOSING", "TIME_WAIT", "LAST_ACK"}
  BY DEF SynSent
<1> QED  BY <1>1, <1>2, Zenon DEF IsFresh, Fresh, Conn

LEMMA FreshOK ==
  ASSUME NEW h \in Host, NEW st \in SynSent, NEW ack \in Nat, NEW inc \in 1..IncMax, NEW d, NEW e,
         d = Fresh(st, Base(h, inc), ack, inc),
         h = "client" => st = "SYN_SENT" /\ inc = 1 /\ ack = 0,
         h = "server" => st = "SYN_RCVD" /\ ack = 1
  PROVE  OwnOK(h, d, e)
<1>1. inc \in Nat /\ inc \in 0..IncMax /\ inc # 0  BY Consts
<1>2. Base(h, inc) \in Nat  BY <1>1, BaseType
<1>3. /\ d \in Conn /\ d.st = st /\ d.snd = Base(h, inc) /\ d.rcv = ack /\ d.len = 1 /\ d.stopped = FALSE
      /\ d.sent = <<>> /\ d.got = <<>> /\ d.heard = "nothing" /\ d.left = FALSE /\ d.inc = inc
  <2>1. IsFresh(d, st, Base(h, inc), ack, inc)  BY <1>1, <1>2, FreshIs
  <2> QED  BY <2>1 DEF IsFresh
<1>4. Numbered(d) /\ Len(d.sent) = 0 /\ 0 <= BytesMax[h]
  <2>1. Len(d.sent) = 0 /\ Len(d.got) = 0  BY <1>3
  <2>2. BytesMax[h] \in Nat  BY Consts
  <2>3. 0 <= BytesMax[h]  BY <2>2
  <2> QED  BY <2>1, <2>3 DEF Numbered
<1>5. Sides(h, d)  BY <1>1, <1>3 DEF Sides, Host
<1>6. Counts(d, Base(h, d.inc))  BY <1>3 DEF Counts, SynSent, FinOut, FinDone
<1>7. Told(d)  BY <1>3 DEF Told, SynSent
<1> QED  BY <1>3, <1>4, <1>5, <1>6, <1>7 DEF OwnOK, SynSent, FinOut

Accepted(c, m) == Fresh("SYN_RCVD", IssGap * (c.inc + 1), m.seq + 1, c.inc + 1)

(* The server takes a SYN: what is on its way is of the connections before, *)
(* and the client is in none of this one yet.                              *)
LEMMA ListenGood ==
  ASSUME NEW cs, NEW w, NEW e, Good(cs, w, e), NEW c, c = cs["server"], c.st = "CLOSED", NEW m,
         OnWay(cs, e, m), m.to = "server", m.kind = "SYN", c.inc < IncMax,
         NEW d, d = Accepted(c, m), NEW cs2, Moves(cs, cs2, "server", d),
         NEW w2, \A g \in w2 : g \in w \/ Own("server", d, g)
  PROVE  Good(cs2, w2, e) /\ d \in Conn /\ d.inc # c.inc /\ d.st = "SYN_RCVD"
<1> DEFINE r == cs["client"]
           k == c.inc + 1
<1>0. d = Fresh("SYN_RCVD", IssGap * k, m.seq + 1, k)  BY DEF Accepted
<1>1. /\ "server" \in Host /\ "client" \in Host /\ Peer("server") = "client" /\ Peer("client") = "server"
      /\ "client" # "server"
  BY HostPeer
<1>2. /\ cs \in [Host -> Conn] /\ Contact(cs, e) /\ c \in Conn /\ r \in Conn /\ Sides("client", r)
      /\ e \in BOOLEAN /\ OwnOK("client", r, e) /\ m \in SegmentType
  BY <1>1, GoodHost DEF OnWay
<1>3. /\ c.inc \in Nat /\ k \in Nat /\ r.inc \in Nat /\ r.rcv \in Nat /\ IncMax \in Nat /\ k \in 1..IncMax
      /\ k # c.inc /\ c.inc <= k
  <2>1. c.inc \in Nat /\ r.inc \in Nat /\ r.rcv \in Nat /\ IncMax \in Nat  BY <1>2, ConnFields, Consts
  <2> QED  BY <2>1
<1> HIDE DEF k
<1>21. \A i \in 1..c.inc : i \in 1..k /\ i # k  BY <1>3 DEF k
<1>4. PICK j \in Nat : OfInc(cs, e, m, j)  BY DEF OnWay
<1>5. j \in 1..r.inc /\ Within("client", m, j)  BY <1>1, <1>4 DEF OfInc
<1>6. m.seq = 0 /\ r.inc = 1
  <2>1. r.inc <= 1  BY <1>2 DEF Sides
  <2>2. r.inc = 1  BY <2>1, <1>3, <1>5
  <2> QED  BY <2>2, <1>5 DEF Within, Base
<1>7. d = Fresh("SYN_RCVD", Base("server", k), 1, k)
  <2>1. m.seq + 1 = 1  BY <1>6
  <2>2. Base("server", k) = IssGap * k  BY <1>1, <1>3, BaseType
  <2> QED  BY <2>1, <2>2, <1>0
<1>8. OwnOK("server", d, e)  BY <1>1, <1>3, <1>7, FreshOK DEF SynSent
<1>9. /\ d \in Conn /\ d.st = "SYN_RCVD" /\ d.rcv = 1 /\ d.got = <<>> /\ d.heard = "nothing" /\ d.inc = k
      /\ d.left = FALSE
  <2>1. Base("server", k) \in Nat /\ 1 \in Nat /\ k \in 0..IncMax  BY <1>1, <1>3, BaseType
  <2>2. IsFresh(Fresh("SYN_RCVD", Base("server", k), 1, k), "SYN_RCVD", Base("server", k), 1, k)
    BY <2>1, FreshIs DEF SynSent
  <2> QED  BY <2>2, <1>7 DEF IsFresh
<1>10. cs2 \in [Host -> Conn] /\ cs2["server"] = d /\ cs2["client"] = r  BY <1>1 DEF Moves
<1>11. \A i : Joined(cs2, i) <=> Joined(cs, i)  BY <1>10 DEF Joined
<1> HIDE DEF r
<1>12. r.rcv = 0 \/ \E i \in 1..c.inc : Joined(cs, i)  BY <1>2 DEF Contact, r
<1>13. ~Joined(cs, k)
  <2> SUFFICES ASSUME Joined(cs, k) PROVE FALSE
    OBVIOUS
  <2>1. CASE r.rcv = 0
    <3>1. IssGap * k < 0 /\ IssGap * k \in Nat  BY <2>1, <1>1, <1>3, BaseType DEF Joined, r
    <3> QED  BY <3>1
  <2>2. CASE \E i \in 1..c.inc : Joined(cs, i)
    <3>1. PICK i \in 1..c.inc : Joined(cs, i)  BY <2>2
    <3>2. i \in Nat /\ i # k  BY <3>1, <1>3, <1>21
    <3> QED  BY <3>1, <3>2, <1>2, <1>3, JoinedOnce
  <2> QED  BY <2>1, <2>2, <1>12
<1>14. Follows(d, r, 0, e)
  <2>1. d.rcv = 0 + 1 /\ 0 \in Nat  BY <1>9
  <2> QED  BY <2>1, <1>2, <1>9, FollowsFresh
<1>15. r.st \in Alive => r.rcv > 0  BY <1>2 DEF Contact, r
<1>16. Contact(cs2, e)
  <2>1. r.rcv = 0 \/ \E i \in 1..k : Joined(cs2, i)
    <3>1. CASE r.rcv = 0  BY <3>1
    <3>2. CASE \E i \in 1..c.inc : Joined(cs, i)
      <4>1. PICK i \in 1..c.inc : Joined(cs, i)  BY <3>2
      <4>2. i \in 1..k  BY <4>1, <1>21
      <4> QED  BY <4>1, <4>2, <1>11
    <3> QED  BY <3>1, <3>2, <1>12
  <2>2. d.st \notin Alive /\ d.heard \notin {"open", "closed"} /\ ~(d.rcv > 1)
    BY <1>9 DEF Alive, FinOut, FinDone
  <2>3. ~Joined(cs2, k)  BY <1>11, <1>13
  <2> QED  BY <2>1, <2>2, <2>3, <1>6, <1>9, <1>10, <1>14, <1>15 DEF Contact
<1>17. \A h \in Host : OwnOK(h, cs2[h], e)
  <2> TAKE h \in Host
  <2>1. CASE h = "server"  BY <2>1, <1>8, <1>10
  <2>2. CASE h = "client"  BY <2>2, <1>2, <1>10
  <2> QED  BY <2>1, <2>2 DEF Host
<1>18. ASSUME NEW g, OnWay(cs, e, g) PROVE OnWay(cs2, e, g)
  <2> SUFFICES ASSUME g.kind # "RST" PROVE \E i \in Nat : OfInc(cs2, e, g, i)
    BY <1>18 DEF OnWay
  <2>1. g \in SegmentType /\ g.to \in Host  BY <1>18, SegmentFields DEF OnWay
  <2>2. PICK i \in Nat : OfInc(cs, e, g, i)  BY <1>18 DEF OnWay
  <2>3. CASE Peer(g.to) = "client"  BY <2>2, <2>3, <1>10, <1>11 DEF OfInc, r
  <2>4. CASE Peer(g.to) = "server"
    <3>1. i \in 1..c.inc /\ Within("server", g, i) /\ (g.ack > 1 => Joined(cs, i))
      BY <2>2, <2>4 DEF OfInc
    <3>2. i \in 1..d.inc /\ i # d.inc  BY <3>1, <1>9, <1>21
    <3>3. OfInc(cs2, e, g, i)  BY <3>1, <3>2, <2>4, <1>10, <1>11 DEF OfInc
    <3> QED  BY <3>3
  <2> QED  BY <2>1, <2>3, <2>4 DEF Host, Peer
<1>19. \A g \in w2 : OnWay(cs2, e, g)
  <2> TAKE g \in w2
  <2>1. CASE g \in w
    <3>1. OnWay(cs, e, g)  BY <2>1 DEF Good
    <3> QED  BY <3>1, <1>18
  <2>2. CASE Own("server", d, g)  BY <2>2, <1>1, <1>8, <1>10, <1>16, OwnWay
  <2> QED  BY <2>1, <2>2
<1>20. Good(cs2, w2, e)  BY <1>2, <1>10, <1>16, <1>17, <1>19 DEF Good
<1> QED  BY <1>3, <1>9, <1>20

LEMMA RecvListenGood ==
  ASSUME Good(conn, wire, closedEarly), NEW m \in wire, NEW h, h = m.to, NEW u, RecvListen(h, m, u)
  PROVE  Done(h)
<1> DEFINE c == conn["server"]
           d == Accepted(c, m)
           seg == Segment(h, d, "SYNACK", <<>>)
<1>1. /\ h = "server" /\ h \in Host /\ conn \in [Host -> Conn] /\ OnWay(conn, closedEarly, m)
      /\ c \in Conn /\ m \in SegmentType
  BY HostPeer, GoodHost, WireOK DEF RecvListen
<1>2. /\ c.st = "CLOSED" /\ m.kind = "SYN" /\ c.inc < IncMax /\ Becomes(h, d, u, {seg})
      /\ closedEarly' = closedEarly
  BY <1>1 DEF RecvListen, Accepted
<1>3. d = Accepted(c, m) /\ seg = Segment(h, d, "SYNACK", <<>>) /\ c = conn["server"]  OBVIOUS
<1> HIDE DEF d, c, seg
<1>4. d \in Conn /\ d.st = "SYN_RCVD"
  <2> DEFINE k   == c.inc + 1
             iss == IssGap * k
             ack == m.seq + 1
  <2>1. c.inc \in Nat /\ IncMax \in Nat /\ m.seq \in Nat  BY <1>1, ConnFields, SegmentFields, Consts
  <2>2. k \in Nat /\ k \in 0..IncMax /\ ack \in Nat  BY <2>1, <1>2
  <2>3. d = Fresh("SYN_RCVD", iss, ack, k)  BY <1>3 DEF Accepted
  <2> HIDE DEF k
  <2>4. iss \in Nat  BY <2>2, <1>1, BaseType
  <2> HIDE DEF iss, ack
  <2>5. IsFresh(Fresh("SYN_RCVD", iss, ack, k), "SYN_RCVD", iss, ack, k)
    BY <2>2, <2>4, FreshIs DEF SynSent
  <2> QED  BY <2>3, <2>5 DEF IsFresh
<1>5. Moves(conn, conn', h, d) /\ \A g \in wire' : g \in wire \/ g \in {seg}
  <2>1. Moves(conn, conn, h, conn[h])  BY <1>1, NotMoved
  <2> QED  BY <2>1, <1>1, <1>2, <1>4, BecomesMoves
<1>6. Own(h, d, seg)  BY <1>1, <1>3, <1>4, MaySend
<1>7. \A g \in wire' : g \in wire \/ Own("server", d, g)  BY <1>1, <1>5, <1>6
<1>8. Moves(conn, conn', "server", d)  BY <1>1, <1>5
<1>9. Good(conn', wire', closedEarly) /\ d.inc # c.inc
  <2>1. /\ m.to = "server" /\ m.kind = "SYN" /\ c.st = "CLOSED" /\ c.inc < IncMax
        /\ c = conn["server"] /\ d = Accepted(c, m)
    BY <1>1, <1>2, <1>3
  <2>2. OnWay(conn, closedEarly, m)  BY <1>1
  <2> QED  BY ONLY <2>1, <2>2, <1>7, <1>8, Good(conn, wire, closedEarly), ListenGood
<1>10. conn'[h] = d  BY <1>5 DEF Moves
<1> QED  BY <1>1, <1>2, <1>3, <1>9, <1>10 DEF Done

(* The first connection of the client: nothing of a connection is on its   *)
(* way.                                                                    *)
LEMMA ConnectGood ==
  ASSUME Good(conn, wire, closedEarly), uip_connect
  PROVE  Done("client")
<1> DEFINE c == conn["client"]
           s == conn["server"]
           d == Fresh("SYN_SENT", 0, 0, 1)
<1>1. /\ "server" \in Host /\ "client" \in Host /\ Peer("server") = "client" /\ Peer("client") = "server"
      /\ "client" # "server"
  BY HostPeer
<1>2. /\ conn \in [Host -> Conn] /\ Contact(conn, closedEarly) /\ c \in Conn /\ s \in Conn /\ Sides("server", s)
      /\ closedEarly \in BOOLEAN /\ OwnOK("server", s, closedEarly)
  BY <1>1, GoodHost
<1>3. c.inc = 0 /\ Becomes("client", d, {}, {}) /\ closedEarly' = closedEarly  BY DEF uip_connect
<1>4. s.inc = 0
  <2>1. s.inc \in Nat  BY <1>2, ConnFields
  <2>2. ~(s.inc > 0)  BY <1>2, <1>3 DEF Contact
  <2> QED  BY <2>1, <2>2
<1>5. 1 \in 0..IncMax /\ 1 \in 1..IncMax
  <2>1. IncMax \in Nat /\ IncMax # 0  BY TcpAssumption
  <2> QED  BY <2>1
<1>6. /\ d \in Conn /\ d.st = "SYN_SENT" /\ d.rcv = 0 /\ d.got = <<>> /\ d.heard = "nothing" /\ d.inc = 1
  <2>1. IsFresh(Fresh("SYN_SENT", 0, 0, 1), "SYN_SENT", 0, 0, 1)  BY <1>5, FreshIs DEF SynSent
  <2> QED  BY <2>1 DEF IsFresh
<1>7. OwnOK("client", d, closedEarly)
  <2>1. d = Fresh("SYN_SENT", Base("client", 1), 0, 1)  BY DEF Base
  <2> HIDE DEF d
  <2> QED  BY <2>1, <1>1, <1>5, FreshOK DEF SynSent
<1> HIDE DEF d
<1>8. Moves(conn, conn', "client", d) /\ wire' = wire
  <2>1. Moves(conn, conn, "client", conn["client"])  BY <1>1, <1>2, NotMoved
  <2>2. Moves(conn, conn', "client", d)  BY <2>1, <1>1, <1>2, <1>3, <1>6, BecomesMoves
  <2>3. wire' = wire  BY <1>3 DEF Becomes
  <2> QED  BY <2>2, <2>3
<1>9. conn' \in [Host -> Conn] /\ conn'["client"] = d /\ conn'["server"] = s  BY <1>1, <1>8 DEF Moves
<1>10. ~Joined(conn', 0)
  <2>1. IssGap * 0 = 0  BY Consts
  <2> QED  BY <2>1, <1>6, <1>9 DEF Joined
<1>11. s.st = "CLOSED" /\ s.heard = "nothing" /\ s.rcv = 0  BY <1>2, <1>4 DEF Sides
<1>12. Contact(conn', closedEarly)
  <2>1. s.st \notin Alive /\ d.st \notin Alive  BY <1>6, <1>11 DEF Alive, FinOut, FinDone
  <2>2. s.heard \notin {"open", "closed"} /\ ~(s.rcv > 1) /\ ~(s.inc > 0)  BY <1>4, <1>11
  <2> HIDE DEF s
  <2> QED  BY <2>1, <2>2, <1>4, <1>6, <1>9, <1>10 DEF Contact
<1>13. \A h \in Host : OwnOK(h, conn'[h], closedEarly)
  <2> TAKE h \in Host
  <2>1. CASE h = "server"  BY <2>1, <1>2, <1>9
  <2>2. CASE h = "client"  BY <2>2, <1>7, <1>9
  <2> QED  BY <2>1, <2>2 DEF Host
<1>14. \A m \in wire : OnWay(conn', closedEarly, m)
  <2> TAKE m \in wire
  <2>1. OnWay(conn, closedEarly, m)  BY DEF Good
  <2>2. m \in SegmentType /\ m.to \in Host  BY <2>1, SegmentFields DEF OnWay
  <2>3. m.kind = "RST"
    <3> SUFFICES ASSUME m.kind # "RST" PROVE FALSE
      OBVIOUS
    <3>1. PICK j \in Nat : OfInc(conn, closedEarly, m, j)  BY <2>1 DEF OnWay
    <3>2. j \in 1..conn[Peer(m.to)].inc  BY <3>1 DEF OfInc
    <3>3. conn[Peer(m.to)].inc = 0  BY <2>2, <1>3, <1>4 DEF Host, Peer
    <3> QED  BY <3>2, <3>3
  <2> QED  BY <2>2, <2>3, RstWay
<1>15. Good(conn', wire', closedEarly')  BY <1>2, <1>3, <1>8, <1>9, <1>12, <1>13, <1>14 DEF Good
<1> QED  BY <1>3, <1>6, <1>9, <1>15 DEF Done

-------------------------------------------------------------------------------
(***************************************************************************)
(* Every step is a step of one host: the other's connection stays.         *)
(***************************************************************************)
Still(h) == \A g \in Host : g # h => conn'[g] = conn[g]

LEMMA BecomesStill ==
  ASSUME conn \in [Host -> Conn], NEW h, NEW c, NEW used, NEW segs, Becomes(h, c, used, segs)
  PROVE  Still(h)
BY DEF Becomes, Still

LEMMA AppsendStill ==
  ASSUME conn \in [Host -> Conn], NEW h, NEW c, NEW used, NEW news, appsend(h, c, used, news)
  PROVE  Still(h)
<1>1. ASSUME uip_close(h, c, used) PROVE Still(h)  BY <1>1, BecomesStill DEF uip_close
<1>2. ASSUME uip_abort(h, c, used) PROVE Still(h)  BY <1>2, BecomesStill DEF uip_abort
<1>3. ASSUME NEW n, uip_send(h, c, used, n) PROVE Still(h)  BY <1>3, BecomesStill, Zenon DEF uip_send
<1>4. ASSUME NEW d, NEW k, Quiet(h, d, used, k) PROVE Still(h)  BY <1>4, BecomesStill DEF Quiet
<1> QED  BY <1>1, <1>2, <1>3, <1>4 DEF appsend

LEMMA TimerStill ==
  ASSUME conn \in [Host -> Conn], NEW h, Waits(h) \/ TimesOut(h) \/ Rexmit(h)
  PROVE  Still(h)
<1>1. CASE Waits(h)  BY <1>1, BecomesStill DEF Waits
<1>2. CASE TimesOut(h)  BY <1>2, BecomesStill DEF TimesOut
<1>3. CASE Rexmit(h)  BY <1>3, BecomesStill, Zenon DEF Rexmit
<1> QED  BY <1>1, <1>2, <1>3

LEMMA InputStill ==
  ASSUME conn \in [Host -> Conn], NEW h, NEW m, NEW u, uip_input(h, m, u)
  PROVE  Still(h)
<1>1. CASE RecvReset(h, m, u)  BY <1>1 DEF RecvReset, Still
<1>2. CASE RecvListen(h, m, u)  BY <1>2, BecomesStill DEF RecvListen
<1>3. CASE RecvRst(h, m, u)  BY <1>3, BecomesStill DEF RecvRst
<1>4. CASE RecvOutOfOrder(h, m, u)  BY <1>4, BecomesStill DEF RecvOutOfOrder
<1>5. CASE RecvSynRcvd(h, m, u)  BY <1>5, AppsendStill DEF RecvSynRcvd
<1>6. CASE RecvSynSent(h, m, u)  BY <1>6, AppsendStill, BecomesStill DEF RecvSynSent
<1>7. CASE RecvFin(h, m, u)  BY <1>7, BecomesStill DEF RecvFin
<1>8. CASE RecvData(h, m, u)  BY <1>8, AppsendStill, BecomesStill DEF RecvData
<1>9. CASE RecvFinWait1(h, m, u)  BY <1>9, BecomesStill DEF RecvFinWait1
<1>10. CASE RecvFinWait2(h, m, u)  BY <1>10, BecomesStill DEF RecvFinWait2
<1>11. CASE RecvTimeWait(h, m, u)  BY <1>11, BecomesStill DEF RecvTimeWait
<1>12. CASE RecvClosing(h, m, u)  BY <1>12, BecomesStill DEF RecvClosing
<1>13. CASE RecvLastAck(h, m, u)  BY <1>13, BecomesStill DEF RecvLastAck
<1> QED
  BY <1>1, <1>2, <1>3, <1>4, <1>5, <1>6, <1>7, <1>8, <1>9, <1>10, <1>11, <1>12, <1>13 DEF uip_input

-------------------------------------------------------------------------------
(***************************************************************************)
(* The invariant, and the order of the events, for every step.             *)
(***************************************************************************)
LEMMA InputGood ==
  ASSUME Good(conn, wire, closedEarly), NEW m \in wire, NEW u, uip_input(m.to, m, u)
  PROVE  Done(m.to)
<1> DEFINE h == m.to
<1>0. h = m.to  OBVIOUS
<1>00. h \in Host /\ uip_input(h, m, u)  BY WireOK, SegmentFields
<1> HIDE DEF h
<1> SUFFICES Done(h)  BY <1>0
<1>1. CASE RecvReset(h, m, u)  BY <1>00, <1>1, RecvResetGood
<1>2. CASE RecvListen(h, m, u)  BY <1>0, <1>2, RecvListenGood
<1>3. CASE RecvRst(h, m, u)  BY <1>00, <1>3, RecvRstGood
<1>4. CASE RecvOutOfOrder(h, m, u)  BY <1>00, <1>4, RecvOutOfOrderGood
<1>5. CASE RecvSynRcvd(h, m, u)  BY <1>0, <1>5, RecvSynRcvdGood
<1>6. CASE RecvSynSent(h, m, u)  BY <1>0, <1>6, RecvSynSentGood
<1>7. CASE RecvFin(h, m, u)  BY <1>0, <1>7, RecvFinGood
<1>8. CASE RecvData(h, m, u)  BY <1>0, <1>8, RecvDataGood
<1>9. CASE RecvFinWait1(h, m, u)  BY <1>0, <1>9, RecvFinWait1Good
<1>10. CASE RecvFinWait2(h, m, u)  BY <1>0, <1>10, RecvFinWait2Good
<1>11. CASE RecvTimeWait(h, m, u)  BY <1>00, <1>11, RecvTimeWaitGood
<1>12. CASE RecvClosing(h, m, u)  BY <1>00, <1>12, RecvClosingGood
<1>13. CASE RecvLastAck(h, m, u)  BY <1>00, <1>13, RecvLastAckGood
<1> QED
  BY <1>00, <1>1, <1>2, <1>3, <1>4, <1>5, <1>6, <1>7, <1>8, <1>9, <1>10, <1>11, <1>12, <1>13
     DEF uip_input

(* Which host it is, and that only it moves. *)
LEMMA StepDone ==
  ASSUME TcpInv, TcpNext
  PROVE  dups' \in 0..DupMax /\ \E h \in Host : Done(h) /\ Still(h)
<1>1. Good(conn, wire, closedEarly) /\ dups \in 0..DupMax /\ conn \in [Host -> Conn]
  BY DEF TcpInv, Good
<1>2. ASSUME NEW h \in Host, Periodic(h) PROVE dups' \in 0..DupMax /\ Done(h) /\ Still(h)
  BY <1>1, <1>2, WaitsGood, TimesOutGood, RexmitGood, TimerStill DEF Periodic
<1>3. ASSUME uip_connect, UNCHANGED dups PROVE dups' \in 0..DupMax /\ Done("client") /\ Still("client")
  <2>1. Becomes("client", Fresh("SYN_SENT", 0, 0, 1), {}, {})  BY <1>3 DEF uip_connect
  <2> QED  BY <2>1, <1>1, <1>3, ConnectGood, BecomesStill
<1>4. ASSUME NEW h \in Host, Poll(h), UNCHANGED dups PROVE dups' \in 0..DupMax /\ Done(h) /\ Still(h)
  <2>1. appsend(h, conn[h], {}, FALSE)  BY <1>4 DEF Poll
  <2> QED  BY <2>1, <1>1, <1>4, PollGood, AppsendStill
<1>5. ASSUME NEW m \in wire, NEW u, uip_input(m.to, m, u)
      PROVE  m.to \in Host /\ Done(m.to) /\ Still(m.to)
  <2>1. m.to \in Host  BY <1>1, WireOK, SegmentFields
  <2> QED  BY <2>1, <1>1, <1>5, InputGood, InputStill
<1>6. dups < DupMax => dups + 1 \in 0..DupMax  BY <1>1, Consts
<1>7. "client" \in Host  BY HostPeer
<1>8. CASE \E h \in Host : Periodic(h)  BY <1>2, <1>8
<1>9. CASE (uip_connect \/ \E h \in Host : Poll(h)) /\ UNCHANGED dups  BY <1>3, <1>4, <1>7, <1>9
<1>10. CASE \E m \in wire :
              \/ uip_input(m.to, m, {m}) /\ UNCHANGED dups
              \/ dups < DupMax /\ dups' = dups + 1 /\ uip_input(m.to, m, {})
  BY <1>1, <1>5, <1>6, <1>10
<1> QED  BY <1>8, <1>9, <1>10 DEF TcpNext

LEMMA TcpStep == TcpInv /\ [TcpNext]_tcpVars => TcpInv'
<1> SUFFICES ASSUME TcpInv, [TcpNext]_tcpVars PROVE TcpInv'
  OBVIOUS
<1>1. CASE TcpNext  BY <1>1, StepDone DEF Done, TcpInv
<1>2. CASE UNCHANGED tcpVars  BY <1>2 DEF tcpVars, TcpInv
<1> QED  BY <1>1, <1>2

LEMMA TcpOrder ==
  ASSUME TcpInv, TcpNext, NEW h \in Host, conn'[h].inc = conn[h].inc
  PROVE  Orderly(conn[h], conn'[h])
<1>1. PICK g \in Host : Done(g) /\ Still(g)  BY StepDone
<1>2. CASE h = g  BY <1>1, <1>2 DEF Done
<1>3. CASE h # g
  <2>1. conn'[h] = conn[h]  BY <1>1, <1>3 DEF Still
  <2> QED  BY <2>1 DEF Orderly
<1> QED  BY <1>2, <1>3

LEMMA InitFresh ==
  ASSUME NEW c, c = [Fresh("CLOSED", 0, 0, 0) EXCEPT !.len = 0]
  PROVE  /\ c \in Conn /\ c.st = "CLOSED" /\ c.snd = 0 /\ c.rcv = 0 /\ c.len = 0 /\ c.stopped = FALSE
         /\ c.sent = <<>> /\ c.got = <<>> /\ c.heard = "nothing" /\ c.left = FALSE /\ c.inc = 0
<1> DEFINE f == Fresh("CLOSED", 0, 0, 0)
<1>1. /\ 0 \in 0..SendMax /\ 1 \in 0..SendMax /\ 0 \in 0..RtxMax /\ 0 \in 0..IncMax
      /\ <<>> \in Seq(Nat) /\ 0 \in Nat /\ FALSE \in BOOLEAN
  BY Consts
<1>2. /\ f \in Conn /\ f.st = "CLOSED" /\ f.snd = 0 /\ f.rcv = 0 /\ f.stopped = FALSE
      /\ f.sent = <<>> /\ f.got = <<>> /\ f.heard = "nothing" /\ f.left = FALSE /\ f.inc = 0
  BY <1>1, Zenon DEF Fresh, Conn
<1>3. c = [f EXCEPT !.len = 0]  OBVIOUS
<1> HIDE DEF f
<1> QED  BY <1>1, <1>2, <1>3, Zenon DEF Conn

LEMMA TcpStart == TcpInit => TcpInv
<1> SUFFICES ASSUME TcpInit PROVE TcpInv
  OBVIOUS
<1> DEFINE c == [Fresh("CLOSED", 0, 0, 0) EXCEPT !.len = 0]
<1>1. c = [Fresh("CLOSED", 0, 0, 0) EXCEPT !.len = 0]  OBVIOUS
<1>2. conn = [h \in Host |-> c] /\ wire = {} /\ dups = 0 /\ closedEarly = FALSE  BY DEF TcpInit
<1> HIDE DEF c
<1>3. /\ c \in Conn /\ c.st = "CLOSED" /\ c.snd = 0 /\ c.rcv = 0 /\ c.len = 0 /\ c.stopped = FALSE
      /\ c.sent = <<>> /\ c.got = <<>> /\ c.heard = "nothing" /\ c.left = FALSE /\ c.inc = 0
  BY <1>1, InitFresh
<1>4. conn \in [Host -> Conn] /\ \A h \in Host : conn[h] = c  BY <1>2, <1>3
<1>5. conn["client"] = c /\ conn["server"] = c  BY <1>4, HostPeer
<1>6. Numbered(c) /\ Len(c.sent) = 0  BY <1>3 DEF Numbered
<1>7. Told(c)  BY <1>3 DEF Told, SynSent
<1>8. ASSUME NEW h \in Host PROVE OwnOK(h, c, FALSE)
  <2>1. Len(c.sent) <= BytesMax[h]  BY <1>6, Consts
  <2>2. Sides(h, c)  BY <1>3 DEF Sides
  <2>3. Counts(c, Base(h, c.inc))  BY <1>3 DEF Counts, SynSent, FinOut, FinDone
  <2> QED  BY <2>1, <2>2, <2>3, <1>3, <1>6, <1>7 DEF OwnOK, FinOut
<1>9. ~Joined(conn, 0)
  <2>1. IssGap * 0 = 0  BY Consts
  <2> QED  BY <2>1, <1>3, <1>5 DEF Joined
<1>10. Contact(conn, FALSE)
  <2>1. c.st \notin Alive /\ c.heard \notin {"open", "closed"} /\ ~(c.rcv > 1) /\ ~(c.inc > 0)
    BY <1>3 DEF Alive, FinOut, FinDone
  <2> QED  BY <2>1, <1>3, <1>5, <1>9 DEF Contact
<1>11. Good(conn, wire, closedEarly)  BY <1>2, <1>4, <1>8, <1>10 DEF Good
<1>12. 0 \in 0..DupMax  BY Consts
<1> QED  BY <1>2, <1>11, <1>12 DEF TcpInv

-------------------------------------------------------------------------------
(***************************************************************************)
(* What the invariant says of the two applications.                        *)
(***************************************************************************)
LEMMA PrefixIs ==
  ASSUME NEW s \in Seq(Nat), NEW t \in Seq(Nat), Len(s) <= Len(t),
         \A i \in 1..Len(s) : s[i] = i, \A i \in 1..Len(t) : t[i] = i
  PROVE  IsPrefix(s, t) /\ (Len(s) = Len(t) => s = t)
<1> DEFINE n == Len(s)
           a == SubSeq(s, 1, n)
           b == SubSeq(t, 1, n)
<1>1. n \in Nat /\ Len(t) \in Nat /\ n <= Len(t)  OBVIOUS
<1>2. a \in Seq(Nat) /\ Len(a) = n /\ \A i \in 1..n : a[i] = s[i]  BY <1>1
<1>3. b \in Seq(Nat) /\ Len(b) = n /\ \A i \in 1..n : b[i] = t[i]  BY <1>1
<1>4. \A i \in 1..n : s[i] = t[i]  BY <1>1
<1> HIDE DEF a, b
<1>5. a = b  BY <1>2, <1>3, <1>4, SeqEqual
<1>6. Len(s) = Len(t) => s = t  BY <1>4, SeqEqual
<1> QED  BY <1>1, <1>5, <1>6 DEF IsPrefix, a, b

LEMMA TcpTypes == TcpInv => TcpTypeOK
<1> SUFFICES ASSUME TcpInv PROVE TcpTypeOK
  OBVIOUS
<1>1. Good(conn, wire, closedEarly)  BY DEF TcpInv
<1>2. ASSUME NEW h \in Host
      PROVE  /\ conn[h].st \in SynSent \cup FinOut => conn[h].len = 1
             /\ conn[h].st \in FinDone => conn[h].len = 0
             /\ conn[h].stopped => conn[h].st = "ESTABLISHED"
  <2> DEFINE c == conn[h]
  <2>1. OwnOK(h, c, closedEarly)  BY <1>1, GoodHost
  <2> HIDE DEF c
  <2>2. Counts(c, Base(h, c.inc)) /\ Told(c)  BY <2>1, OwnFields
  <2> QED  BY <2>2 DEF Counts, Told, c
<1>3. conn \in [Host -> Conn] /\ closedEarly \in BOOLEAN  BY <1>1 DEF Good
<1> QED  BY <1>2, <1>3 DEF TcpInv, TcpTypeOK, SynSent, FinOut, FinDone

(* What each end has been given of the other. *)
LEMMA GivenBy ==
  ASSUME TcpInv, Paired, NEW h \in Host, NEW r, r = conn[h], NEW s, s = conn[Peer(h)]
  PROVE  /\ r.got \in Seq(Nat) /\ s.sent \in Seq(Nat) /\ Len(r.got) <= Len(s.sent)
         /\ \A i \in 1..Len(r.got) : r.got[i] = i
         /\ \A i \in 1..Len(s.sent) : s.sent[i] = i
         /\ ~closedEarly /\ r.heard = "closed" /\ ~r.left => Len(r.got) = Len(s.sent)
<1>1. Good(conn, wire, closedEarly)  BY DEF TcpInv
<1>2. /\ conn \in [Host -> Conn] /\ Contact(conn, closedEarly) /\ r \in Conn /\ Sides(h, r)
  BY <1>1, GoodHost
<1>3. OwnOK(Peer(h), s, closedEarly) /\ Peer(h) \in Host  BY <1>1, HostPeer, GoodHost
<1>4. /\ r.got \in Seq(Nat) /\ s.sent \in Seq(Nat) /\ Len(s.sent) \in Nat /\ r.inc \in Nat
      /\ \A i \in 1..Len(s.sent) : s.sent[i] = i
  BY <1>2, <1>3, OwnFields, ConnFields DEF Numbered
<1>5. ASSUME NEW b, Follows(r, s, b, closedEarly)
      PROVE  /\ Len(r.got) <= Len(s.sent) /\ \A i \in 1..Len(r.got) : r.got[i] = i
             /\ ~closedEarly /\ r.heard = "closed" /\ ~r.left => Len(r.got) = Len(s.sent)
  BY <1>5 DEF Follows
<1>6. CASE h = "client"
  <2>1. Joined(conn, conn["server"].inc)  BY <1>2, PairedIsJoined DEF Paired
  <2>2. Follows(r, s, IssGap * s.inc, closedEarly)  BY <2>1, <1>2, <1>6, HostPeer DEF Contact
  <2> QED  BY <2>2, <1>4, <1>5
<1>7. CASE h = "server" /\ r.inc > 0
  <2>1. Follows(r, s, 0, closedEarly)  BY <1>2, <1>7, HostPeer DEF Contact
  <2> QED  BY <2>1, <1>4, <1>5
<1>8. CASE h = "server" /\ r.inc = 0
  <2>1. r.got = <<>> /\ r.heard = "nothing"  BY <1>2, <1>8 DEF Sides
  <2>2. Len(r.got) = 0  BY <2>1
  <2> QED  BY <2>1, <2>2, <1>4
<1> QED  BY <1>4, <1>6, <1>7, <1>8 DEF Host

LEMMA TcpData == TcpInv => DataIntact
<1> SUFFICES ASSUME TcpInv PROVE DataIntact
  OBVIOUS
<1>1. ASSUME Paired, NEW h \in Host PROVE IsPrefix(conn[h].got, conn[Peer(h)].sent)
  <2> DEFINE r == conn[h]
             s == conn[Peer(h)]
  <2>1. r = conn[h] /\ s = conn[Peer(h)]  OBVIOUS
  <2> HIDE DEF r, s
  <2>2. IsPrefix(r.got, s.sent)  BY <2>1, <1>1, GivenBy, PrefixIs
  <2> QED  BY <2>1, <2>2
<1>2. ASSUME Paired, ~closedEarly, NEW h \in Host PROVE GotAll(h)
  <2> DEFINE r == conn[h]
             s == conn[Peer(h)]
  <2>1. r = conn[h] /\ s = conn[Peer(h)]  OBVIOUS
  <2> HIDE DEF r, s
  <2>2. /\ r.got \in Seq(Nat) /\ s.sent \in Seq(Nat) /\ Len(r.got) <= Len(s.sent)
        /\ \A i \in 1..Len(r.got) : r.got[i] = i
        /\ \A i \in 1..Len(s.sent) : s.sent[i] = i
        /\ r.heard = "closed" /\ ~r.left => Len(r.got) = Len(s.sent)
    BY <2>1, <1>2, GivenBy
  <2>3. Len(r.got) = Len(s.sent) => r.got = s.sent  BY <2>2, PrefixIs
  <2> QED  BY <2>1, <2>2, <2>3 DEF GotAll
<1> QED  BY <1>1, <1>2 DEF DataIntact, BytesInOrder, AllBeforeClose

LEMMA TcpEnds == TcpInv => EndsAgree
<1> SUFFICES ASSUME TcpInv PROVE EndsAgree
  OBVIOUS
<1>1. Good(conn, wire, closedEarly)  BY DEF TcpInv
<1>2. conn \in [Host -> Conn] /\ Contact(conn, closedEarly)  BY <1>1 DEF Good
<1>3. NoGhost
  <2> SUFFICES ASSUME conn["server"].heard \in {"open", "closed"} PROVE Paired
    BY DEF NoGhost
  <2> DEFINE k == conn["server"].inc
             n == conn["client"].rcv
  <2>1. k \in Nat /\ n \in Nat  BY <1>2, HostPeer, ConnFields
  <2>2. Joined(conn, k)  BY <1>2 DEF Contact
  <2>3. IssGap * k < n /\ IssGap * k \in Nat  BY <2>1, <2>2, HostPeer, BaseType DEF Joined
  <2>4. n > IssGap * k
    <3> HIDE DEF k, n
    <3> QED  BY <2>1, <2>3
  <2> QED  BY <2>4 DEF Paired
<1>4. FinIsHeard
  <2> SUFFICES ASSUME Paired, ~closedEarly, NEW h \in Host, conn[h].st = "FIN_WAIT_2"
               PROVE  conn[Peer(h)].heard \in {"closed", "broken"}
    BY DEF FinIsHeard
  <2>1. Joined(conn, conn["server"].inc)  BY <1>2, PairedIsJoined DEF Paired
  <2> QED  BY <2>1, <1>2 DEF Contact
<1>5. EndIsHeard
  <2>1. \A h \in Host : Told(conn[h])  BY <1>1, GoodHost
  <2> QED  BY <2>1 DEF EndIsHeard, Told
<1> QED  BY <1>3, <1>4, <1>5 DEF EndsAgree

-------------------------------------------------------------------------------
(***************************************************************************)
(* What holds of every run.                                                *)
(***************************************************************************)
LEMMA TcpAlways == TcpSpec => []TcpInv
<1>1. TcpInit => TcpInv  BY TcpStart
<1>2. TcpInv /\ [TcpNext]_tcpVars => TcpInv'  BY TcpStep
<1> QED  BY <1>1, <1>2, PTL DEF TcpSpec

(* Every variable keeps its type, and the lengths of uip_conn.len fit the  *)
(* state of the connection, whatever handler ran.                          *)
THEOREM TcpTypeCorrect == TcpSpec => []TcpTypeOK
BY TcpAlways, TcpTypes, PTL

(* uip_process gives the application the bytes the other one handed to     *)
(* uip_send, from the first on and in order, through loss, repetition,     *)
(* reordering and uip_stop; and tells it of the close after all of them,   *)
(* unless uip_close was called with bytes outstanding.                     *)
THEOREM DataIntactHolds == TcpSpec => []DataIntact
BY TcpAlways, TcpData, PTL

(* The server's application hears only of connections the client is in, a  *)
(* FIN that is acknowledged has been heard, and no connection goes without *)
(* an event: what the handlers of uip_process promise the applications.    *)
THEOREM EndsAgreeHolds == TcpSpec => []EndsAgree
BY TcpAlways, TcpEnds, PTL

(* The events that uip_process gives an application come in order.         *)
THEOREM EventsInOrderHolds == TcpSpec => EventsInOrder
<1> DEFINE A == \A h \in Host : conn'[h].inc = conn[h].inc => Orderly(conn[h], conn'[h])
<1>1. TcpInv /\ [TcpNext]_tcpVars => [A]_tcpVars  BY TcpOrder
<1>2. [A]_tcpVars <=>
        [\A h \in Host : conn'[h].inc = conn[h].inc =>
           /\ conn'[h].got # conn[h].got => conn'[h].heard = "open" /\ ~conn[h].left
           /\ conn[h].heard = "open" => conn'[h].heard # "nothing"
           /\ conn[h].heard = "closed" => conn'[h].heard \in {"closed", "broken"}
           /\ conn[h].heard = "broken" => conn'[h].heard = "broken"]_tcpVars
  BY DEF Orderly
<1> HIDE DEF A
<1> QED  BY <1>1, <1>2, TcpAlways, PTL DEF TcpSpec, EventsInOrder
===============================================================================
