------------------------------- MODULE SerialLine -------------------------------
(***************************************************************************)
(* One direction of the serial line: packets framed as rs232dev_send       *)
(* frames them, and read as rs232dev_poll reads them (src/rs232dev.c).     *)
(* The far end (external) frames the same way, so that the line stands for *)
(* either direction.                                                       *)
(*                                                                         *)
(* The line and the buffer of the RS232 driver (external) keep the order   *)
(* of the bytes; a byte may be lost or damaged.  Every byte carries the    *)
(* number of its packet, which the code does not see.                      *)
(***************************************************************************)
EXTENDS Naturals, SequencesExt

CONSTANTS
  Plain,       \* bytes without a meaning for SLIP
  Packets,     \* what may be sent
  MAX_SIZE,    \* bytes of slip_buf
  MaxPackets,  \* bound: packets sent
  MaxFaults,   \* bound: bytes lost or damaged
  MaxOpens     \* bound: sessions opened after the first

Special == {"END", "ESC", "ESC_END", "ESC_ESC"}

Byte == Special \cup Plain

ASSUME LineAssumption ==
  /\ Packets \subseteq Seq(Byte) \ {<<>>}
  /\ MAX_SIZE \in Nat \ {0}
  /\ MaxPackets \in Nat /\ MaxFaults \in Nat /\ MaxOpens \in Nat

VARIABLES
  sent,       \* the packets passed to rs232dev_send, the last one being sent
  sending,    \* rs232dev_send is running
  left,       \* what it has not yet put on the line
  wire,       \* bytes on their way, the next one first
  slip_buf,   \* the first len bytes of it
  lastc,
  returned,   \* history: the packets rs232dev_poll returned
  hurt,       \* history: the numbers of packets that lost a byte or had one damaged
  faults, opens

out  == <<sent, sending, left>>
in   == <<slip_buf, lastc, returned>>
vars == <<out, wire, in, hurt, faults, opens>>

Init ==
  /\ sent = <<>> /\ sending = FALSE /\ left = <<>> /\ wire = <<>> /\ slip_buf = <<>> /\ lastc = "none"
  /\ returned = <<>> /\ hurt = {} /\ faults = 0 /\ opens = 0

-------------------------------------------------------------------------------
Of(bytes, k) == [i \in DOMAIN bytes |-> [byte |-> bytes[i], of |-> k]]

Escaped(b) ==
  CASE b = "END" -> <<"ESC", "ESC_END">>
    [] b = "ESC" -> <<"ESC", "ESC_ESC">>
    [] OTHER     -> <<b>>

Put(bytes, k) == wire' = wire \o Of(bytes, k)

SendUnchanged == UNCHANGED <<in, hurt, faults, opens>>

(* rs232dev_send, one action for each pass of its loop, as the other end   *)
(* reads what is already on the line.                                      *)
SendStart ==
  /\ ~sending /\ Len(sent) < MaxPackets
  /\ \E p \in Packets : sent' = Append(sent, p) /\ left' = p
  /\ sending' = TRUE
  /\ Put(<<"END">>, Len(sent) + 1)
  /\ SendUnchanged

SendByte ==
  /\ sending /\ left # <<>>
  /\ left' = Tail(left)
  /\ Put(Escaped(Head(left)), Len(sent))
  /\ UNCHANGED <<sent, sending>> /\ SendUnchanged

SendEnd ==
  /\ sending /\ left = <<>>
  /\ sending' = FALSE
  /\ Put(<<"END">>, Len(sent))
  /\ UNCHANGED <<sent, left>> /\ SendUnchanged

-------------------------------------------------------------------------------
(***************************************************************************)
(* rs232dev_poll, byte by byte: between any two bytes it may find none and *)
(* return 0, and everything it keeps is static.                            *)
(***************************************************************************)
PollUnchanged == UNCHANGED <<out, hurt, faults, opens>>

PollEsc ==
  /\ wire # <<>> /\ Head(wire).byte = "ESC"
  /\ wire' = Tail(wire)
  /\ lastc' = "ESC"
  /\ UNCHANGED <<slip_buf, returned>> /\ PollUnchanged

(* Mutant: the END does not count as the last character. *)
PollEnd_KeepsLastc ==
  /\ wire # <<>> /\ Head(wire).byte = "END"
  /\ wire' = Tail(wire)
  /\ returned' = IF slip_buf = <<>> THEN returned ELSE Append(returned, slip_buf)
  /\ slip_buf' = <<>>
  /\ UNCHANGED lastc /\ PollUnchanged

(* An empty packet is returned like no packet. *)
PollEnd ==
  /\ wire # <<>> /\ Head(wire).byte = "END"
  /\ wire' = Tail(wire)
  /\ lastc' = "END"
  /\ returned' = IF slip_buf = <<>> THEN returned ELSE Append(returned, slip_buf)
  /\ slip_buf' = <<>>
  /\ PollUnchanged

Unescaped(b) ==
  CASE lastc = "ESC" /\ b = "ESC_END" -> "END"
    [] lastc = "ESC" /\ b = "ESC_ESC" -> "ESC"
    [] OTHER -> b

(* Mutants: the buffer starts over one byte too early, or too late. *)
Stored_Early(buf, b) ==
  IF Len(buf) + 1 < MAX_SIZE THEN {Append(buf, b)} ELSE {<<>>}

Stored_Late(buf, b) ==
  IF Len(buf) <= MAX_SIZE THEN {Append(buf, b)} ELSE {<<>>}

(* slip_buf[len] = c; ++len; and from the start after MAX_SIZE + 1 bytes.  *)
(* That last byte does not go into slip_buf but behind it, where len may   *)
(* be: any length can come of that.                                        *)
Stored(buf, b) ==
  IF Len(buf) < MAX_SIZE THEN {Append(buf, b)}
                         ELSE {SubSeq(buf, 1, l) : l \in 0..MAX_SIZE}

PollByte ==
  /\ wire # <<>> /\ Head(wire).byte \notin {"END", "ESC"}
  /\ wire' = Tail(wire)
  /\ lastc' = Head(wire).byte
  /\ slip_buf' \in Stored(slip_buf, [Head(wire) EXCEPT !.byte = Unescaped(@)])
  /\ UNCHANGED returned /\ PollUnchanged

(* The next session: rs232dev_close and rs232dev_init.  What the driver    *)
(* has not delivered may be gone; len is reset, lastc is not.              *)
rs232dev_init ==
  /\ opens < MaxOpens /\ opens' = opens + 1
  /\ slip_buf' = <<>>
  /\ \/ /\ UNCHANGED wire
        /\ hurt' = hurt \cup {slip_buf[i].of : i \in DOMAIN slip_buf}
     \/ /\ wire' = <<>>
        /\ hurt' = hurt \cup {slip_buf[i].of : i \in DOMAIN slip_buf}
                        \cup {wire[i].of : i \in DOMAIN wire}
  /\ UNCHANGED <<out, lastc, returned, faults>>

-------------------------------------------------------------------------------
(* The line (external). *)
Fault(i) == faults < MaxFaults /\ faults' = faults + 1 /\ hurt' = hurt \cup {wire[i].of}

Lose ==
  /\ \E i \in DOMAIN wire : Fault(i) /\ wire' = RemoveAt(wire, i)
  /\ UNCHANGED <<out, in, opens>>

Damage ==
  /\ \E i \in DOMAIN wire, b \in Byte : Fault(i) /\ wire' = [wire EXCEPT ![i].byte = b]
  /\ UNCHANGED <<out, in, opens>>

-------------------------------------------------------------------------------
rs232dev_send == SendStart \/ SendByte \/ SendEnd

rs232dev_poll == PollEsc \/ PollEnd \/ PollByte

Next == rs232dev_send \/ rs232dev_poll \/ rs232dev_init \/ Lose \/ Damage

Spec == Init /\ [][Next]_vars

(* The main loop polls again and again, and rs232dev_send comes to its     *)
(* end.  Nobody has to call it.                                            *)
FairSpec == Spec /\ WF_vars(rs232dev_poll) /\ WF_vars(SendByte \/ SendEnd)

-------------------------------------------------------------------------------
(***************************************************************************)
(* Properties.                                                             *)
(***************************************************************************)
Carried == [byte : Byte, of : 1..MaxPackets]

(* The type of every variable; no packet returned is longer than slip_buf. *)
TypeOK ==
  /\ sent \in Seq(Packets) /\ Len(sent) <= MaxPackets
  /\ sending \in BOOLEAN /\ left \in Seq(Byte)
  /\ wire \in Seq(Carried)
  /\ slip_buf \in Seq(Carried) /\ Len(slip_buf) <= MAX_SIZE
  /\ lastc \in Byte \cup {"none"}
  /\ returned \in Seq(Seq(Carried))
  /\ \A j \in DOMAIN returned : Len(returned[j]) \in 1..MAX_SIZE
  /\ hurt \subseteq 1..MaxPackets
  /\ faults \in 0..MaxFaults /\ opens \in 0..MaxOpens

(* A packet that fits, all bytes of which arrive. *)
Sound(k) == k \notin hurt /\ Len(sent[k]) <= MAX_SIZE

HasPartOf(r, k) == \E i \in DOMAIN r : r[i].of = k

UnderWay(k) == (sending /\ k = Len(sent)) \/ \E i \in DOMAIN wire : wire[i].of = k

(* Whatever was lost, damaged, too long, or left over from the session     *)
(* before: a packet that arrives in full is returned as it was sent, alone *)
(* and once.  Nothing of the packets before it sticks to it, the state of  *)
(* an escape sequence included.                                            *)
SoundIntact ==
  \A k \in DOMAIN sent : Sound(k) =>
    LET parts == {j \in DOMAIN returned : HasPartOf(returned[j], k)}
    IN  IF UnderWay(k) THEN parts = {}
        ELSE \E j \in DOMAIN returned : parts = {j} /\ returned[j] = Of(sent[k], k)

Waiting == {k \in DOMAIN sent : Sound(k) /\ \A j \in DOMAIN returned : returned[j] # Of(sent[k], k)}

(* A packet that fits is returned in the end, unless a byte of it is lost: *)
(* whenever the other end stops sending, a time comes with none waiting.   *)
SoundArrive == []<>(Waiting = {})
===============================================================================
