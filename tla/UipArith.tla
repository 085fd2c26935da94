------------------------------- MODULE UipArith -------------------------------
(***************************************************************************)
(* The arithmetic of uIP on bytes: uip_add32 and chksum of uip/uip/uip.c,  *)
(* the checksum that is corrected and not computed again by the answer to  *)
(* a ping and by uip_fw_forward, and uip_split_output of uip-split.c.      *)
(* A byte has Byte values (256); a word is two bytes, the high one first   *)
(* on the wire, and the low one first in the CPU if LittleEndian.          *)
(***************************************************************************)
EXTENDS Naturals, Sequences

CONSTANTS
  Byte,
  LittleEndian,
  FullSegment,        \* bytes of data in a maximum sized segment
  IcmpEcho     \* ICMP_ECHO; an ICMP_ECHO_REPLY is 0

ASSUME ArithAssumption ==
  /\ {Byte, FullSegment} \subseteq Nat \ {0} /\ Byte > 1 /\ IcmpEcho \in 1..Byte - 1
  /\ LittleEndian \in BOOLEAN /\ FullSegment < Byte * Byte

VARIABLES
  sndseq,      \* four bytes
  total,       \* history: what was added to it, since it was 0
  out,         \* the segments last sent: first byte and length
  packet       \* a packet on its way: words of header, and their checksum

arithVars == <<sndseq, total, out, packet>>

ByteValues == 0..Byte - 1
Word  == Byte * Byte
Hi(w) == w \div Byte
Lo(w) == w % Byte

Swapped(w) == Lo(w) * Byte + Hi(w)
HTONS(w) == IF LittleEndian THEN Swapped(w) ELSE w

-------------------------------------------------------------------------------
(* The sum of four bytes and a word: the high byte of the word is added    *)
(* first, then the low one, each with its carry.                           *)
uip_add32(op32, op16) ==
  LET a1 == <<op32[1], op32[2], (op32[3] + Hi(op16)) % Byte, (op32[4] + Lo(op16)) % Byte>>
      Inc2(a) == IF a[2] + 1 = Byte THEN <<(a[1] + 1) % Byte, 0, a[3], a[4]>>
                                    ELSE <<a[1], a[2] + 1, a[3], a[4]>>
      Inc3(a) == IF a[3] + 1 = Byte THEN Inc2(<<a[1], a[2], 0, a[4]>>)
                                    ELSE <<a[1], a[2], a[3] + 1, a[4]>>
      a2 == IF a1[3] < Hi(op16) THEN Inc2(a1) ELSE a1
  IN  IF a1[4] < Lo(op16) THEN Inc3(a2) ELSE a2

Value(op32) == ((op32[1] * Byte + op32[2]) * Byte + op32[3]) * Byte + op32[4]

(* n bytes are sent; a maximum sized segment is split in two, of which an  *)
(* odd byte goes to the second.                                            *)
uip_split_output(n) ==
  LET len1 == n \div 2
  IN  IF n = FullSegment THEN <<[seq |-> sndseq, len |-> len1],
                         [seq |-> uip_add32(sndseq, len1), len |-> n - len1]>>
                  ELSE <<[seq |-> sndseq, len |-> n]>>

SendBytes(n) ==
  /\ out' = uip_split_output(n)
  /\ sndseq' = uip_add32(sndseq, n)
  /\ total' = (total + n) % (Word * Word)
  /\ UNCHANGED packet

-------------------------------------------------------------------------------
(* The next word is added to a sum, and the carry, too. *)
WithCarry(sum, w) == LET t == (sum + w) % Word IN IF t < w THEN t + 1 ELSE t

(* The sum of all words of a packet, of which it has three.                *)
chksum(w1, w2, w3) == WithCarry(WithCarry(WithCarry(0, w1), w2), w3)

(* A checksum field holds the complement of the sum of the rest, and a     *)
(* packet is accepted if the sum of everything is all ones; uIP takes a    *)
(* sum of 0 for it, too.                                                   *)
Complement(w) == Word - 1 - w
uip_ipchksum(p) == LET sum == chksum(Byte * p.first + p.second, p.rest, p.sum)
                   IN  IF sum = 0 THEN Word - 1 ELSE sum

(* Mutant: the carry is dropped. *)
Corrected_NoCarry(sum, word) == HTONS((HTONS(sum) + HTONS(word)) % Word)

(* The checksum after word has been taken from a word it covers. *)
Corrected(sum, word) ==
  LET native  == HTONS(sum)
      native2 == IF native >= HTONS(Word - 1 - word) THEN native + HTONS(word) + 1
                                                      ELSE native + HTONS(word)
  IN  HTONS(native2 % Word)

(* A router takes 1 from the time to live, the first byte. *)
uip_fw_ttl ==
  /\ packet.kind = "ip" /\ packet.first > 1
  /\ packet' = [packet EXCEPT !.first = @ - 1, !.sum = Corrected(@, Byte)]
  /\ UNCHANGED <<sndseq, total, out>>

(* A ping is answered: the type, the first byte, becomes 0. *)
icmp_input ==
  /\ packet.kind = "icmp" /\ packet.first = IcmpEcho
  /\ packet' = [packet EXCEPT !.first = 0, !.sum = Corrected(@, Byte * IcmpEcho)]
  /\ UNCHANGED <<sndseq, total, out>>

Packets ==
  {[kind |-> kind, first |-> first, second |-> second, rest |-> rest,
    sum |-> Complement(chksum(Byte * first + second, rest, 0))]
     : kind \in {"ip", "icmp"}, first \in ByteValues, second \in ByteValues, rest \in 0..Word - 1}

ArithInit ==
  /\ sndseq = <<0, 0, 0, 0>> /\ total = 0 /\ out = <<>>
  /\ packet \in Packets

ArithNext == uip_fw_ttl \/ icmp_input \/ \E n \in 1..FullSegment : SendBytes(n)

ArithSpec == ArithInit /\ [][ArithNext]_arithVars

-------------------------------------------------------------------------------
(* Across every carry and through 0, uip_add32 adds modulo 2^32.           *)
AddsModulo == Value(sndseq) = total

(* A segment that is split is the same bytes in the same places.           *)
SplitFits ==
  [][out' # out =>
       /\ out'[1].seq = sndseq
       /\ \A i \in 2..Len(out') :
            out'[i].seq = uip_add32(out'[i - 1].seq, out'[i - 1].len)
       /\ Value(sndseq') = (Value(out'[Len(out')].seq) + out'[Len(out')].len) % (Word * Word)]_arithVars

(* A packet that was accepted still is after any number of routers and     *)
(* after the answer, whatever the checksum was; and by hosts that do not   *)
(* take a sum of 0 as well, unless all words of it are 0.                  *)
StaysValid ==
  /\ uip_ipchksum(packet) = Word - 1
  /\ {packet.first, packet.second, packet.rest} # {0} =>
       chksum(Byte * packet.first + packet.second, packet.rest, packet.sum) # 0

(* uIP's arithmetic on bytes: what is added to a sequence number, where    *)
(* the parts of a segment lie, and what a checksum is corrected by.        *)
ArithmeticRight == [](AddsModulo /\ StaysValid) /\ SplitFits
===============================================================================
