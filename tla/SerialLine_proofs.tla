--------------------------- MODULE SerialLine_proofs ---------------------------
(***************************************************************************)
(* SerialLine for every packet, every MAX_SIZE and every number of faults  *)
(* and sessions.  The type invariant: slip_buf never holds more than       *)
(* MAX_SIZE bytes, and rs232dev_poll never returns more.  SoundIntact: a   *)
(* packet that arrives in full is returned as it was sent, alone and once. *)
(* LineAssembly for every OutSize and every way to cut the stream: the     *)
(* lines are the bytes that were sent.                                     *)
(***************************************************************************)
EXTENDS MCSerialLine, DataInduction, SequenceTheorems, TLAPS

(* A byte is put on the line for a packet that has been started. *)
IInv == TypeOK /\ (sending => Len(sent) > 0)

LEMMA OfType ==
  ASSUME NEW bytes \in Seq(Byte), NEW k \in 1..MaxPackets
  PROVE  Of(bytes, k) \in Seq(Carried)
<1>1. DOMAIN bytes = 1..Len(bytes) /\ Len(bytes) \in Nat
  OBVIOUS
<1>2. \A i \in 1..Len(bytes) : bytes[i] \in Byte
  OBVIOUS
<1>3. \A i \in 1..Len(bytes) : [byte |-> bytes[i], of |-> k] \in Carried
  BY <1>2 DEF Carried
<1>4. Of(bytes, k) = [i \in 1..Len(bytes) |-> [byte |-> bytes[i], of |-> k]]
  BY <1>1 DEF Of
<1> QED
  BY <1>1, <1>3, <1>4, IsASeq

LEMMA EscapedType ==
  ASSUME NEW b \in Byte
  PROVE  Escaped(b) \in Seq(Byte)
<1>1. "ESC" \in Byte /\ "ESC_END" \in Byte /\ "ESC_ESC" \in Byte
  BY DEF Byte, Special
<1>2. CASE b = "END"
  BY <1>1, <1>2 DEF Escaped
<1>3. CASE b = "ESC"
  BY <1>1, <1>3 DEF Escaped
<1>4. CASE b # "END" /\ b # "ESC"
  <2>1. Escaped(b) = <<b>>
    BY <1>4 DEF Escaped
  <2> QED
    BY <2>1
<1> QED
  BY <1>2, <1>3, <1>4

LEMMA PutType ==
  ASSUME TypeOK, NEW bytes \in Seq(Byte), NEW k \in 1..MaxPackets, Put(bytes, k)
  PROVE  wire' \in Seq(Carried)
<1>1. Of(bytes, k) \in Seq(Carried)
  BY OfType
<1> QED
  BY <1>1 DEF Put, TypeOK

LEMMA TailType ==
  ASSUME NEW S, NEW s \in Seq(S), s # <<>>
  PROVE  Head(s) \in S /\ Tail(s) \in Seq(S)
OBVIOUS

(* Two parts of a sequence, put together: what RemoveAt leaves. *)
LEMMA RemoveType ==
  ASSUME NEW S, NEW s \in Seq(S), NEW i \in DOMAIN s
  PROVE  RemoveAt(s, i) \in Seq(S)
<1>1. i \in 1..Len(s) /\ Len(s) \in Nat
  OBVIOUS
<1>2. SubSeq(s, 1, i - 1) \in Seq(S)
  BY <1>1, SubSeqProperties
<1>3. SubSeq(s, i + 1, Len(s)) \in Seq(S)
  BY <1>1, SubSeqProperties
<1> QED
  BY <1>2, <1>3, ConcatProperties DEF RemoveAt

LEMMA StoredType ==
  ASSUME TypeOK, NEW b \in Carried, NEW buf \in Stored(slip_buf, b)
  PROVE  buf \in Seq(Carried) /\ Len(buf) <= MAX_SIZE
<1> USE LineAssumption
<1>1. slip_buf \in Seq(Carried) /\ Len(slip_buf) <= MAX_SIZE /\ Len(slip_buf) \in Nat
  BY DEF TypeOK
<1>2. CASE Len(slip_buf) < MAX_SIZE
  <2>1. buf = Append(slip_buf, b)
    BY <1>2 DEF Stored
  <2> QED
    BY <1>1, <1>2, <2>1
<1>3. CASE ~(Len(slip_buf) < MAX_SIZE)
  <2>1. PICK l \in 0..MAX_SIZE : buf = SubSeq(slip_buf, 1, l)
    BY <1>3 DEF Stored
  <2>2. Len(slip_buf) = MAX_SIZE
    BY <1>1, <1>3
  <2>3. \A j \in 1..l : j \in 1..Len(slip_buf)
    BY <2>2
  <2>4. buf \in Seq(Carried) /\ Len(buf) = l
    BY <1>1, <2>1, <2>2, <2>3, SubSeqProperties
  <2> QED
    BY <2>4
<1> QED
  BY <1>2, <1>3

LEMMA UnescapedType ==
  ASSUME NEW b \in Byte
  PROVE  Unescaped(b) \in Byte
<1>1. CASE lastc = "ESC" /\ b = "ESC_END"
  BY <1>1 DEF Unescaped, Byte, Special
<1>2. CASE lastc = "ESC" /\ b = "ESC_ESC"
  BY <1>2 DEF Unescaped, Byte, Special
<1>3. CASE ~(lastc = "ESC" /\ b = "ESC_END") /\ ~(lastc = "ESC" /\ b = "ESC_ESC")
  BY <1>3 DEF Unescaped
<1> QED
  BY <1>1, <1>2, <1>3

-------------------------------------------------------------------------------
LEMMA TypeInit == Init => IInv
<1> SUFFICES ASSUME Init PROVE IInv
  OBVIOUS
<1>1. sent \in Seq(Packets) /\ Len(sent) <= MaxPackets /\ left \in Seq(Byte) /\ wire \in Seq(Carried)
  BY LineAssumption DEF Init
<1>2. slip_buf \in Seq(Carried) /\ Len(slip_buf) <= MAX_SIZE
  BY LineAssumption DEF Init
<1>3. returned \in Seq(Seq(Carried)) /\ \A j \in DOMAIN returned : Len(returned[j]) \in 1..MAX_SIZE
  <2>1. returned = <<>> /\ DOMAIN returned = {}
    BY DEF Init
  <2> QED
    BY <2>1
<1>4. hurt \subseteq 1..MaxPackets /\ faults \in 0..MaxFaults /\ opens \in 0..MaxOpens
  BY LineAssumption DEF Init
<1> QED
  BY <1>1, <1>2, <1>3, <1>4 DEF Init, IInv, TypeOK

LEMMA TypeSendStart == IInv /\ SendStart => IInv'
<1> SUFFICES ASSUME IInv, SendStart PROVE IInv'
  OBVIOUS
<1> USE DEF SendUnchanged, in
<1>1. PICK p \in Packets : sent' = Append(sent, p) /\ left' = p
  BY DEF SendStart
<1>2. sent \in Seq(Packets) /\ Len(sent) \in Nat /\ Len(sent) < MaxPackets /\ MaxPackets \in Nat
  BY LineAssumption DEF SendStart, IInv, TypeOK
<1>3. sent' \in Seq(Packets) /\ Len(sent') = Len(sent) + 1
  BY <1>1, <1>2
<1>4. left' \in Seq(Byte)
  BY <1>1, LineAssumption
<1>5. Len(sent) + 1 \in 1..MaxPackets
  BY <1>2
<1>6. <<"END">> \in Seq(Byte)
  BY DEF Byte, Special
<1>7. wire' \in Seq(Carried)
  BY <1>5, <1>6, PutType DEF SendStart, IInv
<1> QED
  BY <1>2, <1>3, <1>4, <1>7 DEF SendStart, IInv, TypeOK

LEMMA SentNumber ==
  ASSUME IInv, sending
  PROVE  Len(sent) \in 1..MaxPackets
BY LineAssumption DEF IInv, TypeOK

LEMMA TypeSendByte == IInv /\ SendByte => IInv'
<1> SUFFICES ASSUME IInv, SendByte PROVE IInv'
  OBVIOUS
<1> USE DEF SendUnchanged, in
<1>1. Head(left) \in Byte /\ left' \in Seq(Byte)
  BY TailType DEF SendByte, IInv, TypeOK
<1>2. wire' \in Seq(Carried)
  BY <1>1, SentNumber, EscapedType, PutType DEF SendByte, IInv
<1> QED
  BY <1>1, <1>2 DEF SendByte, IInv, TypeOK

LEMMA TypeSendEnd == IInv /\ SendEnd => IInv'
<1> SUFFICES ASSUME IInv, SendEnd PROVE IInv'
  OBVIOUS
<1> USE DEF SendUnchanged, in
<1>1. <<"END">> \in Seq(Byte)
  BY DEF Byte, Special
<1>2. wire' \in Seq(Carried)
  BY <1>1, SentNumber, PutType DEF SendEnd, IInv
<1> QED
  BY <1>2 DEF SendEnd, IInv, TypeOK

LEMMA TypePollEsc == IInv /\ PollEsc => IInv'
<1> SUFFICES ASSUME IInv, PollEsc PROVE IInv'
  OBVIOUS
<1> USE DEF PollUnchanged, out
<1>1. wire' \in Seq(Carried)
  BY TailType DEF PollEsc, IInv, TypeOK
<1>2. lastc' \in Byte
  BY DEF PollEsc, Byte, Special
<1> QED
  BY <1>1, <1>2 DEF PollEsc, IInv, TypeOK

LEMMA TypePollEnd == IInv /\ PollEnd => IInv'
<1> SUFFICES ASSUME IInv, PollEnd PROVE IInv'
  OBVIOUS
<1> USE DEF PollUnchanged, out
<1>1. wire' \in Seq(Carried)
  BY TailType DEF PollEnd, IInv, TypeOK
<1>2. lastc' \in Byte
  BY DEF PollEnd, Byte, Special
<1>3. slip_buf' = <<>> /\ slip_buf' \in Seq(Carried) /\ Len(slip_buf') <= MAX_SIZE
  BY LineAssumption DEF PollEnd
<1>4. returned' \in Seq(Seq(Carried)) /\ \A j \in DOMAIN returned' : Len(returned'[j]) \in 1..MAX_SIZE
  <2>1. slip_buf \in Seq(Carried) /\ Len(slip_buf) <= MAX_SIZE /\ returned \in Seq(Seq(Carried))
    BY DEF IInv, TypeOK
  <2>2. \A j \in 1..Len(returned) : Len(returned[j]) \in 1..MAX_SIZE
    BY <2>1 DEF IInv, TypeOK
  <2>3. CASE slip_buf = <<>>
    BY <2>3 DEF PollEnd, IInv, TypeOK
  <2>4. CASE slip_buf # <<>>
    <3>1. Len(slip_buf) \in 1..MAX_SIZE
      BY <2>1, <2>4, LineAssumption
    <3>2. returned' = Append(returned, slip_buf)
      BY <2>4 DEF PollEnd
    <3>3. returned' \in Seq(Seq(Carried)) /\ Len(returned') = Len(returned) + 1
      BY <2>1, <3>2
    <3>4. \A j \in 1..Len(returned') : Len(returned'[j]) \in 1..MAX_SIZE
      BY <2>1, <2>2, <3>1, <3>2, <3>3
    <3> QED
      BY <3>3, <3>4
  <2> QED
    BY <2>3, <2>4
<1> QED
  BY <1>1, <1>2, <1>3, <1>4 DEF PollEnd, IInv, TypeOK

LEMMA TypePollByte == IInv /\ PollByte => IInv'
<1> SUFFICES ASSUME IInv, PollByte PROVE IInv'
  OBVIOUS
<1> USE DEF PollUnchanged, out
<1> DEFINE h == Head(wire)
           b == [h EXCEPT !.byte = Unescaped(@)]
<1>1. h \in Carried /\ wire' \in Seq(Carried)
  BY TailType DEF PollByte, IInv, TypeOK
<1>2. h.byte \in Byte
  BY <1>1 DEF Carried
<1>3. b \in Carried
  <2>1. Unescaped(h.byte) \in Byte
    BY <1>2, UnescapedType
  <2> QED
    BY <1>1, <2>1 DEF Carried
<1>4. slip_buf' \in Stored(slip_buf, b)
  BY DEF PollByte
<1>5. slip_buf' \in Seq(Carried) /\ Len(slip_buf') <= MAX_SIZE
  BY <1>3, <1>4, StoredType DEF IInv
<1>6. lastc' \in Byte
  BY <1>2 DEF PollByte
<1> QED
  BY <1>1, <1>5, <1>6 DEF PollByte, IInv, TypeOK

(* The packets that lose a byte are numbered like all others. *)
LEMMA NumbersType ==
  ASSUME NEW s \in Seq(Carried)
  PROVE  \A i \in DOMAIN s : s[i].byte \in Byte /\ s[i].of \in 1..MaxPackets
<1> TAKE i \in DOMAIN s
<1>1. s[i] \in Carried
  OBVIOUS
<1> QED
  BY <1>1 DEF Carried

LEMMA TypeOpen == IInv /\ rs232dev_init => IInv'
<1> SUFFICES ASSUME IInv, rs232dev_init PROVE IInv'
  OBVIOUS
<1> USE DEF out
<1>1. wire \in Seq(Carried) /\ slip_buf \in Seq(Carried) /\ hurt \subseteq 1..MaxPackets
  BY DEF IInv, TypeOK
<1>2. {slip_buf[i].of : i \in DOMAIN slip_buf} \subseteq 1..MaxPackets
  BY <1>1, NumbersType
<1>3. {wire[i].of : i \in DOMAIN wire} \subseteq 1..MaxPackets
  BY <1>1, NumbersType
<1>4. hurt' \subseteq 1..MaxPackets
  BY <1>1, <1>2, <1>3 DEF rs232dev_init
<1>5. wire' \in Seq(Carried)
  <2>1. UNCHANGED wire \/ wire' = <<>>
    BY Zenon DEF rs232dev_init
  <2>2. CASE UNCHANGED wire
    BY <1>1, <2>2
  <2>3. CASE wire' = <<>>
    BY <2>3
  <2> QED
    BY <2>1, <2>2, <2>3
<1>6. slip_buf' \in Seq(Carried) /\ Len(slip_buf') <= MAX_SIZE
  BY LineAssumption DEF rs232dev_init
<1>7. opens' \in 0..MaxOpens
  BY LineAssumption DEF rs232dev_init, IInv, TypeOK
<1> QED
  BY <1>4, <1>5, <1>6, <1>7 DEF rs232dev_init, IInv, TypeOK

LEMMA FaultType ==
  ASSUME IInv, NEW i \in DOMAIN wire, Fault(i)
  PROVE  faults' \in 0..MaxFaults /\ hurt' \subseteq 1..MaxPackets
<1>1. wire \in Seq(Carried) /\ hurt \subseteq 1..MaxPackets /\ faults \in 0..MaxFaults
  BY DEF IInv, TypeOK
<1>2. wire[i].of \in 1..MaxPackets
  BY <1>1, NumbersType
<1>3. hurt' \subseteq 1..MaxPackets
  BY <1>1, <1>2 DEF Fault
<1>4. faults' \in 0..MaxFaults
  BY <1>1, LineAssumption DEF Fault
<1> QED
  BY <1>3, <1>4

LEMMA TypeLose == IInv /\ Lose => IInv'
<1> SUFFICES ASSUME IInv, Lose PROVE IInv'
  OBVIOUS
<1> USE DEF out, in
<1>1. PICK i \in DOMAIN wire : Fault(i) /\ wire' = RemoveAt(wire, i)
  BY DEF Lose
<1>2. wire' \in Seq(Carried)
  BY <1>1, RemoveType DEF IInv, TypeOK
<1> QED
  BY <1>1, <1>2, FaultType DEF Lose, IInv, TypeOK

LEMMA TypeDamage == IInv /\ Damage => IInv'
<1> SUFFICES ASSUME IInv, Damage PROVE IInv'
  OBVIOUS
<1> USE DEF out, in
<1>1. PICK i \in DOMAIN wire, b \in Byte : Fault(i) /\ wire' = [wire EXCEPT ![i].byte = b]
  BY DEF Damage
<1>2. wire \in Seq(Carried) /\ wire[i] \in Carried
  BY <1>1 DEF IInv, TypeOK
<1>3. [wire[i] EXCEPT !.byte = b] \in Carried
  BY <1>1, <1>2 DEF Carried
<1>4. wire' \in Seq(Carried)
  BY <1>1, <1>2, <1>3
<1> QED
  BY <1>1, <1>4, FaultType DEF Damage, IInv, TypeOK

LEMMA TypeNext == IInv /\ [Next]_vars => IInv'
<1> SUFFICES ASSUME IInv, [Next]_vars PROVE IInv'
  OBVIOUS
<1>1. CASE rs232dev_send
  BY <1>1, TypeSendStart, TypeSendByte, TypeSendEnd DEF rs232dev_send
<1>2. CASE rs232dev_poll
  BY <1>2, TypePollEsc, TypePollEnd, TypePollByte DEF rs232dev_poll
<1>3. CASE rs232dev_init
  BY <1>3, TypeOpen
<1>4. CASE Lose
  BY <1>4, TypeLose
<1>5. CASE Damage
  BY <1>5, TypeDamage
<1>6. CASE UNCHANGED vars
  BY <1>6 DEF vars, out, in, IInv, TypeOK
<1> QED
  BY <1>1, <1>2, <1>3, <1>4, <1>5, <1>6 DEF Next

(* No packet that rs232dev_poll returns, and nothing it keeps between two  *)
(* calls, is longer than slip_buf, whatever is sent, lost or damaged.      *)
THEOREM TypeCorrect == Spec => []TypeOK
<1>1. IInv => TypeOK
  BY DEF IInv
<1> QED
  BY <1>1, TypeInit, TypeNext, PTL DEF Spec

-------------------------------------------------------------------------------
(***************************************************************************)
(* SoundIntact.  The bytes on the wire are in the order of the packets     *)
(* (Ascending); rs232dev_send has yet to put out the end of the packet     *)
(* being sent (LeftOver); and each packet that stays sound is either all   *)
(* of it still to come, or just being read, or was returned (Fate).  Where *)
(* the bytes of a packet stand on the wire is told by a function at: byte  *)
(* i of the wire stands for byte at[i] of the packet, 0 for the END before *)
(* it, and 1 more than its length for the END behind it.                   *)
(***************************************************************************)
Ascending(w, n) ==
  /\ \A i, j \in 1..Len(w) : i < j => w[i].of <= w[j].of
  /\ \A i \in 1..Len(w) : w[i].of <= n

(* Nothing was read that was not sent. *)
NothingNew ==
  /\ ~\E i \in 1..Len(slip_buf) : slip_buf[i].of > Len(sent)
  /\ \A j \in 1..Len(returned) : ~\E i \in 1..Len(returned[j]) : returned[j][i].of > Len(sent)

LeftOver ==
  sending => LET p == sent[Len(sent)]
             IN  /\ Len(left) <= Len(p)
                 /\ \A j \in 1..Len(left) : left[j] = p[Len(p) - Len(left) + j]

(* How many bytes of packet k were put on the wire, the first END not      *)
(* counted, the last one counted.                                          *)
PutOut(k) == IF sending /\ k = Len(sent) THEN Len(sent[k]) - Len(left) ELSE Len(sent[k]) + 1

OnWire(w, k) == {i \in 1..Len(w) : w[i].of = k}

(* b is what stands for byte a of packet p, or a part of it; and the       *)
(* second part of two.                                                     *)
Part(p, a, b) ==
  IF a \in 1..Len(p)
  THEN /\ p[a] = "END" => b \in {"ESC", "ESC_END"}
       /\ p[a] = "ESC" => b \in {"ESC", "ESC_ESC"}
       /\ p[a] \notin {"END", "ESC"} => b = p[a]
  ELSE b = "END"

Second(p, a, b) == a \in 1..Len(p) /\ p[a] \in {"END", "ESC"} /\ b # "ESC"

Follows(p, a, b, c, d) ==
  IF b = "ESC" THEN c = a /\ Second(p, c, d) ELSE c = a + 1 /\ ~Second(p, c, d)

(* The bytes of packet k on the wire w are those of p from next on, of     *)
(* which n were put out; after the byte last, ESC or not, the next one is   *)
(* the second part of two, or not.                                         *)
Reads(w, k, p, n, next, last, at) ==
  /\ \A i \in OnWire(w, k) : at[i] \in 0..n /\ Part(p, at[i], w[i].byte)
  /\ \A i \in OnWire(w, k) : i + 1 \in OnWire(w, k)
       => Follows(p, at[i], w[i].byte, at[i + 1], w[i + 1].byte)
  /\ \A i \in OnWire(w, k) : i + 1 \notin OnWire(w, k) => at[i] = n /\ w[i].byte # "ESC"
  /\ \A i \in OnWire(w, k) : i - 1 \notin OnWire(w, k)
       => at[i] = next /\ (Second(p, next, w[i].byte) <=> last = "ESC")
  /\ OnWire(w, k) = {} => n + 1 = next /\ last # "ESC"

Unread(k) == \A j \in 1..Len(returned) : ~HasPartOf(returned[j], k)

Coming(k) ==
  /\ Unread(k) /\ ~HasPartOf(slip_buf, k)
  /\ \E at : Reads(wire, k, sent[k], PutOut(k), 0, "none", at)

BeingRead(k) ==
  /\ Unread(k) /\ Len(slip_buf) <= Len(sent[k])
  /\ \A i \in 1..Len(slip_buf) : slip_buf[i] = [byte |-> sent[k][i], of |-> k]
  /\ \A i \in 1..Len(wire) : wire[i].of >= k
  /\ \E at :
       Reads(wire, k, sent[k], PutOut(k), Len(slip_buf) + 1, lastc, at)

WasRead(k) ==
  /\ ~UnderWay(k) /\ ~HasPartOf(slip_buf, k)
  /\ \E j \in 1..Len(returned) : /\ returned[j] = Of(sent[k], k)
                                 /\ \A l \in 1..Len(returned) : HasPartOf(returned[l], k) <=> l = j

Fate(k) == Coming(k) \/ BeingRead(k) \/ WasRead(k)

Fates == \A k \in 1..Len(sent) : Sound(k) => Fate(k)

LineInv == IInv /\ Ascending(wire, Len(sent)) /\ NothingNew /\ LeftOver /\ Fates

(* What the sequences are made of. *)
LEMMA Elements ==
  ASSUME NEW w \in Seq(Carried)
  PROVE  /\ Len(w) \in Nat /\ DOMAIN w = 1..Len(w)
         /\ \A i \in 1..Len(w) : w[i] \in Carried /\ w[i].byte \in Byte /\ w[i].of \in Nat
<1>1. Len(w) \in Nat /\ DOMAIN w = 1..Len(w)
  OBVIOUS
<1> QED  BY <1>1, NumbersType, LineAssumption

LEMMA PacketType ==
  ASSUME TypeOK, NEW k \in 1..Len(sent)
  PROVE  sent[k] \in Seq(Byte) /\ Len(sent[k]) \in Nat \ {0} /\ DOMAIN sent[k] = 1..Len(sent[k])
<1>1. sent[k] \in Packets  BY DEF TypeOK
<1>2. sent[k] \in Seq(Byte) /\ sent[k] # <<>>  BY <1>1, LineAssumption
<1> QED  BY <1>2

(* What is put on the wire comes behind the rest. *)
Longer(w, w2, bytes, m) ==
  /\ w2 \in Seq(Carried) /\ Len(w2) = Len(w) + Len(bytes)
  /\ \A i \in 1..Len(w) : w2[i] = w[i]
  /\ \A i \in 1..Len(bytes) : w2[Len(w) + i].byte = bytes[i]
  /\ \A i \in 1..Len(w2) : i > Len(w) => w2[i].of = m

LEMMA GoesBehind ==
  ASSUME NEW w \in Seq(Carried), NEW bytes \in Seq(Byte), NEW m \in 1..MaxPackets
  PROVE  Longer(w, w \o Of(bytes, m), bytes, m)
<1> DEFINE o == Of(bytes, m)
           w2 == w \o o
<1>1. o \in Seq(Carried)  BY OfType
<1>2. DOMAIN o = DOMAIN bytes /\ \A i \in DOMAIN bytes : o[i] = [byte |-> bytes[i], of |-> m]
  BY DEF Of
<1>3. Len(o) = Len(bytes) /\ Len(bytes) \in Nat /\ DOMAIN bytes = 1..Len(bytes) /\ Len(w) \in Nat
  BY <1>1, <1>2
<1>4. \A i \in 1..Len(bytes) : o[i].byte = bytes[i] /\ o[i].of = m  BY <1>2, <1>3
<1> HIDE DEF o
<1>5. w2 \in Seq(Carried) /\ Len(w2) = Len(w) + Len(o)  BY <1>1
<1>6. \A i \in 1..Len(w) : w2[i] = w[i]  BY <1>1, <1>3
<1>7. \A i \in 1..Len(w2) : i > Len(w) => w2[i] = o[i - Len(w)]  BY <1>1, <1>3
<1> HIDE DEF w2
<1>8. \A i \in 1..Len(w2) : i > Len(w) => i - Len(w) \in 1..Len(bytes)  BY <1>3, <1>5
<1>9. \A i \in 1..Len(bytes) : Len(w) + i \in 1..Len(w2) /\ Len(w) + i > Len(w) /\ (Len(w) + i) - Len(w) = i
  BY <1>3, <1>5
<1>10. \A i \in 1..Len(bytes) : w2[Len(w) + i] = o[i]  BY <1>7, <1>9
<1>11. \A i \in 1..Len(bytes) : w2[Len(w) + i].byte = bytes[i]  BY <1>4, <1>10
<1>12. \A i \in 1..Len(w2) : i > Len(w) => w2[i].of = m  BY <1>4, <1>7, <1>8
<1>13. Longer(w, w2, bytes, m)  BY <1>3, <1>5, <1>6, <1>11, <1>12 DEF Longer
<1> QED  BY <1>13 DEF w2, o

(* w2 is w without its byte j. *)
Without(w, j, w2) ==
  /\ Len(w2) = Len(w) - 1
  /\ \A i \in 1..Len(w2) : w2[i] = IF i < j THEN w[i] ELSE w[i + 1]

LEMMA AscendingWithout ==
  ASSUME NEW w \in Seq(Carried), NEW j \in 1..Len(w), NEW w2 \in Seq(Carried), NEW n \in Nat,
         Without(w, j, w2), Ascending(w, n)
  PROVE  Ascending(w2, n)
<1>1. Len(w) \in Nat /\ Len(w2) \in Nat  OBVIOUS
<1>2. \A i \in 1..Len(w) : w[i].of \in Nat  BY Elements
<1> DEFINE old(i) == IF i < j THEN i ELSE i + 1
<1>3. \A i \in 1..Len(w2) : old(i) \in 1..Len(w) /\ w2[i] = w[old(i)]
  BY <1>1 DEF Without
<1>4. \A i, l \in 1..Len(w2) : i < l => old(i) < old(l)  BY <1>1
<1> HIDE DEF old
<1> QED  BY <1>3, <1>4 DEF Ascending

LEMMA ReadsWithout ==
  ASSUME NEW w \in Seq(Carried), NEW j \in 1..Len(w), NEW w2 \in Seq(Carried), NEW m \in Nat,
         Without(w, j, w2), Ascending(w, m), NEW k \in Nat, w[j].of # k,
         NEW p, NEW n \in Nat, NEW next \in Nat, NEW last, NEW at,
         Reads(w, k, p, n, next, last, at)
  PROVE  \E a : Reads(w2, k, p, n, next, last, a)
<1> DEFINE a == [i \in Nat |-> IF i < j THEN at[i] ELSE at[i + 1]]
           old(i) == IF i < j THEN i ELSE i + 1
<1>1. Len(w) \in Nat /\ Len(w2) = Len(w) - 1 /\ j \in Nat /\ j <= Len(w) /\ j >= 1
  BY DEF Without
<1>2. \A i \in 1..Len(w) : w[i].of \in Nat  BY Elements
<1>4. \A i \in 1..Len(w2) : old(i) \in 1..Len(w) /\ w2[i] = w[old(i)] /\ a[i] = at[old(i)]
  <2>1. \A i \in Nat : a[i] = at[old(i)]
    <3> TAKE i \in Nat
    <3>1. CASE i < j  BY <3>1
    <3>2. CASE ~(i < j)  BY <3>2
    <3> QED  BY <3>1, <3>2
  <2>2. \A i \in 1..Len(w2) : old(i) \in 1..Len(w) /\ w2[i] = w[old(i)]
    BY <1>1 DEF Without
  <2> HIDE DEF a, old
  <2>3. \A i \in 1..Len(w2) : i \in Nat  BY <1>1
  <2> QED  BY <2>1, <2>2, <2>3
<1>5. \A i \in OnWire(w2, k) : old(i) \in OnWire(w, k)  BY <1>4 DEF OnWire
<1>6. \A i \in OnWire(w2, k) : i + 1 \in OnWire(w2, k) <=> old(i) + 1 \in OnWire(w, k)
  <2> TAKE i \in OnWire(w2, k)
  <2>0. i \in 1..Len(w2)  BY DEF OnWire
  <2>1. CASE i + 1 < j \/ i >= j
    <3>1. old(i + 1) = old(i) + 1  BY <2>0, <2>1, <1>1
    <3>2. i + 1 \in 1..Len(w2) <=> old(i) + 1 \in 1..Len(w)  BY <2>0, <2>1, <1>1
    <3> QED  BY <3>1, <3>2, <1>4 DEF OnWire
  <2>2. CASE i + 1 = j
    <3>1. old(i) = i /\ old(i) + 1 = j  BY <2>0, <2>2, <1>1
    <3>2. old(i) + 1 \notin OnWire(w, k)  BY <3>1 DEF OnWire
    <3>3. i + 1 \notin OnWire(w2, k)
      <4> SUFFICES ASSUME i + 1 \in OnWire(w2, k) PROVE FALSE  OBVIOUS
      <4>1. old(i + 1) = j + 1 /\ j + 1 \in OnWire(w, k)  BY <2>2, <1>1, <1>5
      <4>2. i \in OnWire(w, k)  BY <3>1, <1>5
      <4>3. w[i].of <= w[j].of /\ w[j].of <= w[j + 1].of
        <5>1. j \in 1..Len(w) /\ i \in 1..Len(w) /\ j + 1 \in 1..Len(w)
          BY <4>1, <4>2, <1>1 DEF OnWire
        <5>2. i < j /\ j < j + 1  BY <2>2, <2>0, <5>1
        <5>3. \A x, y \in 1..Len(w) : x < y => w[x].of <= w[y].of  BY <1>1 DEF Ascending
        <5> QED  BY <5>1, <5>2, <5>3
      <4> QED  BY <4>1, <4>2, <4>3, <1>2 DEF OnWire
    <3> QED  BY <3>2, <3>3
  <2> QED  BY <2>0, <2>1, <2>2, <1>1
<1>7. \A i \in OnWire(w2, k) : i - 1 \notin OnWire(w2, k) => old(i) - 1 \notin OnWire(w, k)
  <2> SUFFICES ASSUME NEW i \in OnWire(w2, k), old(i) - 1 \in OnWire(w, k)
               PROVE  i - 1 \in OnWire(w2, k)
    OBVIOUS
  <2>0. i \in 1..Len(w2) /\ old(i) - 1 \in 1..Len(w) /\ w[old(i) - 1].of = k  BY DEF OnWire
  <2>1. old(i) - 1 # j  BY <2>0
  <2>2. i - 1 \in 1..Len(w2) /\ old(i - 1) = old(i) - 1  BY <2>0, <2>1, <1>1
  <2> QED  BY <2>0, <2>2, <1>4 DEF OnWire
<1>8. \A i \in OnWire(w2, k) : i + 1 \in OnWire(w2, k) => a[i + 1] = at[old(i) + 1] /\ w2[i + 1] = w[old(i) + 1]
  <2> SUFFICES ASSUME NEW i \in OnWire(w2, k), i + 1 \in OnWire(w2, k)
               PROVE  a[i + 1] = at[old(i) + 1] /\ w2[i + 1] = w[old(i) + 1]
    OBVIOUS
  <2>1. i \in 1..Len(w2) /\ i + 1 \in 1..Len(w2)  BY DEF OnWire
  <2>2. old(i) + 1 # j  BY <1>6 DEF OnWire
  <2>3. old(i + 1) = old(i) + 1  BY <2>1, <2>2, <1>1
  <2> HIDE DEF a, old
  <2> QED  BY <2>1, <2>3, <1>4
<1>9. OnWire(w2, k) = {} => OnWire(w, k) = {}
  <2> SUFFICES ASSUME NEW i \in OnWire(w, k) PROVE \E l \in 1..Len(w2) : l \in OnWire(w2, k)
    OBVIOUS
  <2>1. i \in 1..Len(w) /\ i # j /\ w[i].of = k  BY DEF OnWire
  <2>2. CASE i < j
    <3>1. i \in 1..Len(w2) /\ old(i) = i  BY <2>1, <2>2, <1>1
    <3> QED  BY <2>1, <3>1, <1>4 DEF OnWire
  <2>3. CASE i > j
    <3>1. i - 1 \in 1..Len(w2) /\ old(i - 1) = i  BY <2>1, <2>3, <1>1
    <3> QED  BY <2>1, <3>1, <1>4 DEF OnWire
  <2> QED  BY <2>1, <2>2, <2>3, <1>1
<1>10. \A i \in OnWire(w2, k) : i \in 1..Len(w2)  BY DEF OnWire
<1> HIDE DEF a, old
<1>11. Reads(w2, k, p, n, next, last, a)
  <2>1. \A i \in OnWire(w2, k) : a[i] \in 0..n /\ Part(p, a[i], w2[i].byte)
    BY <1>4, <1>5, <1>10 DEF Reads
  <2>2. \A i \in OnWire(w2, k) : i + 1 \in OnWire(w2, k)
          => Follows(p, a[i], w2[i].byte, a[i + 1], w2[i + 1].byte)
    BY <1>4, <1>5, <1>6, <1>8, <1>10 DEF Reads
  <2>3. \A i \in OnWire(w2, k) : i + 1 \notin OnWire(w2, k) => a[i] = n /\ w2[i].byte # "ESC"
    BY <1>4, <1>5, <1>6, <1>10 DEF Reads
  <2>4. \A i \in OnWire(w2, k) : i - 1 \notin OnWire(w2, k)
          => a[i] = next /\ (Second(p, next, w2[i].byte) <=> last = "ESC")
    BY <1>4, <1>5, <1>7, <1>10 DEF Reads
  <2>5. OnWire(w2, k) = {} => n + 1 = next /\ last # "ESC"  BY <1>9 DEF Reads
  <2> QED  BY <2>1, <2>2, <2>3, <2>4, <2>5 DEF Reads
<1> QED  BY <1>11

(* Bytes of other packets may change, and be put behind. *)
LEMMA ReadsElse ==
  ASSUME NEW w \in Seq(Carried), NEW w2 \in Seq(Carried), NEW k \in Nat, Len(w2) >= Len(w),
         \A i \in 1..Len(w) : w2[i].of = w[i].of /\ (w[i].of = k => w2[i] = w[i]),
         \A i \in 1..Len(w2) : i > Len(w) => w2[i].of # k,
         NEW p, NEW n \in Nat, NEW next \in Nat, NEW last, NEW at,
         Reads(w, k, p, n, next, last, at)
  PROVE  Reads(w2, k, p, n, next, last, at)
<1>1. Len(w) \in Nat /\ Len(w2) \in Nat  OBVIOUS
<1>2. OnWire(w2, k) = OnWire(w, k)  BY <1>1 DEF OnWire
<1>3. \A i \in OnWire(w, k) : w2[i] = w[i]  BY DEF OnWire
<1> QED  BY <1>2, <1>3 DEF Reads

(* The bytes bs stand for byte a of packet p. *)
Codes(p, a, bs) ==
  /\ \A i \in 1..Len(bs) : Part(p, a, bs[i])
  /\ \/ Len(bs) = 1 /\ bs[1] # "ESC" /\ ~Second(p, a, bs[1])
     \/ Len(bs) = 2 /\ bs[1] = "ESC" /\ Second(p, a, bs[2])

LEMMA EscapedCodes ==
  ASSUME NEW p \in Seq(Byte), NEW a \in 1..Len(p)
  PROVE  Codes(p, a, Escaped(p[a]))
<1>1. CASE p[a] = "END"
  <2>1. Escaped(p[a]) = <<"ESC", "ESC_END">>  BY <1>1 DEF Escaped
  <2> QED  BY <1>1, <2>1 DEF Codes, Part, Second
<1>2. CASE p[a] = "ESC"
  <2>1. Escaped(p[a]) = <<"ESC", "ESC_ESC">>  BY <1>2 DEF Escaped
  <2> QED  BY <1>2, <2>1 DEF Codes, Part, Second
<1>3. CASE p[a] # "END" /\ p[a] # "ESC"
  <2>1. Escaped(p[a]) = <<p[a]>>  BY <1>3 DEF Escaped
  <2> QED  BY <1>3, <2>1 DEF Codes, Part, Second
<1> QED  BY <1>1, <1>2, <1>3

LEMMA EndCodes ==
  ASSUME NEW p \in Seq(Byte)
  PROVE  Codes(p, 0, <<"END">>) /\ Codes(p, Len(p) + 1, <<"END">>)
<1>1. Len(p) \in Nat /\ 0 \notin 1..Len(p) /\ Len(p) + 1 \notin 1..Len(p)  OBVIOUS
<1> QED  BY <1>1 DEF Codes, Part, Second

(* The bytes of one packet stand together, the last ones at the end. *)
LEMMA Together ==
  ASSUME NEW w \in Seq(Carried), NEW k \in Nat, NEW m \in Nat, Ascending(w, m),
         NEW i \in OnWire(w, k), NEW l \in 1..Len(w)
  PROVE  /\ \A j \in OnWire(w, k) : i <= l /\ l <= j => l \in OnWire(w, k)
         /\ m = k /\ i <= l => l \in OnWire(w, k)
<1>1. Len(w) \in Nat /\ \A j \in 1..Len(w) : w[j].of \in Nat  BY Elements
<1>2. \A j \in OnWire(w, k) : j \in 1..Len(w) /\ w[j].of = k  BY DEF OnWire
<1>3. i <= l => k <= w[l].of
  <2>1. CASE i < l  BY <2>1, <1>2 DEF Ascending
  <2>2. CASE i = l  BY <2>2, <1>1, <1>2
  <2> QED  BY <2>1, <2>2, <1>1, <1>2
<1>4. \A j \in OnWire(w, k) : l <= j => w[l].of <= k
  <2> TAKE j \in OnWire(w, k)
  <2>1. CASE l < j  BY <2>1, <1>2 DEF Ascending
  <2>2. CASE l = j  BY <2>2, <1>1, <1>2
  <2> QED  BY <2>1, <2>2, <1>1, <1>2
<1>5. w[l].of <= m  BY DEF Ascending
<1> QED  BY <1>1, <1>3, <1>4, <1>5 DEF OnWire

(* rs232dev_send puts out the next byte of the packet. *)
LEMMA ReadsMore ==
  ASSUME NEW w \in Seq(Carried), NEW k \in Nat, Ascending(w, k),
         NEW p, NEW n \in Nat, NEW next \in Nat, NEW last, NEW at, Reads(w, k, p, n, next, last, at),
         NEW bs \in Seq(Byte), Codes(p, n + 1, bs),
         NEW w2, Longer(w, w2, bs, k)
  PROVE  \E a : Reads(w2, k, p, n + 1, next, last, a)
<1> DEFINE a == [i \in Nat |-> IF i <= Len(w) THEN at[i] ELSE n + 1]
           L == Len(w)
<1>0. /\ w2 \in Seq(Carried) /\ Len(w2) = L + Len(bs)
      /\ \A i \in 1..L : w2[i] = w[i]
      /\ \A i \in 1..Len(bs) : w2[L + i].byte = bs[i]
      /\ \A i \in 1..Len(w2) : i > L => w2[i].of = k
  BY DEF Longer
<1>1. L \in Nat /\ (Len(bs) = 1 \/ Len(bs) = 2) /\ Len(w2) = L + Len(bs)  BY <1>0 DEF Codes
<1>2. \A i \in 1..L : a[i] = at[i] /\ w2[i] = w[i]  BY <1>0, <1>1
<1>3. a[L + 1] = n + 1 /\ w2[L + 1].byte = bs[1] /\ w2[L + 1].of = k
  <2>1. 1 \in 1..Len(bs) /\ L + 1 \in 1..Len(w2) /\ L + 1 > L
    <3>1. CASE Len(bs) = 1  BY <3>1, <1>1
    <3>2. CASE Len(bs) = 2  BY <3>2, <1>1
    <3> QED  BY <3>1, <3>2, <1>1
  <2>2. a[L + 1] = n + 1  BY <1>1
  <2> HIDE DEF a
  <2> QED  BY <2>1, <2>2, <1>0
<1>4. Len(bs) = 2 => a[L + 2] = n + 1 /\ w2[L + 2].byte = bs[2] /\ w2[L + 2].of = k
  <2> SUFFICES ASSUME Len(bs) = 2 PROVE a[L + 2] = n + 1 /\ w2[L + 2].byte = bs[2] /\ w2[L + 2].of = k
    OBVIOUS
  <2>1. 2 \in 1..Len(bs) /\ L + 2 \in 1..Len(w2) /\ L + 2 > L  BY <1>1
  <2>2. a[L + 2] = n + 1  BY <1>1
  <2> HIDE DEF a
  <2> QED  BY <2>1, <2>2, <1>0
<1> HIDE DEF a
<1>5. \A i \in 1..Len(w2) : i \in 1..L \/ i = L + 1 \/ (Len(bs) = 2 /\ i = L + 2)
  <2>1. CASE Len(bs) = 1  BY <2>1, <1>1
  <2>2. CASE Len(bs) = 2  BY <2>2, <1>1
  <2> QED  BY <2>1, <2>2, <1>1
<1>6. \A i : i \in OnWire(w2, k) <=> i \in OnWire(w, k) \/ i = L + 1 \/ (Len(bs) = 2 /\ i = L + 2)
  <2> TAKE i
  <2>1. i \in OnWire(w2, k) <=> i \in 1..Len(w2) /\ w2[i].of = k  BY DEF OnWire
  <2>2. i \in OnWire(w, k) <=> i \in 1..L /\ w[i].of = k  BY DEF OnWire
  <2>3. i \in 1..L => i \in 1..Len(w2) /\ w2[i] = w[i]  BY <1>1, <1>2
  <2>4. L + 1 \in 1..Len(w2) /\ (Len(bs) = 2 => L + 2 \in 1..Len(w2))
    <3>1. CASE Len(bs) = 1  BY <3>1, <1>1
    <3>2. CASE Len(bs) = 2  BY <3>2, <1>1
    <3> QED  BY <3>1, <3>2, <1>1
  <2> QED  BY <2>1, <2>2, <2>3, <2>4, <1>3, <1>4, <1>5
<1>7. \A i \in OnWire(w, k) : i \in 1..L  BY DEF OnWire
<1>8. \A i \in OnWire(w, k) : L \in OnWire(w, k) /\ (i + 1 \in OnWire(w, k) \/ i = L)
  <2> TAKE i \in OnWire(w, k)
  <2>1. L \in 1..Len(w) /\ i <= L  BY <1>1, <1>7
  <2>2. L \in OnWire(w, k)  BY <2>1, Together
  <2>3. i # L => i + 1 \in 1..Len(w) /\ i <= i + 1  BY <1>1, <1>7
  <2> QED  BY <2>2, <2>3, Together
<1>9. L + 1 \notin OnWire(w, k) /\ L + 2 \notin OnWire(w, k)  BY <1>1, <1>7
<1>10. /\ \A i \in 1..Len(bs) : Part(p, n + 1, bs[i])
       /\ \/ Len(bs) = 1 /\ bs[1] # "ESC" /\ ~Second(p, n + 1, bs[1])
          \/ Len(bs) = 2 /\ bs[1] = "ESC" /\ Second(p, n + 1, bs[2])
  BY DEF Codes
<1>11. ~Second(p, n + 1, bs[1])  BY <1>10 DEF Second
<1>12. \A i \in OnWire(w2, k) : a[i] \in 0..n + 1 /\ Part(p, a[i], w2[i].byte)
  <2> TAKE i \in OnWire(w2, k)
  <2>1. CASE i \in OnWire(w, k)
    <3>1. at[i] \in 0..n /\ Part(p, at[i], w[i].byte)  BY <2>1 DEF Reads
    <3>2. a[i] = at[i] /\ w2[i] = w[i]  BY <2>1, <1>2, <1>7
    <3> QED  BY <3>1, <3>2
  <2>2. CASE i = L + 1  BY <2>2, <1>1, <1>3, <1>10
  <2>3. CASE Len(bs) = 2 /\ i = L + 2  BY <2>3, <1>1, <1>4, <1>10
  <2> QED  BY <2>1, <2>2, <2>3, <1>6
<1>13. \A i \in OnWire(w2, k) : i + 1 \in OnWire(w2, k)
         => Follows(p, a[i], w2[i].byte, a[i + 1], w2[i + 1].byte)
  <2> SUFFICES ASSUME NEW i \in OnWire(w2, k), i + 1 \in OnWire(w2, k)
               PROVE  Follows(p, a[i], w2[i].byte, a[i + 1], w2[i + 1].byte)
    OBVIOUS
  <2>1. CASE i \in OnWire(w, k) /\ i # L
    <3>1. i + 1 \in OnWire(w, k)  BY <2>1, <1>8
    <3>2. Follows(p, at[i], w[i].byte, at[i + 1], w[i + 1].byte)  BY <2>1, <3>1 DEF Reads
    <3> QED  BY <2>1, <3>1, <3>2, <1>2, <1>7
  <2>2. CASE i \in OnWire(w, k) /\ i = L
    <3>1. at[i] = n /\ w[i].byte # "ESC"  BY <2>2, <1>9 DEF Reads
    <3>2. a[i] = n /\ w2[i].byte # "ESC"  BY <2>2, <3>1, <1>2, <1>7
    <3> QED  BY <2>2, <3>2, <1>3, <1>11 DEF Follows
  <2>3. CASE i = L + 1
    <3>1. Len(bs) = 2
      <4>1. i + 1 = L + 2  BY <2>3, <1>1
      <4> QED  BY <4>1, <1>1, <1>6, <1>9
    <3>2. i + 1 = L + 2  BY <2>3, <1>1
    <3> QED  BY <2>3, <3>1, <3>2, <1>3, <1>4, <1>10 DEF Follows
  <2>4. CASE Len(bs) = 2 /\ i = L + 2
    <3>1. i + 1 = L + 3 /\ L + 3 \notin 1..Len(w2)  BY <2>4, <1>1
    <3> QED  BY <3>1 DEF OnWire
  <2> QED  BY <2>1, <2>2, <2>3, <2>4, <1>6
<1>14. \A i \in OnWire(w2, k) : i + 1 \notin OnWire(w2, k) => a[i] = n + 1 /\ w2[i].byte # "ESC"
  <2> SUFFICES ASSUME NEW i \in OnWire(w2, k), i + 1 \notin OnWire(w2, k)
               PROVE  a[i] = n + 1 /\ w2[i].byte # "ESC"
    OBVIOUS
  <2>1. i \notin OnWire(w, k)  BY <1>6, <1>8
  <2>2. CASE i = L + 1
    <3>1. Len(bs) # 2
      <4>1. i + 1 = L + 2  BY <2>2, <1>1
      <4> QED  BY <4>1, <1>6
    <3> QED  BY <2>2, <3>1, <1>3, <1>10
  <2>3. CASE Len(bs) = 2 /\ i = L + 2  BY <2>3, <1>4, <1>10 DEF Second
  <2> QED  BY <2>1, <2>2, <2>3, <1>6
<1>15. \A i \in OnWire(w2, k) : i - 1 \notin OnWire(w2, k)
         => a[i] = next /\ (Second(p, next, w2[i].byte) <=> last = "ESC")
  <2> SUFFICES ASSUME NEW i \in OnWire(w2, k), i - 1 \notin OnWire(w2, k)
               PROVE  a[i] = next /\ (Second(p, next, w2[i].byte) <=> last = "ESC")
    OBVIOUS
  <2>1. CASE i \in OnWire(w, k)
    <3>1. i - 1 \notin OnWire(w, k)  BY <1>6
    <3>2. at[i] = next /\ (Second(p, next, w[i].byte) <=> last = "ESC")  BY <2>1, <3>1 DEF Reads
    <3> QED  BY <2>1, <3>2, <1>2, <1>7
  <2>2. CASE i = L + 1
    <3>1. i - 1 = L  BY <2>2, <1>1
    <3>2. L \notin OnWire(w, k)  BY <3>1, <1>6
    <3>3. OnWire(w, k) = {}  BY <3>2, <1>8
    <3>4. n + 1 = next /\ last # "ESC"  BY <3>3 DEF Reads
    <3> QED  BY <2>2, <3>4, <1>3, <1>11
  <2>3. CASE Len(bs) = 2 /\ i = L + 2
    <3>1. i - 1 = L + 1  BY <2>3, <1>1
    <3> QED  BY <3>1, <1>6
  <2> QED  BY <2>1, <2>2, <2>3, <1>6
<1>16. OnWire(w2, k) # {}  BY <1>6
<1>17. Reads(w2, k, p, n + 1, next, last, a)
  BY <1>12, <1>13, <1>14, <1>15, <1>16 DEF Reads
<1> QED  BY <1>17

(* rs232dev_poll takes the next byte of the packet. *)
LEMMA ReadsNext ==
  ASSUME NEW w \in Seq(Carried), NEW w2 \in Seq(Carried), NEW k \in Nat, NEW m \in Nat,
         Ascending(w, m), 1 \in OnWire(w, k), Without(w, 1, w2),
         NEW p, NEW n \in Nat, NEW next \in Nat, NEW last, NEW at, Reads(w, k, p, n, next, last, at)
  PROVE  /\ at[1] = next
         /\ \E a : Reads(w2, k, p, n, IF w[1].byte = "ESC" THEN next ELSE next + 1, w[1].byte, a)
<1> DEFINE a == [i \in Nat |-> at[i + 1]]
           b == w[1].byte
           then == IF b = "ESC" THEN next ELSE next + 1
<1>1. Len(w) \in Nat /\ Len(w2) \in Nat /\ Len(w2) = Len(w) - 1  BY Elements DEF Without
<1>2. \A i \in 1..Len(w2) : a[i] = at[i + 1] /\ w2[i] = w[i + 1] /\ i + 1 \in 1..Len(w) /\ i \in Nat
  BY <1>1 DEF Without
<1>3. \A i \in Nat : i >= 1 => (i \in OnWire(w2, k) <=> i + 1 \in OnWire(w, k))
  <2> SUFFICES ASSUME NEW i \in Nat, i >= 1 PROVE i \in OnWire(w2, k) <=> i + 1 \in OnWire(w, k)
    OBVIOUS
  <2>1. i \in 1..Len(w2) <=> i + 1 \in 1..Len(w)  BY <1>1
  <2> QED  BY <2>1, <1>2 DEF OnWire
<1>4. 0 \notin OnWire(w, k) /\ 0 \notin OnWire(w2, k)  BY DEF OnWire
<1>5. at[1] = next
  <2>1. 1 - 1 \notin OnWire(w, k)  BY <1>4
  <2> QED  BY <2>1 DEF Reads
<1>6. \A i \in OnWire(w2, k) : i \in 1..Len(w2) /\ i \in Nat /\ i >= 1  BY <1>1 DEF OnWire
<1> HIDE DEF a
<1>7. \A i \in OnWire(w2, k) : a[i] \in 0..n /\ Part(p, a[i], w2[i].byte)
  BY <1>2, <1>3, <1>6 DEF Reads
<1>8. \A i \in OnWire(w2, k) : i + 1 \in OnWire(w2, k)
        => Follows(p, a[i], w2[i].byte, a[i + 1], w2[i + 1].byte)
  <2> SUFFICES ASSUME NEW i \in OnWire(w2, k), i + 1 \in OnWire(w2, k)
               PROVE  Follows(p, a[i], w2[i].byte, a[i + 1], w2[i + 1].byte)
    OBVIOUS
  <2>1. i + 1 \in OnWire(w, k) /\ (i + 1) + 1 \in OnWire(w, k)  BY <1>3, <1>6
  <2>2. Follows(p, at[i + 1], w[i + 1].byte, at[(i + 1) + 1], w[(i + 1) + 1].byte)
    BY <2>1 DEF Reads
  <2>3. a[i] = at[i + 1] /\ w2[i] = w[i + 1] /\ a[i + 1] = at[(i + 1) + 1] /\ w2[i + 1] = w[(i + 1) + 1]
    BY <1>2, <1>6
  <2> QED  BY <2>2, <2>3
<1>9. \A i \in OnWire(w2, k) : i + 1 \notin OnWire(w2, k) => a[i] = n /\ w2[i].byte # "ESC"
  <2> SUFFICES ASSUME NEW i \in OnWire(w2, k), i + 1 \notin OnWire(w2, k)
               PROVE  a[i] = n /\ w2[i].byte # "ESC"
    OBVIOUS
  <2>1. i + 1 \in OnWire(w, k) /\ (i + 1) + 1 \notin OnWire(w, k)
    <3>1. i \in Nat /\ i >= 1 /\ i + 1 \in Nat /\ i + 1 >= 1  BY <1>6
    <3> QED  BY <3>1, <1>3
  <2>2. at[i + 1] = n /\ w[i + 1].byte # "ESC"  BY <2>1 DEF Reads
  <2> QED  BY <2>2, <1>2, <1>6
<1>10. \A i \in OnWire(w2, k) : i - 1 \notin OnWire(w2, k)
         => a[i] = then /\ (Second(p, then, w2[i].byte) <=> b = "ESC")
  <2> SUFFICES ASSUME NEW i \in OnWire(w2, k), i - 1 \notin OnWire(w2, k)
               PROVE  a[i] = then /\ (Second(p, then, w2[i].byte) <=> b = "ESC")
    OBVIOUS
  <2>1. i = 1
    <3> SUFFICES ASSUME i # 1 PROVE FALSE  OBVIOUS
    <3>1. i - 1 \in Nat /\ i - 1 >= 1 /\ (i - 1) + 1 = i  BY <1>6
    <3>2. i \notin OnWire(w, k)  BY <3>1, <1>3
    <3>3. i + 1 \in OnWire(w, k) /\ i \in 1..Len(w2) /\ i \in Nat /\ 1 <= i  BY <1>3, <1>6
    <3>4. i \in 1..Len(w) /\ i <= i + 1  BY <3>3, <1>1
    <3> QED  BY <3>2, <3>3, <3>4, Together
  <2>2. 1 + 1 \in OnWire(w, k)  BY <2>1, <1>3, <1>6
  <2>3. Follows(p, at[1], b, at[1 + 1], w[1 + 1].byte)  BY <2>2 DEF Reads
  <2>4. a[i] = at[1 + 1] /\ w2[i] = w[1 + 1]  BY <2>1, <1>2, <1>6
  <2> QED  BY <2>3, <2>4, <1>5 DEF Follows
<1>11. OnWire(w2, k) = {} => n + 1 = then /\ b # "ESC"
  <2> SUFFICES ASSUME OnWire(w2, k) = {} PROVE n + 1 = then /\ b # "ESC"
    OBVIOUS
  <2>1. 1 + 1 \notin OnWire(w, k)
    <3>1. 1 \in Nat /\ 1 >= 1  OBVIOUS
    <3> QED  BY <3>1, <1>3
  <2>2. at[1] = n /\ b # "ESC"  BY <2>1 DEF Reads
  <2> QED  BY <2>2, <1>5
<1>12. Reads(w2, k, p, n, then, b, a)  BY <1>7, <1>8, <1>9, <1>10, <1>11 DEF Reads
<1> QED  BY <1>5, <1>12

-------------------------------------------------------------------------------
(* What a packet's fate depends on, and that it is under way until read.   *)
LEMMA PutOutType ==
  ASSUME LineInv, NEW k \in 1..Len(sent)
  PROVE  /\ PutOut(k) \in Nat /\ k \in 1..MaxPackets /\ k \in Nat
         /\ sending /\ k = Len(sent) => PutOut(k) <= Len(sent[k])
         /\ ~(sending /\ k = Len(sent)) => PutOut(k) = Len(sent[k]) + 1
<1>1. Len(sent[k]) \in Nat  BY PacketType DEF LineInv, IInv
<1>2. Len(sent) \in Nat /\ Len(sent) <= MaxPackets /\ MaxPackets \in Nat
  BY LineAssumption DEF LineInv, IInv, TypeOK
<1>3. sending => Len(left) \in Nat  BY DEF LineInv, IInv, TypeOK
<1>4. sending /\ k = Len(sent) => Len(left) <= Len(sent[k])  BY DEF LineInv, LeftOver
<1> QED  BY <1>1, <1>2, <1>3, <1>4 DEF PutOut

(* While a packet is being read, its bytes are the first on the wire, or   *)
(* there are none on the wire at all.                                      *)
LEMMA FirstOnWire ==
  ASSUME LineInv, NEW k \in 1..Len(sent), BeingRead(k), wire # <<>>
  PROVE  1 \in OnWire(wire, k)
<1>1. PICK at : Reads(wire, k, sent[k], PutOut(k), Len(slip_buf) + 1, lastc, at)
  BY DEF BeingRead
<1>2. wire \in Seq(Carried) /\ Len(wire) \in Nat /\ Len(wire) # 0  BY DEF LineInv, IInv, TypeOK
<1>3. 1 \in 1..Len(wire) /\ wire[1].of \in Nat /\ wire[1].of >= k /\ k \in Nat
  <2>1. 1 \in 1..Len(wire)  BY <1>2
  <2>2. wire[1].of \in Nat  BY <1>2, <2>1, Elements
  <2> QED  BY <2>1, <2>2 DEF BeingRead
<1>4. CASE OnWire(wire, k) = {}
  <2>1. PutOut(k) + 1 = Len(slip_buf) + 1  BY <1>1, <1>4 DEF Reads
  <2>2. Len(slip_buf) <= Len(sent[k]) /\ Len(slip_buf) \in Nat  BY DEF BeingRead, LineInv, IInv, TypeOK
  <2>3. Len(sent[k]) \in Nat  BY PacketType DEF LineInv, IInv
  <2>4. k = Len(sent)  BY <2>1, <2>2, <2>3, PutOutType
  <2>5. wire[1].of <= k  BY <1>3, <2>4 DEF LineInv, Ascending
  <2> QED  BY <1>3, <2>5 DEF OnWire
<1>5. CASE OnWire(wire, k) # {}
  <2>1. PICK i \in OnWire(wire, k) : TRUE  BY <1>5
  <2>2. i \in 1..Len(wire) /\ wire[i].of = k  BY DEF OnWire
  <2>3. i = 1 \/ wire[1].of <= k
    <3>1. i # 1 => 1 < i  BY <2>2, <1>2
    <3> QED  BY <3>1, <2>2, <1>3 DEF LineInv, Ascending
  <2>4. wire[1].of = k  BY <1>3, <2>2, <2>3
  <2> QED  BY <2>4, <1>3 DEF OnWire
<1> QED  BY <1>4, <1>5

LEMMA StillUnderWay ==
  ASSUME LineInv, NEW k \in 1..Len(sent), Coming(k) \/ BeingRead(k)
  PROVE  UnderWay(k)
<1>1. wire \in Seq(Carried) /\ DOMAIN wire = 1..Len(wire)  BY DEF LineInv, IInv, TypeOK
<1>2. OnWire(wire, k) # {} => UnderWay(k)  BY <1>1 DEF OnWire, UnderWay
<1>3. CASE Coming(k)
  <2>1. PICK at : Reads(wire, k, sent[k], PutOut(k), 0, "none", at)  BY <1>3 DEF Coming
  <2>2. PutOut(k) + 1 # 0  BY PutOutType
  <2>3. OnWire(wire, k) # {}  BY <2>1, <2>2 DEF Reads
  <2> QED  BY <2>3, <1>2
<1>4. CASE BeingRead(k)
  <2>1. PICK at : Reads(wire, k, sent[k], PutOut(k), Len(slip_buf) + 1, lastc, at)
    BY <1>4 DEF BeingRead
  <2>2. CASE OnWire(wire, k) = {}
    <3>1. PutOut(k) + 1 = Len(slip_buf) + 1  BY <2>1, <2>2 DEF Reads
    <3>2. Len(slip_buf) <= Len(sent[k]) /\ Len(slip_buf) \in Nat
      BY <1>4 DEF BeingRead, LineInv, IInv, TypeOK
    <3>3. Len(sent[k]) \in Nat  BY PacketType DEF LineInv, IInv
    <3>4. sending /\ k = Len(sent)  BY <3>1, <3>2, <3>3, PutOutType
    <3> QED  BY <3>4 DEF UnderWay
  <2> QED  BY <2>2, <1>2
<1> QED  BY <1>3, <1>4

(* A packet's own end is not touched by those behind it. *)
LEMMA SendElse ==
  ASSUME LineInv, NEW k \in 1..Len(sent), Fate(k), NEW m \in 1..MaxPackets, NEW bytes \in Seq(Byte),
         wire' = wire \o Of(bytes, m), k < m, m = Len(sent'), sent'[k] = sent[k],
         ~(sending /\ k = Len(sent)), UNCHANGED in
  PROVE  Fate(k)'
<1>1. wire \in Seq(Carried) /\ Len(wire) \in Nat  BY DEF LineInv, IInv, TypeOK
<1>2. /\ wire' \in Seq(Carried) /\ Len(wire') = Len(wire) + Len(bytes) /\ Len(bytes) \in Nat
      /\ \A i \in 1..Len(wire) : wire'[i] = wire[i]
      /\ \A i \in 1..Len(wire') : i > Len(wire) => wire'[i].of = m
  <2>1. Len(bytes) \in Nat  OBVIOUS
  <2>2. Longer(wire, wire', bytes, m)  BY <1>1, GoesBehind
  <2> QED  BY <2>1, <2>2 DEF Longer
<1>3. k \in Nat /\ m \in Nat /\ k # m /\ ~(sending' /\ k = Len(sent'))  BY PutOutType
<1>4. PutOut(k)' = PutOut(k) /\ PutOut(k) \in Nat  BY <1>3, PutOutType DEF PutOut
<1>5. ASSUME NEW next \in Nat, NEW last, NEW at, Reads(wire, k, sent[k], PutOut(k), next, last, at)
      PROVE  Reads(wire', k, sent'[k], PutOut(k)', next, last, at)
  <2>1. Len(wire') >= Len(wire)  BY <1>1, <1>2
  <2>2. \A i \in 1..Len(wire') : i > Len(wire) => wire'[i].of # k  BY <1>2, <1>3
  <2>3. Reads(wire', k, sent[k], PutOut(k), next, last, at)
    BY <1>1, <1>2, <1>3, <1>4, <1>5, <2>1, <2>2, ReadsElse
  <2> QED  BY <2>3, <1>4
<1>6. Unread(k)' <=> Unread(k)  BY DEF Unread, in
<1>7. HasPartOf(slip_buf, k)' <=> HasPartOf(slip_buf, k)  BY DEF in, HasPartOf
<1>8. slip_buf' = slip_buf /\ lastc' = lastc /\ returned' = returned  BY DEF in
<1>9. CASE Coming(k)
  <2>1. PICK at : Reads(wire, k, sent[k], PutOut(k), 0, "none", at)  BY <1>9 DEF Coming
  <2>2. Reads(wire', k, sent'[k], PutOut(k)', 0, "none", at)  BY <2>1, <1>5
  <2>3. Coming(k)'  BY <2>2, <1>6, <1>7, <1>9 DEF Coming
  <2> QED  BY <2>3 DEF Fate
<1>10. CASE BeingRead(k)
  <2>1. PICK at : Reads(wire, k, sent[k], PutOut(k), Len(slip_buf) + 1, lastc, at)
    BY <1>10 DEF BeingRead
  <2>2. Len(slip_buf) + 1 \in Nat  BY DEF LineInv, IInv, TypeOK
  <2>3. Reads(wire', k, sent'[k], PutOut(k)', Len(slip_buf) + 1, lastc, at)  BY <2>1, <2>2, <1>5
  <2>4. \A i \in 1..Len(wire') : wire'[i].of >= k
    <3> TAKE i \in 1..Len(wire')
    <3>1. CASE i <= Len(wire)
      <4>1. i \in 1..Len(wire)  BY <3>1, <1>1
      <4> QED  BY <4>1, <1>2, <1>10 DEF BeingRead
    <3>2. CASE i > Len(wire)  BY <3>2, <1>2, <1>3
    <3> QED  BY <3>1, <3>2, <1>1
  <2>5. BeingRead(k)'  BY <2>3, <2>4, <1>6, <1>8, <1>10 DEF BeingRead
  <2> QED  BY <2>5 DEF Fate
<1>11. CASE WasRead(k)
  <2>1. ~UnderWay(k)'
    <3>1. \A i \in 1..Len(wire) : wire[i].of # k  BY <1>1, <1>11 DEF WasRead, UnderWay
    <3>2. \A i \in 1..Len(wire') : wire'[i].of # k
      <4> TAKE i \in 1..Len(wire')
      <4>1. CASE i <= Len(wire)
        <5>1. i \in 1..Len(wire)  BY <4>1, <1>1
        <5> QED  BY <5>1, <1>2, <3>1
      <4>2. CASE i > Len(wire)  BY <4>2, <1>2, <1>3
      <4> QED  BY <4>1, <4>2, <1>1
    <3>3. DOMAIN wire' = 1..Len(wire')  BY <1>2
    <3> QED  BY <3>2, <3>3, <1>3 DEF UnderWay
  <2>2. WasRead(k)'  BY <2>1, <1>7, <1>8, <1>11 DEF WasRead
  <2> QED  BY <2>2 DEF Fate
<1> QED  BY <1>9, <1>10, <1>11 DEF Fate

(* The next byte of the packet being sent, or its end. *)
LEMMA SendOwn ==
  ASSUME LineInv, sending, NEW k \in Nat, k = Len(sent), Fate(k), NEW bs \in Seq(Byte),
         Codes(sent[k], PutOut(k) + 1, bs),
         wire' = wire \o Of(bs, k), PutOut(k)' = PutOut(k) + 1,
         UNCHANGED <<sent, in>>
  PROVE  Fate(k)'
<1>1. k \in 1..Len(sent) /\ k \in 1..MaxPackets
  BY SentNumber, PutOutType DEF LineInv
<1>2. wire \in Seq(Carried) /\ Len(wire) \in Nat /\ Ascending(wire, k)  BY DEF LineInv, IInv, TypeOK
<1>3. Longer(wire, wire', bs, k)  BY <1>1, <1>2, GoesBehind
<1>4. PutOut(k) \in Nat  BY <1>1, PutOutType
<1>5. ASSUME NEW next \in Nat, NEW last, NEW at, Reads(wire, k, sent[k], PutOut(k), next, last, at)
      PROVE  \E a : Reads(wire', k, sent[k], PutOut(k) + 1, next, last, a)
  <2> DEFINE p == sent[k]
             n == PutOut(k)
  <2>1. Codes(p, n + 1, bs) /\ n \in Nat /\ Reads(wire, k, p, n, next, last, at)  BY <1>4, <1>5
  <2> HIDE DEF p, n
  <2>2. \E a : Reads(wire', k, p, n + 1, next, last, a)
    BY <1>1, <1>2, <1>3, <2>1, ReadsMore
  <2> QED  BY <2>2 DEF p, n
<1>6. sent' = sent /\ slip_buf' = slip_buf /\ lastc' = lastc /\ returned' = returned  BY DEF in
<1>7. ~WasRead(k)  BY <1>1 DEF WasRead, UnderWay
<1>8. CASE Coming(k)
  <2>1. PICK at : Reads(wire, k, sent[k], PutOut(k), 0, "none", at)  BY <1>8 DEF Coming
  <2>2. PICK a : Reads(wire', k, sent[k], PutOut(k) + 1, 0, "none", a)  BY <2>1, <1>5
  <2>3. Coming(k)'  BY <2>2, <1>6, <1>8 DEF Coming, Unread
  <2> QED  BY <2>3 DEF Fate
<1>9. CASE BeingRead(k)
  <2>1. PICK at : Reads(wire, k, sent[k], PutOut(k), Len(slip_buf) + 1, lastc, at)
    BY <1>9 DEF BeingRead
  <2>2. Len(slip_buf) + 1 \in Nat  BY DEF LineInv, IInv, TypeOK
  <2>3. PICK a : Reads(wire', k, sent[k], PutOut(k) + 1, Len(slip_buf) + 1, lastc, a)
    BY <2>1, <2>2, <1>5
  <2>4. \A i \in 1..Len(wire') : wire'[i].of >= k
    <3>0. /\ wire' \in Seq(Carried) /\ \A i \in 1..Len(wire) : wire'[i] = wire[i]
          /\ \A i \in 1..Len(wire') : i > Len(wire) => wire'[i].of = k
      BY <1>3 DEF Longer
    <3> TAKE i \in 1..Len(wire')
    <3>1. CASE i <= Len(wire)
      <4>1. i \in 1..Len(wire)  BY <3>1, <1>2
      <4> QED  BY <4>1, <3>0, <1>9 DEF BeingRead
    <3>2. CASE i > Len(wire)
      <4>1. wire'[i].of = k  BY <3>2, <3>0
      <4> QED  BY <4>1
    <3> QED  BY <3>1, <3>2, <1>2
  <2>5. BeingRead(k)'  BY <2>3, <2>4, <1>6, <1>9 DEF BeingRead, Unread
  <2> QED  BY <2>5 DEF Fate
<1> QED  BY <1>7, <1>8, <1>9 DEF Fate

-------------------------------------------------------------------------------
LEMMA TailWithout ==
  ASSUME NEW w \in Seq(Carried), w # <<>>
  PROVE  /\ Tail(w) \in Seq(Carried) /\ Without(w, 1, Tail(w)) /\ Head(w) = w[1]
         /\ 1 \in 1..Len(w) /\ w[1] \in Carried /\ w[1].of \in Nat
<1>1. Len(w) \in Nat /\ Len(w) # 0  OBVIOUS
<1>2. 1 \in 1..Len(w) /\ w[1] \in Carried /\ w[1].of \in Nat  BY <1>1, Elements
<1>3. Head(w) = w[1] /\ Tail(w) \in Seq(Carried) /\ Len(Tail(w)) = Len(w) - 1  BY <1>1
<1>4. \A i \in 1..Len(Tail(w)) : Tail(w)[i] = w[i + 1]  BY <1>1, <1>3
<1>5. \A i \in 1..Len(Tail(w)) : ~(i < 1)  BY <1>1, <1>3
<1> QED  BY <1>2, <1>3, <1>4, <1>5 DEF Without

(* What is read of packet k when the next byte is not of it. *)
LEMMA TakeElse ==
  ASSUME LineInv, NEW k \in 1..Len(sent), Fate(k), wire # <<>>, wire[1].of # k, wire' = Tail(wire),
         UNCHANGED out, ~HasPartOf(slip_buf, k) => ~HasPartOf(slip_buf', k),
         returned' = returned \/ returned' = Append(returned, slip_buf)
  PROVE  Fate(k)'
<1>1. /\ wire \in Seq(Carried) /\ slip_buf \in Seq(Carried) /\ returned \in Seq(Seq(Carried))
      /\ Ascending(wire, Len(sent)) /\ Len(sent) \in Nat
  BY DEF LineInv, IInv, TypeOK
<1>2. wire' \in Seq(Carried) /\ Without(wire, 1, wire') /\ 1 \in 1..Len(wire)  BY <1>1, TailWithout
<1>3. k \in Nat /\ PutOut(k) \in Nat /\ PutOut(k)' = PutOut(k) /\ sent' = sent /\ sending' = sending
  BY PutOutType DEF PutOut, out
<1>4. ~BeingRead(k)  BY FirstOnWire DEF OnWire
<1>5. ~HasPartOf(slip_buf, k) /\ ~HasPartOf(slip_buf', k)  BY <1>4 DEF Fate, Coming, WasRead
<1>6. /\ Len(returned) \in Nat /\ Len(returned') \in Nat /\ Len(returned') >= Len(returned)
      /\ \A j \in 1..Len(returned) : returned'[j] = returned[j]
      /\ \A j \in 1..Len(returned') : j > Len(returned) => returned'[j] = slip_buf
  <2>1. CASE returned' = returned  BY <2>1, <1>1
  <2>2. CASE returned' = Append(returned, slip_buf)
    <3>1. Len(returned') = Len(returned) + 1 /\ returned'[Len(returned) + 1] = slip_buf
      BY <2>2, <1>1
    <3>2. \A j \in 1..Len(returned) : returned'[j] = returned[j]  BY <2>2, <1>1
    <3>3. Len(returned) \in Nat  BY <1>1
    <3>4. \A j \in 1..Len(returned') : j > Len(returned) => j = Len(returned) + 1  BY <3>1, <3>3
    <3> QED  BY <3>1, <3>2, <3>3, <3>4
  <2> QED  BY <2>1, <2>2
<1>7. \A j \in 1..Len(returned') : HasPartOf(returned'[j], k) <=> j <= Len(returned) /\ HasPartOf(returned[j], k)
  <2> TAKE j \in 1..Len(returned')
  <2>1. CASE j <= Len(returned)
    <3>1. j \in 1..Len(returned)  BY <2>1, <1>6
    <3> QED  BY <3>1, <2>1, <1>6
  <2>2. CASE j > Len(returned)  BY <2>2, <1>5, <1>6
  <2> QED  BY <2>1, <2>2, <1>6
<1>8. CASE Coming(k)
  <2>1. PICK at : Reads(wire, k, sent[k], PutOut(k), 0, "none", at)  BY <1>8 DEF Coming
  <2>2. PICK a : Reads(wire', k, sent[k], PutOut(k), 0, "none", a)
    BY <2>1, <1>1, <1>2, <1>3, ReadsWithout
  <2>3. Unread(k)'
    <3>1. \A j \in 1..Len(returned') : ~HasPartOf(returned'[j], k)
      <4> TAKE j \in 1..Len(returned')
      <4>1. j <= Len(returned) => j \in 1..Len(returned)  BY <1>6
      <4> QED  BY <4>1, <1>7, <1>8 DEF Coming, Unread
    <3> QED  BY <3>1 DEF Unread
  <2>4. Coming(k)'  BY <2>2, <2>3, <1>3, <1>5 DEF Coming
  <2> QED  BY <2>4 DEF Fate
<1>9. CASE WasRead(k)
  <2>1. ~UnderWay(k)'
    <3>1. ~(sending' /\ k = Len(sent'))  BY <1>3, <1>9 DEF WasRead, UnderWay
    <3>2. \A i \in 1..Len(wire) : wire[i].of # k  BY <1>1, <1>9 DEF WasRead, UnderWay
    <3>3. \A i \in 1..Len(wire') : wire'[i].of # k
      <4> TAKE i \in 1..Len(wire')
      <4>1. i + 1 \in 1..Len(wire) /\ ~(i < 1)
        <5>1. Len(wire) \in Nat  BY <1>1
        <5> QED  BY <5>1, <1>2 DEF Without
      <4> QED  BY <4>1, <3>2, <1>2 DEF Without
    <3>4. DOMAIN wire' = 1..Len(wire')  BY <1>2
    <3> QED  BY <3>1, <3>3, <3>4 DEF UnderWay
  <2>2. PICK j \in 1..Len(returned) : /\ returned[j] = Of(sent[k], k)
                                      /\ \A l \in 1..Len(returned) : HasPartOf(returned[l], k) <=> l = j
    BY <1>9 DEF WasRead
  <2>3. j \in 1..Len(returned') /\ returned'[j] = Of(sent'[k], k) /\ j <= Len(returned)
    BY <2>2, <1>3, <1>6
  <2>4. \A l \in 1..Len(returned') : HasPartOf(returned'[l], k) <=> l = j
    <3> TAKE l \in 1..Len(returned')
    <3>1. l <= Len(returned) => l \in 1..Len(returned)  BY <1>6
    <3> QED  BY <3>1, <2>2, <2>3, <1>7
  <2>5. WasRead(k)'  BY <2>1, <2>3, <2>4, <1>5 DEF WasRead
  <2> QED  BY <2>5 DEF Fate
<1> QED  BY <1>4, <1>8, <1>9 DEF Fate

(* The END before a packet: what was read of others is returned or gone.   *)
LEMMA TakeStart ==
  ASSUME LineInv, NEW k \in 1..Len(sent), Coming(k), 1 \in OnWire(wire, k), rs232dev_poll
  PROVE  BeingRead(k)'
<1>1. /\ wire \in Seq(Carried) /\ slip_buf \in Seq(Carried) /\ returned \in Seq(Seq(Carried))
      /\ Ascending(wire, Len(sent)) /\ Len(sent) \in Nat
  BY DEF LineInv, IInv, TypeOK
<1>2. k \in Nat /\ PutOut(k) \in Nat  BY PutOutType
<1>3. 1 \in 1..Len(wire) /\ wire[1].of = k  BY DEF OnWire
<1>4. wire # <<>>  BY <1>1, <1>3
<1>5. /\ Head(wire) = wire[1] /\ Tail(wire) \in Seq(Carried) /\ Without(wire, 1, Tail(wire))
  BY <1>1, <1>4, TailWithout
<1>6. PICK at : Reads(wire, k, sent[k], PutOut(k), 0, "none", at)  BY DEF Coming
<1>7. at[1] = 0 /\ \E a : Reads(Tail(wire), k, sent[k], PutOut(k),
                                IF wire[1].byte = "ESC" THEN 0 ELSE 1, wire[1].byte, a)
  <2> DEFINE next == 0
             then == IF wire[1].byte = "ESC" THEN next ELSE next + 1
             p == sent[k]
             n == PutOut(k)
             w2 == Tail(wire)
  <2>1. next \in Nat /\ n \in Nat /\ w2 \in Seq(Carried) /\ Without(wire, 1, w2)
        /\ Reads(wire, k, p, n, next, "none", at)
    BY <1>2, <1>5, <1>6
  <2> HIDE DEF next, p, n, w2
  <2>2. at[1] = next /\ \E a : Reads(w2, k, p, n, then, wire[1].byte, a)
    BY <1>1, <1>2, <2>1, ReadsNext
  <2>3. then = IF wire[1].byte = "ESC" THEN 0 ELSE 1  BY DEF next
  <2> HIDE DEF then
  <2> QED  BY <2>2, <2>3 DEF next, p, n, w2
<1>8. wire[1].byte = "END"
  <2>1. Part(sent[k], at[1], wire[1].byte)  BY <1>6 DEF Reads
  <2>2. 0 \notin 1..Len(sent[k])  BY PacketType DEF LineInv, IInv
  <2> QED  BY <2>1, <2>2, <1>7 DEF Part
<1>9. PollEnd  BY <1>5, <1>8 DEF rs232dev_poll, PollEsc, PollByte
<1>10. /\ wire' = Tail(wire) /\ lastc' = "END" /\ slip_buf' = <<>> /\ sent' = sent /\ PutOut(k)' = PutOut(k)
       /\ (returned' = returned \/ returned' = Append(returned, slip_buf))
  BY <1>9 DEF PollEnd, PollUnchanged, out, PutOut
<1>11. Unread(k)'
  <2>1. CASE returned' = returned  BY <2>1 DEF Coming, Unread
  <2>2. CASE returned' = Append(returned, slip_buf)
    <3>1. Len(returned) \in Nat /\ Len(returned') = Len(returned) + 1
          /\ returned'[Len(returned) + 1] = slip_buf
      BY <2>2, <1>1
    <3>2. \A j \in 1..Len(returned) : returned'[j] = returned[j]  BY <2>2, <1>1
    <3>3. \A j \in 1..Len(returned') : j \in 1..Len(returned) \/ j = Len(returned) + 1  BY <3>1
    <3>4. \A j \in 1..Len(returned') : ~HasPartOf(returned'[j], k)
      BY <3>1, <3>2, <3>3 DEF Coming, Unread
    <3> QED  BY <3>4 DEF Unread
  <2> QED  BY <2>1, <2>2, <1>10
<1>12. Len(slip_buf') = 0 /\ Len(slip_buf') <= Len(sent'[k])
  BY <1>10, PacketType DEF LineInv, IInv
<1>13. \A i \in 1..Len(wire') : wire'[i].of >= k
  <2> TAKE i \in 1..Len(wire')
  <2>1. Len(wire) \in Nat /\ Len(wire') = Len(wire) - 1  BY <1>1, <1>5, <1>10 DEF Without
  <2>2. i + 1 \in 1..Len(wire) /\ 1 < i + 1 /\ ~(i < 1)  BY <2>1
  <2>3. wire'[i] = wire[i + 1]  BY <2>2, <1>5, <1>10 DEF Without
  <2>4. wire[1].of <= wire[i + 1].of  BY <2>2, <1>1, <1>3 DEF Ascending
  <2>5. wire[i + 1].of \in Nat  BY <2>2, <1>1, Elements
  <2> QED  BY <2>3, <2>4, <2>5, <1>2, <1>3
<1>14. \E a : Reads(wire', k, sent'[k], PutOut(k)', Len(slip_buf') + 1, lastc', a)
  BY <1>7, <1>8, <1>10, <1>12
<1> QED  BY <1>11, <1>12, <1>13, <1>14 DEF BeingRead

(* The next byte of the packet that is being read, up to its END. *)
LEMMA TakeRead ==
  ASSUME LineInv, NEW k \in 1..Len(sent), Len(sent[k]) <= MAX_SIZE, BeingRead(k), wire # <<>>, rs232dev_poll
  PROVE  Fate(k)'
<1> DEFINE p == sent[k]
           n == PutOut(k)
           b == wire[1].byte
           next == Len(slip_buf) + 1
           w2 == Tail(wire)
<1>1. /\ wire \in Seq(Carried) /\ slip_buf \in Seq(Carried) /\ returned \in Seq(Seq(Carried))
      /\ Ascending(wire, Len(sent)) /\ Len(sent) \in Nat /\ Len(slip_buf) \in Nat /\ Len(returned) \in Nat
  BY DEF LineInv, IInv, TypeOK
<1>2. k \in Nat /\ n \in Nat /\ p \in Seq(Byte) /\ Len(p) \in Nat \ {0} /\ DOMAIN p = 1..Len(p)
  BY PutOutType, PacketType DEF LineInv, IInv
<1>3. 1 \in OnWire(wire, k)  BY FirstOnWire
<1>4. /\ Head(wire) = wire[1] /\ w2 \in Seq(Carried) /\ Without(wire, 1, w2)
      /\ wire[1] \in Carried /\ wire[1].of = k
  BY <1>1, <1>3, TailWithout DEF OnWire
<1>5. PICK at : Reads(wire, k, p, n, next, lastc, at)  BY DEF BeingRead
<1>6. /\ Unread(k) /\ Len(slip_buf) <= Len(p)
      /\ \A i \in 1..Len(slip_buf) : slip_buf[i] = [byte |-> p[i], of |-> k]
      /\ \A i \in 1..Len(wire) : wire[i].of >= k
  BY DEF BeingRead
<1>7. next \in Nat  BY <1>1
<1>8. sent' = sent /\ PutOut(k)' = n /\ wire' = w2
  BY DEF rs232dev_poll, PollEsc, PollEnd, PollByte, PollUnchanged, out, PutOut
<1>9. \A i \in 1..Len(w2) : w2[i].of >= k
  <2> TAKE i \in 1..Len(w2)
  <2>1. Len(wire) \in Nat /\ Len(w2) = Len(wire) - 1  BY <1>1, <1>4 DEF Without
  <2>2. i + 1 \in 1..Len(wire) /\ ~(i < 1)  BY <2>1
  <2>3. w2[i] = wire[i + 1]  BY <2>2, <1>4 DEF Without
  <2> QED  BY <2>2, <2>3, <1>6
<1>10. at[1] = next /\ \E a : Reads(w2, k, p, n, IF b = "ESC" THEN next ELSE next + 1, b, a)
  <2> DEFINE then == IF b = "ESC" THEN next ELSE next + 1
  <2>1. n \in Nat /\ next \in Nat /\ w2 \in Seq(Carried) /\ Without(wire, 1, w2)
        /\ Reads(wire, k, p, n, next, lastc, at)
    BY <1>2, <1>4, <1>5, <1>7
  <2> HIDE DEF p, n, next, w2
  <2>2. at[1] = next /\ \E a : Reads(w2, k, p, n, then, b, a)
    BY <1>1, <1>2, <1>3, <2>1, ReadsNext
  <2> QED  BY <2>2
<1>11. Part(p, next, b) /\ next <= n
  <2>1. at[1] \in 0..n /\ Part(p, at[1], wire[1].byte)  BY <1>3, <1>5 DEF Reads
  <2> QED  BY <2>1, <1>2, <1>10
<1>12. Second(p, next, b) <=> lastc = "ESC"
  <2>1. 1 - 1 \notin OnWire(wire, k)  BY DEF OnWire
  <2> QED  BY <2>1, <1>3, <1>5 DEF Reads
<1>13. CASE PollEsc
  <2>1. b = "ESC" /\ slip_buf' = slip_buf /\ lastc' = b /\ returned' = returned
    BY <1>4, <1>13 DEF PollEsc
  <2>2. PICK a : Reads(w2, k, p, n, next, b, a)  BY <1>10, <2>1
  <2>3. Len(slip_buf') + 1 = next  BY <2>1
  <2>4. \E c : Reads(wire', k, sent'[k], PutOut(k)', Len(slip_buf') + 1, lastc', c)
    <3> HIDE DEF p, n, b, next, w2
    <3>1. Reads(w2, k, p, n, next, b, a)  BY <2>2
    <3>2. sent'[k] = p  BY <1>8 DEF p
    <3> QED  BY <3>1, <3>2, <1>8, <2>1, <2>3
  <2>5. BeingRead(k)'  BY <2>1, <2>4, <1>6, <1>8, <1>9 DEF BeingRead, Unread
  <2> QED  BY <2>5 DEF Fate
<1>14. CASE PollEnd
  <2>1. /\ b = "END" /\ slip_buf' = <<>>
        /\ returned' = IF slip_buf = <<>> THEN returned ELSE Append(returned, slip_buf)
    BY <1>4, <1>14 DEF PollEnd
  <2>2. Len(slip_buf) = Len(p)
    <3>1. next \notin 1..Len(p)  BY <1>11, <2>1 DEF Part
    <3> QED  BY <3>1, <1>1, <1>2, <1>6
  <2>3. n = Len(p) + 1 /\ ~(sending /\ k = Len(sent))
    <3>1. n >= Len(p) + 1  BY <2>2, <1>1, <1>2, <1>11
    <3> QED  BY <3>1, <1>2, PutOutType
  <2>4. slip_buf = Of(p, k)
    <3>1. DOMAIN slip_buf = 1..Len(slip_buf) /\ slip_buf = [i \in 1..Len(slip_buf) |-> slip_buf[i]]
      BY <1>1
    <3>2. Of(p, k) = [i \in 1..Len(p) |-> [byte |-> p[i], of |-> k]]  BY <1>2 DEF Of
    <3> QED  BY <3>1, <3>2, <2>2, <1>6
  <2>5. slip_buf # <<>>  BY <2>2, <1>1, <1>2
  <2>6. HasPartOf(slip_buf, k)
    <3>1. 1 \in 1..Len(slip_buf) /\ DOMAIN slip_buf = 1..Len(slip_buf)  BY <2>2, <1>1, <1>2
    <3>2. slip_buf[1].of = k  BY <3>1, <1>6
    <3> QED  BY <3>1, <3>2 DEF HasPartOf
  <2>7. /\ Len(returned') = Len(returned) + 1 /\ returned'[Len(returned) + 1] = slip_buf
        /\ \A j \in 1..Len(returned) : returned'[j] = returned[j]
    <3>1. returned' = Append(returned, slip_buf)  BY <2>1, <2>5
    <3> QED  BY <3>1, <1>1
  <2>8. \A l \in 1..Len(returned') : HasPartOf(returned'[l], k) <=> l = Len(returned) + 1
    <3> TAKE l \in 1..Len(returned')
    <3>1. CASE l \in 1..Len(returned)
      <4>1. returned'[l] = returned[l] /\ ~HasPartOf(returned[l], k)  BY <3>1, <2>7, <1>1, <1>6 DEF Unread
      <4>2. l # Len(returned) + 1  BY <3>1, <1>1
      <4> QED  BY <4>1, <4>2
    <3>2. CASE l = Len(returned) + 1  BY <3>2, <2>6, <2>7
    <3>3. l \in 1..Len(returned) \/ l = Len(returned) + 1
      <4>1. l \in 1..Len(returned) + 1  BY <2>7
      <4>2. Len(returned) \in Nat  BY <1>1
      <4> QED  BY <4>1, <4>2
    <3> QED  BY <3>1, <3>2, <3>3
  <2>9. OnWire(w2, k) = {}
    <3> SUFFICES ASSUME NEW i \in OnWire(w2, k) PROVE FALSE  OBVIOUS
    <3>1. i \in 1..Len(w2) /\ w2[i].of = k  BY DEF OnWire
    <3>2. Len(wire) \in Nat /\ Len(w2) = Len(wire) - 1  BY <1>1, <1>4 DEF Without
    <3>3. i + 1 \in 1..Len(wire) /\ ~(i < 1) /\ 2 \in 1..Len(wire) /\ 1 <= 2 /\ 2 <= i + 1  BY <3>1, <3>2
    <3>4. i + 1 \in OnWire(wire, k)  BY <3>1, <3>3, <1>4 DEF Without, OnWire
    <3>5. 2 \in OnWire(wire, k)  BY <3>3, <3>4, <1>1, <1>2, <1>3, Together
    <3>6. 1 + 1 = 2  OBVIOUS
    <3>7. Follows(p, at[1], b, at[2], wire[2].byte) /\ at[2] \in 0..n
      BY <3>5, <3>6, <1>3, <1>5 DEF Reads
    <3>8. at[2] = next + 1  BY <3>7, <2>1, <1>10 DEF Follows
    <3> QED  BY <3>7, <3>8, <2>2, <2>3, <1>1, <1>2
  <2>10. ~UnderWay(k)'
    <3>1. ~(sending' /\ k = Len(sent'))
      BY <2>3, <1>14 DEF PollEnd, PollUnchanged, out
    <3>2. DOMAIN wire' = 1..Len(wire')  BY <1>4, <1>8
    <3> QED  BY <3>1, <3>2, <2>9, <1>8 DEF UnderWay, OnWire
  <2>11. ~HasPartOf(slip_buf', k)
    <3>1. DOMAIN slip_buf' = {}  BY <2>1
    <3> QED  BY <3>1 DEF HasPartOf
  <2>12. Len(returned) + 1 \in 1..Len(returned') /\ returned'[Len(returned) + 1] = Of(sent'[k], k)
    BY <2>4, <2>7, <1>1, <1>8
  <2>13. WasRead(k)'  BY <2>8, <2>10, <2>11, <2>12 DEF WasRead
  <2> QED  BY <2>13 DEF Fate
<1>15. CASE PollByte
  <2>1. /\ b \notin {"END", "ESC"} /\ lastc' = b /\ returned' = returned
        /\ slip_buf' \in Stored(slip_buf, [wire[1] EXCEPT !.byte = Unescaped(@)])
    BY <1>4, <1>15 DEF PollByte
  <2>2. next \in 1..Len(p)  BY <1>11, <2>1 DEF Part
  <2>3. Unescaped(b) = p[next]
    <3>1. CASE lastc = "ESC"
      <4>1. p[next] \in {"END", "ESC"}  BY <3>1, <1>12 DEF Second
      <4>2. /\ p[next] = "END" => b = "ESC_END"
            /\ p[next] = "ESC" => b = "ESC_ESC"
        BY <1>11, <2>1, <2>2 DEF Part
      <4> QED  BY <3>1, <4>1, <4>2 DEF Unescaped
    <3>2. CASE lastc # "ESC"
      <4>1. p[next] \notin {"END", "ESC"}  BY <3>2, <1>12, <2>1, <2>2 DEF Second
      <4>2. b = p[next]  BY <4>1, <1>11, <2>2 DEF Part
      <4> QED  BY <3>2, <4>2 DEF Unescaped
    <3> QED  BY <3>1, <3>2
  <2>4. [wire[1] EXCEPT !.byte = Unescaped(@)] = [byte |-> p[next], of |-> k]
    <3>1. wire[1] = [byte |-> b, of |-> k]  BY <1>4 DEF Carried
    <3> QED  BY <3>1, <2>3
  <2>5. slip_buf' = Append(slip_buf, [byte |-> p[next], of |-> k])
    <3>1. Len(slip_buf) < MAX_SIZE  BY <2>2, <1>1, <1>2, LineAssumption
    <3> QED  BY <3>1, <2>1, <2>4 DEF Stored
  <2>6. Len(slip_buf') = next /\ slip_buf'[next] = [byte |-> p[next], of |-> k]
        /\ \A i \in 1..Len(slip_buf) : slip_buf'[i] = slip_buf[i]
    <3> DEFINE c == [byte |-> p[next], of |-> k]
    <3>1. slip_buf' = Append(slip_buf, c)  BY <2>5
    <3> HIDE DEF c
    <3>2. Len(slip_buf') = next /\ slip_buf'[next] = c
          /\ \A i \in 1..Len(slip_buf) : slip_buf'[i] = slip_buf[i]
      BY <3>1, <1>1
    <3> QED  BY <3>2 DEF c
  <2>7. \A i \in 1..Len(slip_buf') : slip_buf'[i] = [byte |-> sent'[k][i], of |-> k]
    <3> TAKE i \in 1..Len(slip_buf')
    <3>1. CASE i \in 1..Len(slip_buf)  BY <3>1, <2>6, <1>6, <1>8
    <3>2. CASE i = next  BY <3>2, <2>6, <1>8
    <3> QED  BY <3>1, <3>2, <2>6, <1>1
  <2>8. PICK a : Reads(w2, k, p, n, next + 1, b, a)  BY <1>10, <2>1
  <2>9. \E c : Reads(wire', k, sent'[k], PutOut(k)', Len(slip_buf') + 1, lastc', c)
    <3> HIDE DEF p, n, b, next, w2
    <3>1. Reads(w2, k, p, n, next + 1, b, a)  BY <2>8
    <3>2. sent'[k] = p  BY <1>8 DEF p
    <3> QED  BY <3>1, <3>2, <1>8, <2>1, <2>6
  <2>10. Len(slip_buf') <= Len(sent'[k])  BY <2>2, <2>6, <1>8
  <2>11. Unread(k)'  BY <2>1, <1>6 DEF Unread
  <2>12. BeingRead(k)'  BY <2>7, <2>9, <2>10, <2>11, <1>8, <1>9 DEF BeingRead
  <2> QED  BY <2>12 DEF Fate
<1> QED  BY <1>13, <1>14, <1>15 DEF rs232dev_poll

(* What rs232dev_poll has done to slip_buf and to the packets returned.    *)
LEMMA StoredFrom ==
  ASSUME TypeOK, NEW b \in Carried, NEW buf \in Stored(slip_buf, b)
  PROVE  \A i \in 1..Len(buf) : buf[i] = b \/ \E j \in 1..Len(slip_buf) : buf[i] = slip_buf[j]
<1>1. slip_buf \in Seq(Carried) /\ Len(slip_buf) \in Nat /\ Len(slip_buf) <= MAX_SIZE /\ MAX_SIZE \in Nat
  BY LineAssumption DEF TypeOK
<1>2. CASE Len(slip_buf) < MAX_SIZE
  <2>1. buf = Append(slip_buf, b)  BY <1>2 DEF Stored
  <2>2. Len(buf) = Len(slip_buf) + 1 /\ buf[Len(slip_buf) + 1] = b
        /\ \A i \in 1..Len(slip_buf) : buf[i] = slip_buf[i]
    BY <2>1, <1>1
  <2>3. \A i \in 1..Len(buf) : i \in 1..Len(slip_buf) \/ i = Len(slip_buf) + 1  BY <2>2, <1>1
  <2> QED  BY <2>2, <2>3
<1>3. CASE ~(Len(slip_buf) < MAX_SIZE)
  <2>1. PICK l \in 0..MAX_SIZE : buf = SubSeq(slip_buf, 1, l)  BY <1>3 DEF Stored
  <2>2. Len(slip_buf) = MAX_SIZE /\ l \in Nat  BY <1>1, <1>3
  <2>3. \A j \in 1..l : j \in 1..Len(slip_buf)  BY <2>2
  <2>4. Len(buf) = l /\ \A i \in 1..l : buf[i] = slip_buf[i]  BY <1>1, <2>1, <2>2
  <2> QED  BY <2>3, <2>4
<1> QED  BY <1>2, <1>3

LEMMA PollTakes ==
  ASSUME LineInv, rs232dev_poll
  PROVE  /\ wire # <<>> /\ wire' = Tail(wire) /\ UNCHANGED <<out, hurt>>
         /\ returned' = returned \/ returned' = Append(returned, slip_buf)
         /\ slip_buf' \in Seq(Carried)
         /\ \A i \in 1..Len(slip_buf') : \/ slip_buf'[i].of = wire[1].of
                                         \/ \E j \in 1..Len(slip_buf) : slip_buf'[i].of = slip_buf[j].of
<1>1. wire # <<>> /\ wire' = Tail(wire) /\ UNCHANGED <<out, hurt>>
  BY DEF rs232dev_poll, PollEsc, PollEnd, PollByte, PollUnchanged
<1>2. TypeOK /\ wire \in Seq(Carried) /\ slip_buf \in Seq(Carried)  BY DEF LineInv, IInv, TypeOK
<1>3. Head(wire) = wire[1] /\ wire[1] \in Carried  BY <1>1, <1>2, TailWithout
<1>4. CASE PollEsc
  <2>1. slip_buf' = slip_buf /\ returned' = returned  BY <1>4 DEF PollEsc
  <2> QED  BY <1>1, <1>2, <2>1
<1>5. CASE PollEnd
  <2>1. slip_buf' = <<>> /\ (returned' = returned \/ returned' = Append(returned, slip_buf))
    BY <1>5 DEF PollEnd
  <2>2. Len(slip_buf') = 0 /\ slip_buf' \in Seq(Carried)  BY <2>1
  <2> QED  BY <1>1, <2>1, <2>2
<1>6. CASE PollByte
  <2> DEFINE b == [wire[1] EXCEPT !.byte = Unescaped(@)]
  <2>1. slip_buf' \in Stored(slip_buf, b) /\ returned' = returned  BY <1>3, <1>6 DEF PollByte
  <2>2. wire[1].byte \in Byte  BY <1>3 DEF Carried
  <2>3. Unescaped(wire[1].byte) \in Byte  BY <2>2, UnescapedType
  <2>4. b \in Carried /\ b.of = wire[1].of  BY <1>3, <2>3 DEF Carried
  <2> HIDE DEF b
  <2>5. slip_buf' \in Seq(Carried)  BY <1>2, <2>1, <2>4, StoredType
  <2>6. \A i \in 1..Len(slip_buf') : slip_buf'[i] = b \/ \E j \in 1..Len(slip_buf) : slip_buf'[i] = slip_buf[j]
    BY <1>2, <2>1, <2>4, StoredFrom
  <2> QED  BY <1>1, <2>1, <2>4, <2>5, <2>6
<1> QED  BY <1>4, <1>5, <1>6 DEF rs232dev_poll

(***************************************************************************)
(* The order of the bytes.                                                 *)
(***************************************************************************)
Ordered == Ascending(wire, Len(sent)) /\ NothingNew /\ LeftOver

LEMMA AscendingLonger ==
  ASSUME NEW w \in Seq(Carried), NEW n \in Nat, NEW m \in Nat, n <= m, Ascending(w, n),
         NEW w2, NEW bs \in Seq(Byte), Longer(w, w2, bs, m)
  PROVE  Ascending(w2, m)
<1>1. /\ Len(w) \in Nat /\ w2 \in Seq(Carried) /\ Len(w2) \in Nat
      /\ \A i \in 1..Len(w) : w2[i] = w[i] /\ w[i].of \in Nat /\ w[i].of <= n
      /\ \A i \in 1..Len(w2) : i > Len(w) => w2[i].of = m
  BY Elements DEF Longer, Ascending
<1>2. \A i \in 1..Len(w2) : i \in 1..Len(w) \/ (i \notin 1..Len(w) /\ i > Len(w) /\ w2[i].of = m)  BY <1>1
<1>3. \A i \in 1..Len(w2) : w2[i].of <= m  BY <1>1, <1>2
<1>4. \A i, j \in 1..Len(w2) : i < j => w2[i].of <= w2[j].of
  <2> SUFFICES ASSUME NEW i \in 1..Len(w2), NEW j \in 1..Len(w2), i < j PROVE w2[i].of <= w2[j].of
    OBVIOUS
  <2>1. CASE j \in 1..Len(w)
    <3>1. i \in 1..Len(w)  BY <2>1, <1>1
    <3>2. w[i].of <= w[j].of  BY <2>1, <3>1 DEF Ascending
    <3> QED  BY <2>1, <3>1, <3>2, <1>1
  <2>2. CASE j \notin 1..Len(w)
    <3>1. w2[j].of = m  BY <2>2, <1>2
    <3> QED  BY <3>1, <1>3
  <2> QED  BY <2>1, <2>2
<1> QED  BY <1>3, <1>4 DEF Ascending

LEMMA OrderSend == LineInv /\ rs232dev_send => Ordered'
<1> SUFFICES ASSUME LineInv, rs232dev_send PROVE Ordered'
  OBVIOUS
<1>1. /\ wire \in Seq(Carried) /\ sent \in Seq(Packets) /\ Len(sent) \in Nat /\ Len(sent) <= MaxPackets
      /\ MaxPackets \in Nat /\ left \in Seq(Byte) /\ Len(left) \in Nat
  BY LineAssumption DEF LineInv, IInv, TypeOK
<1>2. slip_buf' = slip_buf /\ returned' = returned
  BY DEF rs232dev_send, SendStart, SendByte, SendEnd, SendUnchanged, in
<1>3. "END" \in Byte /\ <<"END">> \in Seq(Byte)  BY DEF Byte, Special
<1>4. slip_buf \in Seq(Carried) /\ returned \in Seq(Seq(Carried))  BY DEF LineInv, IInv, TypeOK
<1>5. ASSUME Len(sent') \in Nat, Len(sent') >= Len(sent)
      PROVE  NothingNew'
  <2>1. \A i \in 1..Len(slip_buf) : slip_buf[i].of \in Nat /\ slip_buf[i].of <= Len(sent)
    BY <1>1, <1>4, Elements DEF LineInv, NothingNew
  <2>2. \A j \in 1..Len(returned) : \A i \in 1..Len(returned[j]) :
           returned[j][i].of \in Nat /\ returned[j][i].of <= Len(sent)
    <3> TAKE j \in 1..Len(returned)
    <3>1. returned[j] \in Seq(Carried)  BY <1>4
    <3> QED  BY <1>1, <3>1, Elements DEF LineInv, NothingNew
  <2>3. ~\E i \in 1..Len(slip_buf') : slip_buf'[i].of > Len(sent')  BY <1>1, <1>2, <1>5, <2>1
  <2>4. \A j \in 1..Len(returned') : ~\E i \in 1..Len(returned'[j]) : returned'[j][i].of > Len(sent')
    <3> TAKE j \in 1..Len(returned')
    <3>1. j \in 1..Len(returned) /\ returned'[j] = returned[j]  BY <1>2
    <3>2. \A i \in 1..Len(returned[j]) : returned[j][i].of \in Nat /\ returned[j][i].of <= Len(sent)
      BY <2>2, <3>1
    <3>3. ~\E i \in 1..Len(returned[j]) : returned[j][i].of > Len(sent')  BY <3>2, <1>1, <1>5
    <3> QED  BY <3>1, <3>3
  <2> QED  BY <2>3, <2>4 DEF NothingNew
<1>6. CASE SendStart
  <2> DEFINE m == Len(sent) + 1
  <2>1. PICK p \in Packets : sent' = Append(sent, p) /\ left' = p  BY <1>6 DEF SendStart
  <2>2. Len(sent') = m /\ sent'[m] = p /\ p \in Seq(Byte) /\ Len(p) \in Nat
    BY <2>1, <1>1, LineAssumption
  <2>3. m \in 1..MaxPackets /\ m \in Nat /\ Len(sent) <= m  BY <1>1, <1>6 DEF SendStart
  <2>4. wire' = wire \o Of(<<"END">>, m)  BY <1>6 DEF SendStart, Put
  <2> HIDE DEF m
  <2>5. Longer(wire, wire', <<"END">>, m)  BY <2>3, <2>4, <1>1, <1>3, GoesBehind
  <2>6. Ascending(wire', m)  BY <2>3, <2>5, <1>1, <1>3, AscendingLonger DEF LineInv
  <2>7. LeftOver'
    <3>1. Len(left') = Len(sent'[Len(sent')]) /\ left' = sent'[Len(sent')] /\ Len(left') \in Nat
      BY <2>1, <2>2
    <3>2. \A j \in 1..Len(left') : Len(sent'[Len(sent')]) - Len(left') + j = j  BY <3>1
    <3> QED  BY <3>1, <3>2 DEF LeftOver
  <2> QED  BY <1>5, <2>2, <2>3, <2>6, <2>7, <1>1 DEF Ordered
<1>7. CASE SendByte \/ SendEnd
  <2> DEFINE m == Len(sent)
  <2>1. sending /\ sent' = sent  BY <1>7 DEF SendByte, SendEnd
  <2>2. m \in 1..MaxPackets /\ m \in Nat /\ m <= m  BY <2>1, SentNumber, <1>1 DEF LineInv
  <2>3. PICK bs \in Seq(Byte) : wire' = wire \o Of(bs, m)
    <3>1. CASE SendByte
      <4>1. Head(left) \in Byte  BY <3>1, TailType, <1>1 DEF SendByte
      <4>2. Escaped(Head(left)) \in Seq(Byte)  BY <4>1, EscapedType
      <4> QED  BY <3>1, <4>2 DEF SendByte, Put
    <3>2. CASE SendEnd  BY <3>2, <1>3 DEF SendEnd, Put
    <3> QED  BY <3>1, <3>2, <1>7
  <2>4. Ascending(wire', m)
    <3> HIDE DEF m
    <3>1. Longer(wire, wire', bs, m)  BY <2>2, <2>3, <1>1, GoesBehind
    <3>2. Ascending(wire, m)  BY DEF LineInv, m
    <3> QED  BY <3>1, <3>2, <2>2, <1>1, AscendingLonger
  <2>5. LeftOver'
    <3>1. CASE SendByte
      <4> DEFINE p == sent[m]
      <4>1. left # <<>> /\ left' = Tail(left) /\ sent' = sent  BY <3>1 DEF SendByte
      <4>2. Len(left') = Len(left) - 1 /\ \A j \in 1..Len(left') : left'[j] = left[j + 1]
        BY <4>1, <1>1
      <4>3. Len(left) <= Len(p) /\ \A j \in 1..Len(left) : left[j] = p[Len(p) - Len(left) + j]
        BY <2>1 DEF LineInv, LeftOver
      <4>4. Len(p) \in Nat  BY <2>2, PacketType DEF LineInv, IInv
      <4> HIDE DEF p
      <4>5. \A j \in 1..Len(left') : j + 1 \in 1..Len(left)
              /\ Len(p) - Len(left) + (j + 1) = Len(p) - Len(left') + j
        BY <4>2, <4>4, <1>1
      <4>6. Len(left') <= Len(p)  BY <4>2, <4>3, <4>4, <1>1
      <4>7. \A j \in 1..Len(left') : left'[j] = p[Len(p) - Len(left') + j]
        BY <4>2, <4>3, <4>5
      <4> QED  BY <4>1, <4>6, <4>7 DEF LeftOver, p
    <3>2. CASE SendEnd  BY <3>2 DEF SendEnd, LeftOver
    <3> QED  BY <3>1, <3>2, <1>7
  <2> QED  BY <1>5, <2>1, <2>2, <2>4, <2>5 DEF Ordered
<1> QED  BY <1>6, <1>7 DEF rs232dev_send

(* What rs232dev_poll reads was sent. *)
LEMMA OrderPoll == LineInv /\ rs232dev_poll => Ordered'
<1> SUFFICES ASSUME LineInv, rs232dev_poll PROVE Ordered'
  OBVIOUS
<1>1. /\ wire \in Seq(Carried) /\ slip_buf \in Seq(Carried) /\ returned \in Seq(Seq(Carried))
      /\ Len(sent) \in Nat /\ Ascending(wire, Len(sent))
  BY DEF LineInv, IInv, TypeOK
<1>2. /\ wire # <<>> /\ wire' = Tail(wire) /\ sent' = sent /\ sending' = sending /\ left' = left
      /\ (returned' = returned \/ returned' = Append(returned, slip_buf))
  BY PollTakes DEF out
<1>3. Without(wire, 1, wire') /\ wire' \in Seq(Carried) /\ 1 \in 1..Len(wire)
  BY <1>1, <1>2, TailWithout
<1>4. Ascending(wire', Len(sent'))  BY <1>1, <1>2, <1>3, AscendingWithout
<1>5. ~\E i \in 1..Len(slip_buf') : slip_buf'[i].of > Len(sent')
  <2> SUFFICES ASSUME NEW i \in 1..Len(slip_buf') PROVE ~(slip_buf'[i].of > Len(sent))
    BY <1>2
  <2>1. wire[1].of \in Nat /\ wire[1].of <= Len(sent)  BY <1>1, <1>3, Elements DEF Ascending
  <2>2. CASE slip_buf'[i].of = wire[1].of  BY <2>1, <2>2, <1>1
  <2>3. CASE \E j \in 1..Len(slip_buf) : slip_buf'[i].of = slip_buf[j].of
    BY <2>3 DEF LineInv, NothingNew
  <2> QED  BY <2>2, <2>3, PollTakes
<1>6. \A j \in 1..Len(returned') : ~\E i \in 1..Len(returned'[j]) : returned'[j][i].of > Len(sent')
  <2>1. CASE returned' = returned  BY <2>1, <1>2 DEF LineInv, NothingNew
  <2>2. CASE returned' = Append(returned, slip_buf)
    <3>1. Len(returned) \in Nat /\ Len(returned') = Len(returned) + 1
          /\ returned'[Len(returned) + 1] = slip_buf
      BY <2>2, <1>1
    <3>2. \A j \in 1..Len(returned) : returned'[j] = returned[j]  BY <2>2, <1>1
    <3>3. \A j \in 1..Len(returned') : j \in 1..Len(returned) \/ j = Len(returned) + 1  BY <3>1
    <3> QED  BY <3>1, <3>2, <3>3, <1>2 DEF LineInv, NothingNew
  <2> QED  BY <2>1, <2>2, <1>2
<1>7. LeftOver'  BY <1>2 DEF LineInv, LeftOver
<1> QED  BY <1>4, <1>5, <1>6, <1>7 DEF Ordered, NothingNew

(* A byte of the line is lost, or damaged. *)
LEMMA LoseWithout ==
  ASSUME NEW w \in Seq(Carried), NEW j \in DOMAIN w
  PROVE  Without(w, j, RemoveAt(w, j)) /\ RemoveAt(w, j) \in Seq(Carried)
<1> DEFINE a == SubSeq(w, 1, j - 1)
           b == SubSeq(w, j + 1, Len(w))
<1>1. j \in 1..Len(w) /\ Len(w) \in Nat /\ j \in Nat  OBVIOUS
<1>2. a \in Seq(Carried) /\ Len(a) = j - 1 /\ \A i \in 1..(j - 1) : a[i] = w[i]
  <2>1. \A i \in 1..(j - 1) : i \in 1..Len(w)  BY <1>1
  <2> QED  BY <1>1, <2>1
<1>3. b \in Seq(Carried) /\ Len(b) = Len(w) - j /\ \A i \in 1..(Len(w) - j) : b[i] = w[j + i]
  <2>1. CASE j < Len(w)
    <3>1. \A i \in (j + 1)..Len(w) : i \in 1..Len(w)  BY <1>1
    <3>2. b \in Seq(Carried) /\ Len(b) = Len(w) - j  BY <1>1, <2>1, <3>1
    <3>3. \A i \in 1..(Len(w) - j) : b[i] = w[(j + 1) + i - 1]  BY <1>1, <2>1, <3>1, SubSeqProperties
    <3>4. \A i \in 1..(Len(w) - j) : (j + 1) + i - 1 = j + i  BY <1>1
    <3> HIDE DEF b
    <3> QED  BY <3>2, <3>3, <3>4
  <2>2. CASE j = Len(w)
    <3>1. b = <<>>  BY <1>1, <2>2
    <3>2. Len(w) - j = 0 /\ 1..0 = {}  BY <1>1, <2>2
    <3> HIDE DEF b
    <3>3. b \in Seq(Carried) /\ Len(b) = 0  BY <3>1
    <3> QED  BY <3>2, <3>3
  <2> QED  BY <1>1, <2>1, <2>2
<1> HIDE DEF a, b
<1> DEFINE r == a \o b
<1>4. RemoveAt(w, j) = r  BY DEF RemoveAt, a, b
<1>5. a \in Seq(Carried) /\ b \in Seq(Carried)  BY <1>2, <1>3
<1>5a. r \in Seq(Carried) /\ Len(r) = Len(a) + Len(b)  BY <1>5
<1>6. \A i \in 1..Len(r) : r[i] = IF i <= Len(a) THEN a[i] ELSE b[i - Len(a)]  BY <1>5
<1> HIDE DEF r
<1>7. Len(r) = Len(w) - 1  BY <1>1, <1>2, <1>3, <1>5a
<1>8. \A i \in 1..Len(r) : r[i] = IF i < j THEN w[i] ELSE w[i + 1]
  <2> TAKE i \in 1..Len(r)
  <2>1. CASE i < j
    <3>1. i <= Len(a) /\ i \in 1..(j - 1)  BY <1>1, <1>2, <1>7, <2>1
    <3> QED  BY <3>1, <2>1, <1>2, <1>6
  <2>2. CASE ~(i < j)
    <3>1. ~(i <= Len(a)) /\ i - Len(a) \in 1..(Len(w) - j) /\ j + (i - Len(a)) = i + 1
      BY <1>1, <1>2, <1>7, <2>2
    <3> QED  BY <3>1, <2>2, <1>3, <1>6
  <2> QED  BY <2>1, <2>2
<1> QED  BY <1>4, <1>5a, <1>7, <1>8 DEF Without

LEMMA DamageSame ==
  ASSUME NEW w \in Seq(Carried), NEW j \in DOMAIN w, NEW b \in Byte, NEW w2, w2 = [w EXCEPT ![j].byte = b]
  PROVE  /\ w2 \in Seq(Carried) /\ Len(w2) = Len(w)
         /\ \A i \in 1..Len(w) : w2[i].of = w[i].of /\ (i # j => w2[i] = w[i])
<1>1. w[j] \in Carried /\ DOMAIN w = 1..Len(w) /\ Len(w) \in Nat  OBVIOUS
<1> DEFINE c == [w[j] EXCEPT !.byte = b]
<1>2. c \in Carried /\ c.of = w[j].of  BY <1>1 DEF Carried
<1>3. w2 = [w EXCEPT ![j] = c]  OBVIOUS
<1> HIDE DEF c
<1>4. w2 \in Seq(Carried) /\ Len(w2) = Len(w) /\ w2[j] = c  BY <1>1, <1>2, <1>3
<1>5. \A i \in 1..Len(w) : i # j => w2[i] = w[i]  BY <1>1, <1>3
<1> QED  BY <1>2, <1>4, <1>5

LEMMA OrderLine == LineInv /\ (rs232dev_init \/ Lose \/ Damage \/ UNCHANGED vars) => Ordered'
<1> SUFFICES ASSUME LineInv, rs232dev_init \/ Lose \/ Damage \/ UNCHANGED vars PROVE Ordered'
  OBVIOUS
<1>1. wire \in Seq(Carried) /\ Len(wire) \in Nat /\ Len(sent) \in Nat /\ Ascending(wire, Len(sent))
  BY DEF LineInv, IInv, TypeOK
<1>2. sent' = sent /\ sending' = sending /\ left' = left /\ returned' = returned
      /\ (slip_buf' = slip_buf \/ slip_buf' = <<>>)
  BY DEF rs232dev_init, Lose, Damage, vars, out, in
<1>3. NothingNew'
  <2>1. CASE slip_buf' = slip_buf  BY <1>2, <2>1 DEF LineInv, NothingNew
  <2>2. CASE slip_buf' = <<>>
    <3>1. 1..Len(slip_buf') = {}  BY <2>2
    <3> QED  BY <1>2, <3>1 DEF LineInv, NothingNew
  <2> QED  BY <1>2, <2>1, <2>2
<1>4. LeftOver'  BY <1>2 DEF LineInv, LeftOver
<1>5. Ascending(wire', Len(sent))
  <2>1. CASE rs232dev_init
    <3>1. wire' = wire \/ wire' = <<>>  BY <2>1, Zenon DEF rs232dev_init
    <3>2. CASE wire' = wire  BY <3>2, <1>1
    <3>3. CASE wire' = <<>>
      <4>1. 1..Len(wire') = {}  BY <3>3
      <4> QED  BY <4>1 DEF Ascending
    <3> QED  BY <3>1, <3>2, <3>3
  <2>2. CASE Lose
    <3>1. PICK j \in DOMAIN wire : wire' = RemoveAt(wire, j)  BY <2>2 DEF Lose
    <3>2. Without(wire, j, wire') /\ wire' \in Seq(Carried) /\ j \in 1..Len(wire)
      BY <3>1, <1>1, LoseWithout
    <3> QED  BY <3>2, <1>1, AscendingWithout
  <2>3. CASE Damage
    <3>1. PICK j \in DOMAIN wire, b \in Byte : wire' = [wire EXCEPT ![j].byte = b]  BY <2>3 DEF Damage
    <3>2. Len(wire') = Len(wire) /\ \A i \in 1..Len(wire) : wire'[i].of = wire[i].of
      BY <3>1, <1>1, DamageSame
    <3> QED  BY <3>2, <1>1 DEF Ascending
  <2>4. CASE UNCHANGED vars  BY <2>4, <1>1 DEF vars
  <2> QED  BY <2>1, <2>2, <2>3, <2>4
<1> QED  BY <1>2, <1>3, <1>4, <1>5 DEF Ordered

(***************************************************************************)
(* The fate of every packet, action by action.                             *)
(***************************************************************************)
LEMMA SoundSame ==
  ASSUME NEW k, Sound(k)', hurt \subseteq hurt', sent'[k] = sent[k]
  PROVE  Sound(k)
BY DEF Sound

LEMMA FateSend == LineInv /\ rs232dev_send => Fates'
<1> SUFFICES ASSUME LineInv, rs232dev_send, NEW k \in 1..Len(sent'), Sound(k)' PROVE Fate(k)'
  BY DEF Fates
<1>1. /\ wire \in Seq(Carried) /\ sent \in Seq(Packets) /\ Len(sent) \in Nat /\ Len(sent) <= MaxPackets
      /\ MaxPackets \in Nat /\ left \in Seq(Byte) /\ Len(left) \in Nat
      /\ slip_buf \in Seq(Carried) /\ returned \in Seq(Seq(Carried))
  BY LineAssumption DEF LineInv, IInv, TypeOK
<1>2. UNCHANGED in /\ hurt' = hurt
  BY DEF rs232dev_send, SendStart, SendByte, SendEnd, SendUnchanged
<1>3. <<"END">> \in Seq(Byte)  BY DEF Byte, Special
<1>4. CASE SendStart
  <2>0. PICK m \in Nat : m = Len(sent) + 1  BY <1>1
  <2>1. PICK p \in Packets : sent' = Append(sent, p) /\ left' = p  BY <1>4 DEF SendStart
  <2>2. Len(sent') = m /\ sent'[m] = p /\ p \in Seq(Byte) /\ Len(p) \in Nat
        /\ \A i \in 1..Len(sent) : sent'[i] = sent[i]
    BY <2>0, <2>1, <1>1, LineAssumption
  <2>3. m \in 1..MaxPackets /\ m \in Nat /\ m > Len(sent) /\ ~sending /\ sending'
    BY <2>0, <1>1, <1>4 DEF SendStart
  <2>4. wire' = wire \o Of(<<"END">>, m)  BY <2>0, <1>4 DEF SendStart, Put
  <2>5. k \in 1..Len(sent) \/ k = m  BY <2>0, <2>2, <1>1
  <2>6. CASE k \in 1..Len(sent)
    <3>1. sent'[k] = sent[k] /\ k < m  BY <2>0, <2>2, <2>6, <1>1
    <3>2. Fate(k)  BY <3>1, <2>6, <1>2, SoundSame DEF LineInv, Fates
    <3> QED  BY <3>1, <3>2, <2>2, <2>3, <2>4, <2>6, <1>2, <1>3, SendElse
  <2>7. CASE k = m
    <3>1. \A i \in 1..Len(wire) : wire[i].of # m
      BY <2>3, <1>1, Elements DEF LineInv, Ascending
    <3>2. Longer(wire, wire', <<"END">>, m)  BY <2>3, <2>4, <1>1, <1>3, GoesBehind
    <3>3. /\ wire' \in Seq(Carried) /\ Len(wire') = Len(wire) + 1 /\ Len(wire) \in Nat
          /\ \A i \in 1..Len(wire) : wire'[i] = wire[i]
          /\ wire'[Len(wire) + 1].byte = "END" /\ wire'[Len(wire) + 1].of = m
      <4> DEFINE bs == <<"END">>
      <4>1. Len(bs) = 1 /\ bs[1] = "END" /\ 1 \in 1..Len(bs)  OBVIOUS
      <4>2. Longer(wire, wire', bs, m)  BY <3>2
      <4> HIDE DEF bs
      <4>3. /\ wire' \in Seq(Carried) /\ Len(wire') = Len(wire) + 1 /\ Len(wire) \in Nat
            /\ \A i \in 1..Len(wire) : wire'[i] = wire[i]
            /\ wire'[Len(wire) + 1].byte = "END"
            /\ \A i \in 1..Len(wire') : i > Len(wire) => wire'[i].of = m
        BY <4>1, <4>2, <1>1 DEF Longer
      <4>4. Len(wire) + 1 \in 1..Len(wire') /\ Len(wire) + 1 > Len(wire)  BY <4>3
      <4> QED  BY <4>3, <4>4
    <3>4. OnWire(wire', m) = {Len(wire) + 1}
      <4>1. \A i \in 1..Len(wire') : i \in 1..Len(wire) \/ i = Len(wire) + 1  BY <3>3
      <4>2. Len(wire) + 1 \in 1..Len(wire')  BY <3>3
      <4> QED  BY <4>1, <4>2, <3>1, <3>3 DEF OnWire
    <3>5. PutOut(m)' = 0
      <4>1. PutOut(m)' = Len(sent'[m]) - Len(left')  BY <2>2, <2>3 DEF PutOut
      <4> QED  BY <4>1, <2>1, <2>2
    <3>6. 0 \notin 1..Len(sent'[m])  BY <2>2
    <3>7. Reads(wire', m, sent'[m], PutOut(m)', 0, "none", [i \in Nat |-> 0])
      <4> DEFINE at == [i \in Nat |-> 0]
                 l == Len(wire) + 1
                 q == sent'[m]
      <4>1. at[l] = 0 /\ l \in Nat  BY <3>3
      <4>2. l + 1 # l /\ l - 1 # l  BY <4>1
      <4>3. OnWire(wire', m) = {l} /\ wire'[l].byte = "END" /\ 0 \notin 1..Len(q) /\ 0 \in 0..0
        BY <3>3, <3>4, <3>6
      <4> HIDE DEF at, l, q
      <4>4. Reads(wire', m, q, 0, 0, "none", at)  BY <4>1, <4>2, <4>3 DEF Reads, Part, Second
      <4> QED  BY <4>4, <3>5 DEF at, q
    <3>8. Unread(m)' /\ ~HasPartOf(slip_buf', m)
      <4>1. slip_buf' = slip_buf /\ returned' = returned  BY <1>2 DEF in
      <4>2. \A i \in 1..Len(slip_buf) : slip_buf[i].of # m
        BY <2>3, <1>1, Elements DEF LineInv, NothingNew
      <4>3. \A j \in 1..Len(returned) : ~HasPartOf(returned[j], m)
        <5> TAKE j \in 1..Len(returned)
        <5>1. returned[j] \in Seq(Carried)  BY <1>1
        <5>2. \A i \in 1..Len(returned[j]) : returned[j][i].of # m
          BY <2>3, <1>1, <5>1, Elements DEF LineInv, NothingNew
        <5> QED  BY <5>1, <5>2, Elements DEF HasPartOf
      <4>4. ~HasPartOf(slip_buf, m)  BY <4>2, <1>1, Elements DEF HasPartOf
      <4> QED  BY <4>1, <4>3, <4>4 DEF Unread
    <3>9. Coming(m)'  BY <3>7, <3>8 DEF Coming
    <3> QED  BY <3>9, <2>7 DEF Fate
  <2> QED  BY <2>5, <2>6, <2>7
<1>5. CASE SendByte \/ SendEnd
  <2>0. PICK m \in Nat : m = Len(sent)  BY <1>1
  <2>1. sending /\ sent' = sent  BY <1>5 DEF SendByte, SendEnd
  <2>2. m \in 1..MaxPackets /\ m \in Nat /\ m \in 1..Len(sent)  BY <2>0, <2>1, SentNumber, <1>1 DEF LineInv
  <2>3. Sound(k) /\ Fate(k)  BY <2>1, <1>2, SoundSame DEF LineInv, Fates
  <2>4. k \in 1..Len(sent) /\ sent'[k] = sent[k]  BY <2>1
  <2>5. sent[m] \in Seq(Byte) /\ Len(sent[m]) \in Nat  BY <2>2, PacketType DEF LineInv, IInv
  <2>6. Len(left) <= Len(sent[m]) /\ \A j \in 1..Len(left) : left[j] = sent[m][Len(sent[m]) - Len(left) + j]
    BY <2>0, <2>1 DEF LineInv, LeftOver
  <2>7. PutOut(m) = Len(sent[m]) - Len(left)  BY <2>0, <2>1 DEF PutOut
  <2>8. PICK bs \in Seq(Byte) : /\ wire' = wire \o Of(bs, m) /\ Codes(sent[m], PutOut(m) + 1, bs)
                                /\ PutOut(m)' = PutOut(m) + 1
    <3>1. CASE SendByte
      <4>1. left # <<>> /\ left' = Tail(left) /\ sending' = sending  BY <3>1 DEF SendByte
      <4>2. Head(left) \in Byte /\ Head(left) = left[1] /\ Len(left') = Len(left) - 1 /\ 1 \in 1..Len(left)
        BY <4>1, <1>1
      <4>3. Escaped(Head(left)) \in Seq(Byte) /\ wire' = wire \o Of(Escaped(Head(left)), m)
        BY <2>0, <4>2, <3>1, EscapedType DEF SendByte, Put
      <4>4. PutOut(m) + 1 \in 1..Len(sent[m]) /\ Head(left) = sent[m][PutOut(m) + 1]
        <5>1. PutOut(m) + 1 = Len(sent[m]) - Len(left) + 1  BY <2>7
        <5> QED  BY <5>1, <4>2, <2>5, <2>6, <1>1
      <4>5. Codes(sent[m], PutOut(m) + 1, Escaped(Head(left)))  BY <4>4, <2>5, EscapedCodes
      <4>6. PutOut(m)' = PutOut(m) + 1
        <5>1. PutOut(m)' = Len(sent[m]) - Len(left')  BY <2>0, <4>1, <2>1 DEF PutOut
        <5> QED  BY <5>1, <4>2, <2>5, <2>7, <1>1
      <4> QED  BY <4>3, <4>5, <4>6
    <3>2. CASE SendEnd
      <4>1. left = <<>> /\ Len(left) = 0 /\ sending' = FALSE  BY <3>2 DEF SendEnd
      <4>2. PutOut(m) = Len(sent[m])  BY <4>1, <2>5, <2>7
      <4>3. PutOut(m)' = Len(sent[m]) + 1  BY <2>0, <4>1, <2>1 DEF PutOut
      <4>4. Codes(sent[m], Len(sent[m]) + 1, <<"END">>)  BY <2>5, EndCodes
      <4>5. wire' = wire \o Of(<<"END">>, m)  BY <2>0, <3>2 DEF SendEnd, Put
      <4> QED  BY <4>2, <4>3, <4>4, <4>5, <1>3
    <3> QED  BY <3>1, <3>2, <1>5
  <2>9. CASE k = m
    <3>1. Fate(m) /\ UNCHANGED <<sent, in>>  BY <2>1, <2>3, <2>9, <1>2
    <3> QED  BY <3>1, <2>0, <2>1, <2>8, <2>9, SendOwn
  <2>10. CASE k # m
    <3>1. k < m /\ m = Len(sent') /\ ~(sending /\ k = Len(sent))  BY <2>0, <2>1, <2>4, <2>10, <1>1
    <3> QED  BY <3>1, <2>2, <2>3, <2>4, <2>8, <1>2, SendElse
  <2> QED  BY <2>9, <2>10
<1> QED  BY <1>4, <1>5 DEF rs232dev_send

LEMMA FatePoll == LineInv /\ rs232dev_poll => Fates'
<1> SUFFICES ASSUME LineInv, rs232dev_poll, NEW k \in 1..Len(sent'), Sound(k)' PROVE Fate(k)'
  BY DEF Fates
<1>1. wire # <<>> /\ wire' = Tail(wire) /\ UNCHANGED out /\ sent' = sent /\ hurt' = hurt
      /\ (returned' = returned \/ returned' = Append(returned, slip_buf))
  BY PollTakes DEF out
<1>2. k \in 1..Len(sent) /\ Sound(k) /\ Fate(k)  BY <1>1, SoundSame DEF LineInv, Fates
<1>3. wire \in Seq(Carried) /\ slip_buf \in Seq(Carried)  BY DEF LineInv, IInv, TypeOK
<1>4. 1 \in 1..Len(wire) /\ DOMAIN wire = 1..Len(wire)  BY <1>1, <1>3, TailWithout
<1>5. CASE wire[1].of # k
  <2>1. ~HasPartOf(slip_buf, k) => ~HasPartOf(slip_buf', k)
    <3> SUFFICES ASSUME HasPartOf(slip_buf', k) PROVE HasPartOf(slip_buf, k)
      OBVIOUS
    <3>1. slip_buf' \in Seq(Carried)  BY PollTakes
    <3>2. PICK i \in 1..Len(slip_buf') : slip_buf'[i].of = k  BY <3>1, Elements DEF HasPartOf
    <3>3. PICK j \in 1..Len(slip_buf) : slip_buf[j].of = k  BY <3>2, <1>5, PollTakes
    <3> QED  BY <3>3, <1>3, Elements DEF HasPartOf
  <2> QED  BY <2>1, <1>1, <1>2, <1>5, TakeElse
<1>6. CASE wire[1].of = k
  <2>1. 1 \in OnWire(wire, k)  BY <1>4, <1>6 DEF OnWire
  <2>2. CASE Coming(k)  BY <2>1, <2>2, <1>2, TakeStart DEF Fate
  <2>3. CASE BeingRead(k)  BY <2>3, <1>1, <1>2, TakeRead DEF Sound
  <2>4. ~WasRead(k)  BY <1>4, <1>6 DEF WasRead, UnderWay
  <2> QED  BY <2>2, <2>3, <2>4, <1>2 DEF Fate
<1> QED  BY <1>5, <1>6

(* The next session: a packet of which anything was read or is on the line *)
(* may be hurt.  lastc, which is not reset, matters to no other.           *)
LEMMA FateOpen == LineInv /\ rs232dev_init => Fates'
<1> SUFFICES ASSUME LineInv, rs232dev_init, NEW k \in 1..Len(sent'), Sound(k)' PROVE Fate(k)'
  BY DEF Fates
<1>1. sent' = sent /\ sending' = sending /\ left' = left /\ lastc' = lastc /\ returned' = returned
      /\ slip_buf' = <<>> /\ hurt \subseteq hurt'
  BY DEF rs232dev_init, out
<1>2. k \in 1..Len(sent) /\ Sound(k) /\ Fate(k)  BY <1>1, SoundSame DEF LineInv, Fates
<1>3. wire \in Seq(Carried) /\ slip_buf \in Seq(Carried)
      /\ DOMAIN wire = 1..Len(wire) /\ DOMAIN slip_buf = 1..Len(slip_buf)
  BY DEF LineInv, IInv, TypeOK
<1>4. PutOut(k) \in Nat /\ PutOut(k)' = PutOut(k)  BY <1>1, <1>2, PutOutType DEF PutOut
<1>5. ~HasPartOf(slip_buf', k)
  <2>1. DOMAIN slip_buf' = {}  BY <1>1
  <2> QED  BY <2>1 DEF HasPartOf
<1>6. wire' = wire \/ (wire' = <<>> /\ OnWire(wire, k) = {} /\ OnWire(wire', k) = {} /\ 1..Len(wire') = {})
  <2>1. CASE wire' = wire  BY <2>1
  <2>2. CASE wire' = <<>> /\ wire' # wire
    <3>1. {wire[i].of : i \in DOMAIN wire} \subseteq hurt'  BY <2>2 DEF rs232dev_init
    <3>2. k \notin hurt'  BY DEF Sound
    <3>3. OnWire(wire, k) = {}  BY <3>1, <3>2, <1>3 DEF OnWire
    <3>4. 1..Len(wire') = {}  BY <2>2
    <3> QED  BY <2>2, <3>3, <3>4 DEF OnWire
  <2>3. wire' = wire \/ wire' = <<>>  BY Zenon DEF rs232dev_init
  <2> QED  BY <2>1, <2>2, <2>3
<1>7. ASSUME NEW next, NEW last, NEW at, Reads(wire, k, sent[k], PutOut(k), next, last, at)
      PROVE  Reads(wire', k, sent'[k], PutOut(k)', next, last, at)
  <2>1. CASE wire' = wire  BY <2>1, <1>1, <1>4, <1>7
  <2>2. CASE OnWire(wire, k) = {} /\ OnWire(wire', k) = {}
    <3>1. Reads(wire', k, sent[k], PutOut(k), next, last, at)  BY <2>2, <1>7 DEF Reads
    <3> QED  BY <3>1, <1>1, <1>4
  <2> QED  BY <2>1, <2>2, <1>6
<1>8. CASE Coming(k)
  <2>1. PICK at : Reads(wire, k, sent[k], PutOut(k), 0, "none", at)  BY <1>8 DEF Coming
  <2>2. Reads(wire', k, sent'[k], PutOut(k)', 0, "none", at)  BY <2>1, <1>7
  <2>3. Coming(k)'  BY <2>2, <1>1, <1>5, <1>8 DEF Coming, Unread
  <2> QED  BY <2>3 DEF Fate
<1>9. CASE BeingRead(k)
  <2>1. slip_buf = <<>>
    <3> SUFFICES ASSUME slip_buf # <<>> PROVE FALSE  OBVIOUS
    <3>1. 1 \in 1..Len(slip_buf)  BY <1>3, TailWithout
    <3>2. slip_buf[1].of = k
      <4>1. slip_buf[1] = [byte |-> sent[k][1], of |-> k]  BY <3>1, <1>9, Zenon DEF BeingRead
      <4> QED  BY <4>1
    <3>3. {slip_buf[i].of : i \in DOMAIN slip_buf} \subseteq hurt'  BY DEF rs232dev_init
    <3> QED  BY <3>1, <3>2, <3>3, <1>3 DEF Sound
  <2>2. slip_buf' = slip_buf  BY <2>1, <1>1
  <2>3. PICK at : Reads(wire, k, sent[k], PutOut(k), Len(slip_buf) + 1, lastc, at)
    BY <1>9 DEF BeingRead
  <2>4. Reads(wire', k, sent'[k], PutOut(k)', Len(slip_buf') + 1, lastc', at)
    BY <2>2, <2>3, <1>1, <1>7
  <2>5. \A i \in 1..Len(wire') : wire'[i].of >= k  BY <1>6, <1>9 DEF BeingRead
  <2>6. BeingRead(k)'  BY <2>2, <2>4, <2>5, <1>1, <1>9 DEF BeingRead, Unread
  <2> QED  BY <2>6 DEF Fate
<1>10. CASE WasRead(k)
  <2>1. ~UnderWay(k)'
    <3>1. ~(sending' /\ k = Len(sent'))  BY <1>1, <1>10 DEF WasRead, UnderWay
    <3>2. CASE wire' = wire  BY <3>1, <3>2, <1>10 DEF WasRead, UnderWay
    <3>3. CASE wire' = <<>>
      <4>1. DOMAIN wire' = {}  BY <3>3
      <4> QED  BY <3>1, <4>1 DEF UnderWay
    <3> QED  BY <3>2, <3>3, <1>6
  <2>2. WasRead(k)'  BY <2>1, <1>1, <1>5, <1>10 DEF WasRead
  <2> QED  BY <2>2 DEF Fate
<1> QED  BY <1>2, <1>8, <1>9, <1>10 DEF Fate

(* A fault of the line hurts the packet of the byte; the others keep what  *)
(* they have.                                                              *)
LEMMA FateKept ==
  ASSUME LineInv, NEW k \in 1..Len(sent), Fate(k), UNCHANGED <<out, in>>,
         wire' \in Seq(Carried),
         \A i \in 1..Len(wire') : \E j \in 1..Len(wire) : wire'[i].of = wire[j].of,
         \A next \in Nat : \A last, at : Reads(wire, k, sent[k], PutOut(k), next, last, at)
           => \E a : Reads(wire', k, sent[k], PutOut(k), next, last, a)
  PROVE  Fate(k)'
<1>1. sent' = sent /\ sending' = sending /\ left' = left /\ lastc' = lastc /\ returned' = returned
      /\ slip_buf' = slip_buf
  BY DEF out, in
<1>2. PutOut(k)' = PutOut(k)  BY <1>1 DEF PutOut
<1>3. CASE Coming(k)
  <2>1. PICK at : Reads(wire, k, sent[k], PutOut(k), 0, "none", at)  BY <1>3 DEF Coming
  <2>2. 0 \in Nat  OBVIOUS
  <2>3. PICK a : Reads(wire', k, sent[k], PutOut(k), 0, "none", a)  BY <2>1, <2>2
  <2>4. Reads(wire', k, sent'[k], PutOut(k)', 0, "none", a)  BY <2>3, <1>1, <1>2
  <2>5. Coming(k)'  BY <2>4, <1>1, <1>3 DEF Coming, Unread
  <2> QED  BY <2>5 DEF Fate
<1>4. CASE BeingRead(k)
  <2>1. PICK at : Reads(wire, k, sent[k], PutOut(k), Len(slip_buf) + 1, lastc, at)
    BY <1>4 DEF BeingRead
  <2>2. Len(slip_buf) + 1 \in Nat  BY DEF LineInv, IInv, TypeOK
  <2>3. PICK a : Reads(wire', k, sent[k], PutOut(k), Len(slip_buf) + 1, lastc, a)  BY <2>1, <2>2
  <2>4. Reads(wire', k, sent'[k], PutOut(k)', Len(slip_buf') + 1, lastc', a)  BY <2>3, <1>1, <1>2
  <2>5. \A i \in 1..Len(wire') : wire'[i].of >= k  BY <1>4 DEF BeingRead
  <2>6. BeingRead(k)'  BY <2>4, <2>5, <1>1, <1>4 DEF BeingRead, Unread
  <2> QED  BY <2>6 DEF Fate
<1>5. CASE WasRead(k)
  <2>1. wire \in Seq(Carried) /\ DOMAIN wire = 1..Len(wire) /\ DOMAIN wire' = 1..Len(wire')
    BY DEF LineInv, IInv, TypeOK
  <2>2. ~UnderWay(k)'  BY <2>1, <1>1, <1>5 DEF WasRead, UnderWay
  <2>3. WasRead(k)'  BY <2>2, <1>1, <1>5 DEF WasRead
  <2> QED  BY <2>3 DEF Fate
<1> QED  BY <1>3, <1>4, <1>5 DEF Fate

LEMMA FateLose == LineInv /\ Lose => Fates'
<1> SUFFICES ASSUME LineInv, Lose, NEW k \in 1..Len(sent'), Sound(k)' PROVE Fate(k)'
  BY DEF Fates
<1>1. PICK j \in DOMAIN wire : Fault(j) /\ wire' = RemoveAt(wire, j)  BY DEF Lose
<1>2. UNCHANGED <<out, in>> /\ sent' = sent /\ hurt' = hurt \cup {wire[j].of}
  BY <1>1 DEF Lose, Fault, out
<1>3. k \in 1..Len(sent) /\ Fate(k)  BY <1>2, SoundSame DEF LineInv, Fates
<1>4. wire[j].of # k  BY <1>2 DEF Sound
<1>5. /\ wire \in Seq(Carried) /\ Len(sent) \in Nat /\ Ascending(wire, Len(sent)) /\ Len(wire) \in Nat
      /\ k \in Nat /\ PutOut(k) \in Nat
  BY <1>3, PutOutType DEF LineInv, IInv, TypeOK
<1>6. Without(wire, j, wire') /\ wire' \in Seq(Carried) /\ j \in 1..Len(wire)
  BY <1>1, <1>5, LoseWithout
<1>7. ASSUME NEW next \in Nat, NEW last, NEW at, Reads(wire, k, sent[k], PutOut(k), next, last, at)
      PROVE  \E a : Reads(wire', k, sent[k], PutOut(k), next, last, a)
  BY <1>4, <1>5, <1>6, <1>7, ReadsWithout
<1>8. \A i \in 1..Len(wire') : \E l \in 1..Len(wire) : wire'[i].of = wire[l].of
  <2> TAKE i \in 1..Len(wire')
  <2>1. i \in 1..Len(wire) /\ i + 1 \in 1..Len(wire)  BY <1>5, <1>6 DEF Without
  <2>2. wire'[i] = wire[i] \/ wire'[i] = wire[i + 1]  BY <1>6 DEF Without
  <2> QED  BY <2>1, <2>2
<1> QED  BY <1>2, <1>3, <1>6, <1>7, <1>8, FateKept

LEMMA FateDamage == LineInv /\ Damage => Fates'
<1> SUFFICES ASSUME LineInv, Damage, NEW k \in 1..Len(sent'), Sound(k)' PROVE Fate(k)'
  BY DEF Fates
<1>1. PICK j \in DOMAIN wire, b \in Byte : Fault(j) /\ wire' = [wire EXCEPT ![j].byte = b]
  BY DEF Damage
<1>2. UNCHANGED <<out, in>> /\ sent' = sent /\ hurt' = hurt \cup {wire[j].of}
  BY <1>1 DEF Damage, Fault, out
<1>3. k \in 1..Len(sent) /\ Fate(k)  BY <1>2, SoundSame DEF LineInv, Fates
<1>4. wire[j].of # k  BY <1>2 DEF Sound
<1>5. wire \in Seq(Carried) /\ Len(wire) \in Nat /\ k \in Nat /\ PutOut(k) \in Nat
  BY <1>3, PutOutType DEF LineInv, IInv, TypeOK
<1>6. /\ wire' \in Seq(Carried) /\ Len(wire') = Len(wire)
      /\ \A i \in 1..Len(wire) : wire'[i].of = wire[i].of /\ (i # j => wire'[i] = wire[i])
  BY <1>1, <1>5, DamageSame
<1>7. /\ Len(wire') >= Len(wire)
      /\ \A i \in 1..Len(wire) : wire'[i].of = wire[i].of /\ (wire[i].of = k => wire'[i] = wire[i])
      /\ \A i \in 1..Len(wire') : i > Len(wire) => wire'[i].of # k
  BY <1>4, <1>5, <1>6
<1>8. ASSUME NEW next \in Nat, NEW last, NEW at, Reads(wire, k, sent[k], PutOut(k), next, last, at)
      PROVE  \E a : Reads(wire', k, sent[k], PutOut(k), next, last, a)
  <2>1. Reads(wire', k, sent[k], PutOut(k), next, last, at)  BY <1>5, <1>6, <1>7, <1>8, ReadsElse
  <2> QED  BY <2>1
<1>9. \A i \in 1..Len(wire') : \E l \in 1..Len(wire) : wire'[i].of = wire[l].of  BY <1>6
<1> QED  BY <1>2, <1>3, <1>6, <1>8, <1>9, FateKept

-------------------------------------------------------------------------------
LEMMA LineInit == Init => LineInv
<1> SUFFICES ASSUME Init PROVE LineInv
  OBVIOUS
<1>1. sent = <<>> /\ wire = <<>> /\ slip_buf = <<>> /\ returned = <<>> /\ ~sending  BY DEF Init
<1>2. 1..Len(sent) = {} /\ 1..Len(wire) = {} /\ 1..Len(slip_buf) = {} /\ 1..Len(returned) = {}
  BY <1>1
<1>3. Ascending(wire, Len(sent))  BY <1>2 DEF Ascending
<1>4. NothingNew /\ LeftOver /\ Fates  BY <1>1, <1>2 DEF NothingNew, LeftOver, Fates
<1> QED  BY <1>3, <1>4, TypeInit DEF LineInv

LEMMA LineNext == LineInv /\ [Next]_vars => LineInv'
<1> SUFFICES ASSUME LineInv, [Next]_vars PROVE LineInv'
  OBVIOUS
<1>1. IInv'  BY TypeNext DEF LineInv
<1>2. CASE rs232dev_send  BY <1>1, <1>2, OrderSend, FateSend DEF LineInv, Ordered
<1>3. CASE rs232dev_poll  BY <1>1, <1>3, OrderPoll, FatePoll DEF LineInv, Ordered
<1>4. CASE rs232dev_init  BY <1>1, <1>4, OrderLine, FateOpen DEF LineInv, Ordered
<1>5. CASE Lose  BY <1>1, <1>5, OrderLine, FateLose DEF LineInv, Ordered
<1>6. CASE Damage  BY <1>1, <1>6, OrderLine, FateDamage DEF LineInv, Ordered
<1>7. CASE UNCHANGED vars
  <2>1. Fates'
    BY <1>7 DEF vars, out, in, LineInv, Fates, Fate, Coming, BeingRead, WasRead, Unread, Sound,
                UnderWay, PutOut
  <2> QED  BY <2>1, <1>1, <1>7, OrderLine DEF LineInv, Ordered
<1> QED  BY <1>2, <1>3, <1>4, <1>5, <1>6, <1>7 DEF Next

LEMMA LineImplies == LineInv => SoundIntact
<1> SUFFICES ASSUME LineInv, NEW k \in DOMAIN sent, Sound(k)
             PROVE  LET parts == {j \in DOMAIN returned : HasPartOf(returned[j], k)}
                    IN  IF UnderWay(k) THEN parts = {}
                        ELSE \E j \in DOMAIN returned : parts = {j} /\ returned[j] = Of(sent[k], k)
  BY DEF SoundIntact
<1>1. k \in 1..Len(sent) /\ DOMAIN returned = 1..Len(returned)  BY DEF LineInv, IInv, TypeOK
<1>2. Fate(k)  BY <1>1 DEF LineInv, Fates
<1>3. CASE Coming(k) \/ BeingRead(k)
  <2>1. UnderWay(k)  BY <1>1, <1>3, StillUnderWay
  <2>2. Unread(k)  BY <1>3 DEF Coming, BeingRead
  <2> QED  BY <2>1, <2>2, <1>1 DEF Unread
<1>4. CASE WasRead(k)
  <2>1. ~UnderWay(k)  BY <1>4 DEF WasRead
  <2>2. PICK j \in 1..Len(returned) : /\ returned[j] = Of(sent[k], k)
                                      /\ \A l \in 1..Len(returned) : HasPartOf(returned[l], k) <=> l = j
    BY <1>4 DEF WasRead
  <2>3. {l \in DOMAIN returned : HasPartOf(returned[l], k)} = {j}  BY <2>2, <1>1
  <2> QED  BY <2>1, <2>2, <2>3, <1>1
<1> QED  BY <1>2, <1>3, <1>4 DEF Fate

(* Every packet that fits into slip_buf and arrives in full is returned    *)
(* as it was sent, alone and once, whatever rs232dev_poll has seen before  *)
(* it: bytes lost or damaged, packets too long, half an escape sequence,   *)
(* or the rest of the session before.                                      *)
THEOREM SoundIntactHolds == Spec => []SoundIntact
BY LineInit, LineNext, LineImplies, PTL DEF Spec

-------------------------------------------------------------------------------
(***************************************************************************)
(* LineAssembly.                                                           *)
(***************************************************************************)

(* FlattenSeq puts the sequences one behind the other.                     *)
Flattens(f, s) ==
  /\ f[1] = s[1] /\ \A i \in 2..Len(s) : f[i] = f[i - 1] \o s[i]
  /\ FlattenSeq(s) = f[Len(s)]

LEMMA FlattenRun ==
  ASSUME NEW s, Len(s) \in Nat \ {0}
  PROVE  \E f : Flattens(f, s)
<1> DEFINE L == Len(s)
           Runs(f, n) == f = [i \in 1..n |-> IF i = 1 THEN s[i] ELSE f[i - 1] \o s[i]]
           S == {n \in Nat : n > 0 => \E f : Runs(f, n)}
           run == CHOOSE f : Runs(f, L)
<1>1. 0 \in S  OBVIOUS
<1>2. ASSUME NEW n \in Nat, n \in S PROVE n + 1 \in S
  <2> SUFFICES \E g : Runs(g, n + 1)
    <3> HIDE DEF Runs
    <3> QED  OBVIOUS
  <2>1. CASE n = 0
    <3>1. Runs([i \in 1..0 + 1 |-> s[i]], 0 + 1)  OBVIOUS
    <3> HIDE DEF Runs
    <3> QED  BY <2>1, <3>1
  <2>2. CASE n # 0
    <3>1. PICK f : Runs(f, n)
      <4> HIDE DEF Runs
      <4> QED  BY <1>2, <2>2
    <3> DEFINE g == [i \in 1..n + 1 |-> IF i = n + 1 THEN f[n] \o s[n + 1] ELSE f[i]]
    <3>2. ASSUME NEW i \in 1..n + 1
          PROVE  g[i] = IF i = 1 THEN s[i] ELSE g[i - 1] \o s[i]
      <4>1. CASE i = n + 1
        <5>1. n \in 1..n + 1 /\ n + 1 \in 1..n + 1 /\ n # n + 1 /\ i - 1 = n /\ i # 1  BY <2>2, <4>1
        <5>2. g[n] = f[n] /\ g[n + 1] = f[n] \o s[n + 1]  BY <5>1
        <5> HIDE DEF g
        <5> QED  BY <4>1, <5>1, <5>2
      <4>2. CASE i # n + 1
        <5>1. i \in 1..n /\ i - 1 # n + 1 /\ (i # 1 => i - 1 \in 1..n + 1)  BY <4>2
        <5>2. g[i] = f[i] /\ (i # 1 => g[i - 1] = f[i - 1])  BY <4>2, <5>1
        <5>3. f[i] = IF i = 1 THEN s[i] ELSE f[i - 1] \o s[i]  BY <3>1, <5>1
        <5> HIDE DEF g
        <5> QED  BY <5>2, <5>3
      <4> QED  BY <4>1, <4>2
    <3>3. Runs(g, n + 1)  BY <3>2
    <3> HIDE DEF g, Runs
    <3> QED  BY <3>3
  <2> QED  BY <2>1, <2>2
<1>3. L \in S
  <2>1. L \in Nat /\ \A n \in Nat : n \in S => n + 1 \in S  BY <1>2
  <2> HIDE DEF S, L
  <2>2. \A n \in Nat : n \in S  BY <1>1, <2>1, SetInduction
  <2> QED  BY <2>1, <2>2
<1>4. Runs(run, L)
  <2>1. \E f : Runs(f, L)
    <3> HIDE DEF Runs
    <3> QED  BY <1>3
  <2> HIDE DEF Runs
  <2> QED  BY <2>1
<1>5. FlattenSeq(s) = run[L]
  <2>1. Len(s) # 0  OBVIOUS
  <2> QED  BY <2>1 DEF FlattenSeq
<1> HIDE DEF run
<1>6. run[1] = s[1] /\ \A i \in 2..L : run[i] = run[i - 1] \o s[i]
  <2>1. \A i \in 1..L : run[i] = IF i = 1 THEN s[i] ELSE run[i - 1] \o s[i]  BY <1>4
  <2>2. 1 \in 1..L /\ \A i \in 2..L : i \in 1..L /\ i # 1  OBVIOUS
  <2> HIDE DEF L
  <2> QED  BY <2>1, <2>2
<1>7. Flattens(run, s)  BY <1>5, <1>6 DEF Flattens
<1> QED  BY <1>7

LEMMA FlattenEmpty == FlattenSeq(<<>>) = <<>>
BY DEF FlattenSeq

LEMMA FlattenAppend ==
  ASSUME NEW T, NEW s \in Seq(Seq(T)), NEW x \in Seq(T)
  PROVE  FlattenSeq(Append(s, x)) = FlattenSeq(s) \o x /\ FlattenSeq(s) \in Seq(T)
<1>1. PICK a : a = Append(s, x)  OBVIOUS
<1>2. PICK n \in Nat : n = Len(s)  OBVIOUS
<1>3. /\ a \in Seq(Seq(T)) /\ Len(a) = n + 1 /\ a[n + 1] = x
      /\ \A i \in 1..n : a[i] = s[i] /\ s[i] \in Seq(T)
  BY <1>1, <1>2, AppendProperties
<1>4. PICK g : Flattens(g, a)
  <2>1. Len(a) \in Nat \ {0}  BY <1>3
  <2> QED  BY <2>1, FlattenRun
<1>5. g[1] = a[1] /\ FlattenSeq(a) = g[n + 1] /\ \A i \in 2..n + 1 : g[i] = g[i - 1] \o a[i]
  BY <1>3, <1>4 DEF Flattens
<1>6. CASE n = 0
  <2>1. s = <<>>  BY <1>2, <1>6, EmptySeq
  <2>2. FlattenSeq(a) = x  BY <1>3, <1>5, <1>6
  <2>3. FlattenSeq(s) = <<>> /\ <<>> \in Seq(T) /\ <<>> \o x = x  BY <2>1, FlattenEmpty
  <2> QED  BY <1>1, <2>2, <2>3
<1>7. CASE n # 0
  <2>1. PICK f : Flattens(f, s)
    <3>1. Len(s) \in Nat \ {0}  BY <1>2, <1>7
    <3> QED  BY <3>1, FlattenRun
  <2>2. f[1] = s[1] /\ FlattenSeq(s) = f[n] /\ \A i \in 2..n : f[i] = f[i - 1] \o s[i]
    BY <1>2, <2>1 DEF Flattens
  <2> DEFINE S == {i \in Nat : i \in 1..n => f[i] = g[i] /\ f[i] \in Seq(T)}
  <2>3. 0 \in S  OBVIOUS
  <2>4. ASSUME NEW i \in Nat, i \in S PROVE i + 1 \in S
    <3> SUFFICES ASSUME i + 1 \in 1..n PROVE f[i + 1] = g[i + 1] /\ f[i + 1] \in Seq(T)  OBVIOUS
    <3>1. CASE i = 0
      <4>1. f[1] = g[1] /\ f[1] \in Seq(T)  BY <1>3, <1>5, <1>7, <2>2
      <4> QED  BY <3>1, <4>1
    <3>2. CASE i # 0
      <4>1. i \in 1..n /\ i + 1 \in 2..n /\ i + 1 \in 2..n + 1 /\ (i + 1) - 1 = i  BY <3>2
      <4>2. f[i] = g[i] /\ f[i] \in Seq(T)  BY <2>4, <4>1
      <4>3. f[i + 1] = f[i] \o s[i + 1] /\ g[i + 1] = g[i] \o a[i + 1]  BY <1>5, <2>2, <4>1
      <4>4. a[i + 1] = s[i + 1] /\ s[i + 1] \in Seq(T)  BY <1>3
      <4> QED  BY <4>2, <4>3, <4>4
    <3> QED  BY <3>1, <3>2
  <2>5. f[n] = g[n] /\ f[n] \in Seq(T)
    <3>1. \A i \in Nat : i \in S => i + 1 \in S  BY <2>4
    <3>2. n \in S
      <4> HIDE DEF S
      <4> QED  BY <2>3, <3>1, SetInduction
    <3> QED  BY <1>7, <3>2
  <2>6. g[n + 1] = g[n] \o x
    <3>1. n + 1 \in 2..n + 1 /\ (n + 1) - 1 = n  BY <1>7
    <3> QED  BY <1>3, <1>5, <3>1
  <2> QED  BY <1>1, <1>5, <2>2, <2>5, <2>6
<1> QED  BY <1>6, <1>7

LEMMA NoNewlineEmpty == NoNewline(<<>>) = <<>>
<1>1. [i \in 1..Len(<<>>) |-> IF <<>>[i] = "nl" THEN <<>> ELSE <<<<>>[i]>>] = <<>>  OBVIOUS
<1> QED  BY <1>1, FlattenEmpty DEF NoNewline

(* A newline is left out, every other byte is kept. *)
LEMMA NoNewlineAppend ==
  ASSUME NEW T, NEW s \in Seq(T), NEW c \in T
  PROVE  /\ NoNewline(Append(s, c)) = IF c = "nl" THEN NoNewline(s) ELSE Append(NoNewline(s), c)
         /\ NoNewline(s) \in Seq(T)
<1> DEFINE One(b) == IF b = "nl" THEN <<>> ELSE <<b>>
<1>1. PICK n \in Nat : n = Len(s)  OBVIOUS
<1>2. PICK m : m = [i \in 1..n |-> One(s[i])]  OBVIOUS
<1>3. PICK x : x = One(c)  OBVIOUS
<1>4. PICK a : a = Append(s, c)  OBVIOUS
<1>5. \A b \in T : One(b) \in Seq(T)  OBVIOUS
<1>6. /\ Len(a) = n + 1 /\ a[n + 1] = c /\ \A i \in 1..n : a[i] = s[i] /\ s[i] \in T
  BY <1>1, <1>4, AppendProperties
<1> HIDE DEF One
<1>7. m \in Seq(Seq(T)) /\ Len(m) = n
  <2>1. \A i \in 1..n : One(s[i]) \in Seq(T)  BY <1>5, <1>6
  <2> QED  BY <1>2, <2>1, IsASeq
<1>8. x \in Seq(T)  BY <1>3, <1>5
<1>9. [i \in 1..n + 1 |-> One(a[i])] = Append(m, x)
  <2>1. PICK l : l = [i \in 1..n + 1 |-> One(a[i])]  OBVIOUS
  <2>2. PICK r : r = Append(m, x)  OBVIOUS
  <2>3. /\ r \in Seq(Seq(T)) /\ Len(r) = n + 1 /\ r[n + 1] = x
        /\ \A i \in 1..n : r[i] = m[i]
    BY <1>7, <1>8, <2>2, AppendProperties
  <2>4. \A i \in 1..n + 1 : l[i] = r[i]
    <3> SUFFICES ASSUME NEW i \in 1..n + 1 PROVE l[i] = r[i]  OBVIOUS
    <3>1. l[i] = One(a[i])  BY <2>1
    <3>2. CASE i = n + 1  BY <1>3, <1>6, <2>3, <3>1, <3>2
    <3>3. CASE i # n + 1
      <4>1. i \in 1..n  BY <3>3
      <4>2. m[i] = One(s[i])  BY <1>2, <4>1
      <4> QED  BY <1>6, <2>3, <3>1, <4>1, <4>2
    <3> QED  BY <3>2, <3>3
  <2>5. r = [i \in 1..n + 1 |-> r[i]]  BY <2>3
  <2>6. l = [i \in 1..n + 1 |-> l[i]]  BY <2>1
  <2> QED  BY <2>1, <2>2, <2>4, <2>5, <2>6
<1>10. NoNewline(a) = FlattenSeq(Append(m, x)) /\ NoNewline(s) = FlattenSeq(m)
  BY <1>1, <1>2, <1>6, <1>9 DEF One, NoNewline
<1>11. NoNewline(a) = NoNewline(s) \o x /\ NoNewline(s) \in Seq(T)  BY <1>7, <1>8, <1>10, FlattenAppend
<1>12. CASE c = "nl"
  <2>1. x = <<>>  BY <1>3, <1>12 DEF One
  <2>2. NoNewline(s) \o <<>> = NoNewline(s)  BY <1>11
  <2> QED  BY <1>4, <1>11, <1>12, <2>1, <2>2
<1>13. CASE c # "nl"
  <2>1. x = <<c>>  BY <1>3, <1>13 DEF One
  <2>2. NoNewline(s) \o <<c>> = Append(NoNewline(s), c)  BY <1>11
  <2> QED  BY <1>4, <1>11, <1>13, <2>1, <2>2
<1> QED  BY <1>12, <1>13

-------------------------------------------------------------------------------
OutByte == ServerByte \cup {"ball"}
Loop    == [t : Nat, buf : Seq(OutByte), lines : Seq(Seq(OutByte)), over : BOOLEAN]

(* What a byte does that is not the first of a degree sign.                *)
OneByte(st, c, v) ==
  \/ c = "nl" /\ v.buf = st.buf /\ v.lines = st.lines
  \/ c = "cr" /\ v.buf = <<>> /\ v.lines = Append(st.lines, Append(st.buf, c))
  \/ c \notin {"nl", "cr"} /\ v.buf = Append(st.buf, c) /\ v.lines = st.lines

ByteEffect(data, st, v) ==
  /\ v \in Loop
  /\ st.over => v = st
  /\ ~st.over => v.t \in {st.t + 1, st.t + 2}
  /\ ~st.over /\ ~v.over => Len(v.buf) < OutSize \/ v.buf = st.buf
  /\ ~st.over /\ ~v.over /\ v.t = st.t + 1 => OneByte(st, data[st.t], v)

LEMMA AsmConsts ==
  /\ OutSize \in Nat \ {0} /\ SegmentMax \in Nat \ {0} /\ StreamMax \in Nat \ {0}
  /\ AsmSessions \in Nat \ {0} /\ StaleBytes \subseteq ServerByte /\ "x" \in StaleBytes
BY AsmAssumption

LEMMA TakeByteIs ==
  ASSUME NEW data, NEW st \in Loop, ~st.over => data[st.t] \in ServerByte, NEW v, v = TakeByte(data, st)
  PROVE  ByteEffect(data, st, v)
<1>1. CASE st.over
  <2>1. v = st  BY <1>1 DEF TakeByte
  <2> QED  BY <1>1, <2>1 DEF ByteEffect
<1>2. CASE ~st.over
  <2> DEFINE d == data[st.t] = "c2" /\ data[st.t + 1] = "b0"
  <2>1. PICK c : c = data[st.t]  OBVIOUS
  <2>2. PICK next : next = st.t + IF d THEN 2 ELSE 1  OBVIOUS
  <2>3. PICK buf : buf = Append(st.buf, IF d THEN "ball" ELSE c)  OBVIOUS
  <2>4. c \in ServerByte /\ st.t \in Nat /\ st.buf \in Seq(OutByte) /\ st.lines \in Seq(Seq(OutByte)) /\ st.over = FALSE
    BY <1>2, <2>1 DEF Loop
  <2>5. next \in {st.t + 1, st.t + 2} /\ next \in Nat /\ (next = st.t + 1 => ~d)  BY <2>2, <2>4
  <2>6. buf \in Seq(OutByte) /\ Append(st.lines, buf) \in Seq(Seq(OutByte)) /\ (~d => buf = Append(st.buf, c))
    BY <2>3, <2>4 DEF OutByte
  <2>7. v = CASE st.over              -> st
              [] ~st.over /\ c = "nl" -> [st EXCEPT !.t = next]
              [] ~st.over /\ c # "nl" /\ Len(buf) >= OutSize ->
                   [st EXCEPT !.t = next, !.buf = buf, !.over = TRUE]
              [] ~st.over /\ c = "cr" /\ Len(buf) < OutSize ->
                   [st EXCEPT !.t = next, !.buf = <<>>, !.lines = Append(@, buf)]
              [] OTHER                -> [st EXCEPT !.t = next, !.buf = buf]
    BY <2>1, <2>2, <2>3 DEF TakeByte
  <2> HIDE DEF d
  <2>8. Len(buf) \in Nat /\ OutSize \in Nat /\ Len(<<>>) = 0 /\ 0 < OutSize  BY <2>6, AsmConsts
  <2>9. CASE c = "nl"
    <3>1. v = [st EXCEPT !.t = next]  BY <1>2, <2>7, <2>9
    <3>2. v \in Loop /\ v.t = next /\ v.buf = st.buf /\ v.lines = st.lines /\ v.over = FALSE
      BY <2>4, <2>5, <3>1 DEF Loop
    <3> QED  BY <1>2, <2>1, <2>5, <2>9, <3>2 DEF ByteEffect, OneByte
  <2>10. CASE c # "nl" /\ Len(buf) >= OutSize
    <3>3. ~(Len(buf) < OutSize)  BY <2>8, <2>10
    <3>1. v = [st EXCEPT !.t = next, !.buf = buf, !.over = TRUE]  BY <1>2, <2>7, <2>10, <3>3
    <3>2. v \in Loop /\ v.t = next /\ v.over = TRUE  BY <2>5, <2>6, <3>1 DEF Loop
    <3> QED  BY <1>2, <2>5, <3>2 DEF ByteEffect
  <2>11. CASE c = "cr" /\ Len(buf) < OutSize
    <3>1. PICK e, l : e = <<>> /\ l = Append(st.lines, buf)  OBVIOUS
    <3>2. ~(Len(buf) >= OutSize)  BY <2>8, <2>11
    <3>3. v = [st EXCEPT !.t = next, !.buf = e, !.lines = l]
      <4>1. v = [st EXCEPT !.t = next, !.buf = <<>>, !.lines = Append(@, buf)]  BY <1>2, <2>7, <2>11, <3>2
      <4> QED  BY <3>1, <4>1 DEF Loop
    <3>4. e \in Seq(OutByte) /\ l \in Seq(Seq(OutByte))  BY <2>6, <3>1
    <3>5. v \in Loop /\ v.t = next /\ v.buf = e /\ v.lines = l /\ v.over = FALSE
      BY <2>4, <2>5, <3>3, <3>4 DEF Loop
    <3>6. Len(v.buf) < OutSize  BY <2>8, <3>1, <3>5
    <3>7. next = st.t + 1 => OneByte(st, c, v)  BY <2>5, <2>6, <2>11, <3>1, <3>5 DEF OneByte
    <3> QED  BY <1>2, <2>1, <2>5, <3>5, <3>6, <3>7 DEF ByteEffect
  <2>12. CASE c \notin {"nl", "cr"} /\ Len(buf) < OutSize
    <3>1. ~(Len(buf) >= OutSize)  BY <2>8, <2>12
    <3>2. v = [st EXCEPT !.t = next, !.buf = buf]  BY <1>2, <2>7, <2>12, <3>1
    <3>3. v \in Loop /\ v.t = next /\ v.buf = buf /\ v.lines = st.lines /\ v.over = FALSE
      BY <2>4, <2>5, <2>6, <3>2 DEF Loop
    <3>4. next = st.t + 1 => OneByte(st, c, v)  BY <2>5, <2>6, <2>12, <3>3 DEF OneByte
    <3> QED  BY <1>2, <2>1, <2>5, <2>12, <3>3, <3>4 DEF ByteEffect
  <2> QED  BY <2>8, <2>9, <2>10, <2>11, <2>12
<1> QED  BY <1>1, <1>2

(* The loop over the segment, turn by turn.                                *)
LoopRun(run, segment, behind) ==
  /\ run[0] = [t |-> 1, buf |-> output_buf, lines |-> <<>>, over |-> FALSE]
  /\ \A i \in 1..Len(segment) : run[i] = TakeByte(segment \o behind, run[i - 1])
  /\ telnet_newdata(segment, behind) = run[Len(segment)]

LEMMA NewdataLoop ==
  ASSUME NEW segment, NEW behind, Len(segment) \in Nat
  PROVE  \E run : LoopRun(run, segment, behind)
<1>1. PICK w : w = [t |-> 1, buf |-> output_buf, lines |-> <<>>, over |-> FALSE]  OBVIOUS
<1>2. PICK data : data = segment \o behind  OBVIOUS
<1> DEFINE L == Len(segment)
           Runs(f, n) == f = [i \in 0..n |-> IF i = 0 THEN w ELSE TakeByte(data, f[i - 1])]
           S == {n \in Nat : \E f : Runs(f, n)}
           run == CHOOSE f : Runs(f, L)
<1>3. 0 \in S
  <2>1. Runs([i \in 0..0 |-> w], 0)  OBVIOUS
  <2> HIDE DEF Runs
  <2> QED  BY <2>1
<1>4. ASSUME NEW n \in Nat, n \in S PROVE n + 1 \in S
  <2>1. PICK f : Runs(f, n)
    <3> HIDE DEF Runs
    <3> QED  BY <1>4
  <2> DEFINE g == [i \in 0..n + 1 |-> IF i = n + 1 THEN TakeByte(data, f[n]) ELSE f[i]]
  <2>2. ASSUME NEW i \in 0..n + 1
        PROVE  g[i] = IF i = 0 THEN w ELSE TakeByte(data, g[i - 1])
    <3>1. CASE i = n + 1
      <4>1. n \in 0..n + 1 /\ n + 1 \in 0..n + 1 /\ n # n + 1 /\ i - 1 = n /\ i # 0  BY <3>1
      <4>2. g[n] = f[n] /\ g[n + 1] = TakeByte(data, f[n])  BY <4>1
      <4> HIDE DEF g
      <4> QED  BY <3>1, <4>1, <4>2
    <3>2. CASE i # n + 1
      <4>1. i \in 0..n /\ i - 1 # n + 1 /\ (i # 0 => i - 1 \in 0..n + 1)  BY <3>2
      <4>2. g[i] = f[i] /\ (i # 0 => g[i - 1] = f[i - 1])  BY <3>2, <4>1
      <4>3. f[i] = IF i = 0 THEN w ELSE TakeByte(data, f[i - 1])  BY <2>1, <4>1
      <4> HIDE DEF g
      <4> QED  BY <4>2, <4>3
    <3> QED  BY <3>1, <3>2
  <2>3. Runs(g, n + 1)  BY <2>2
  <2> HIDE DEF g, Runs
  <2> QED  BY <2>3
<1>5. L \in S
  <2>1. L \in Nat /\ \A n \in Nat : n \in S => n + 1 \in S  BY <1>4
  <2> HIDE DEF S, L
  <2>2. \A n \in Nat : n \in S  BY <1>3, <2>1, SetInduction
  <2> QED  BY <2>1, <2>2
<1>6. Runs(run, L)
  <2>1. \E f : Runs(f, L)
    <3> HIDE DEF Runs
    <3> QED  BY <1>5
  <2> HIDE DEF Runs
  <2> QED  BY <2>1
<1>7. telnet_newdata(segment, behind) = run[L]  BY <1>1, <1>2 DEF telnet_newdata
<1> HIDE DEF run
<1>8. run[0] = w /\ \A i \in 1..L : run[i] = TakeByte(data, run[i - 1])
  <2>1. \A i \in 0..L : run[i] = IF i = 0 THEN w ELSE TakeByte(data, run[i - 1])  BY <1>6
  <2>2. 0 \in 0..L /\ \A i \in 1..L : i \in 0..L /\ i # 0  OBVIOUS
  <2> HIDE DEF L
  <2> QED  BY <2>1, <2>2
<1>9. LoopRun(run, segment, behind)  BY <1>1, <1>2, <1>7, <1>8 DEF LoopRun
<1> QED  BY <1>9

(* lines and what is begun are the bytes of s.                             *)
Assembled(lines, buf, s) ==
  /\ FlattenSeq(lines) \o buf = NoNewline(s)
  /\ ~Contains(buf, "cr")
  /\ \A i \in 1..Len(lines) : Last(lines[i]) = "cr" /\ ~Contains(Front(lines[i]), "cr")

LEMMA LineEnds ==
  ASSUME NEW buf \in Seq(OutByte), ~Contains(buf, "cr"), NEW l, l = Append(buf, "cr")
  PROVE  l \in Seq(OutByte) /\ Last(l) = "cr" /\ ~Contains(Front(l), "cr")
<1>1. PICK n \in Nat : n = Len(buf)  OBVIOUS
<1>2. "cr" \in OutByte  BY DEF OutByte, ServerByte
<1>3. l \in Seq(OutByte) /\ Len(l) = n + 1 /\ l[n + 1] = "cr" /\ \A i \in 1..n : l[i] = buf[i]
  BY <1>1, <1>2, AppendProperties
<1>4. PICK f : f = SubSeq(l, 1, n)  OBVIOUS
<1>5. Len(f) = n /\ \A i \in 1..n : f[i] = l[i]  BY <1>1, <1>3, <1>4, SubSeqProperties
<1>6. Front(l) = f
  <2>1. (n + 1) - 1 = n  OBVIOUS
  <2> QED  BY <1>3, <1>4, <2>1 DEF Front
<1>7. ~Contains(f, "cr")  BY <1>1, <1>3, <1>5 DEF Contains
<1> QED  BY <1>3, <1>6, <1>7 DEF Last

LEMMA Assembles ==
  ASSUME NEW lines \in Seq(Seq(OutByte)), NEW buf \in Seq(OutByte), NEW s \in Seq(ServerByte),
         Assembled(lines, buf, s), NEW c \in ServerByte
  PROVE  /\ c = "nl" => Assembled(lines, buf, Append(s, c))
         /\ c \notin {"nl", "cr"} => Assembled(lines, Append(buf, c), Append(s, c))
         /\ c = "cr" => Assembled(Append(lines, Append(buf, c)), <<>>, Append(s, c))
<1>1. PICK f : f = FlattenSeq(lines)  OBVIOUS
<1>2. f \in Seq(OutByte)
  <2>1. <<>> \in Seq(OutByte)  OBVIOUS
  <2> QED  BY <1>1, <2>1, FlattenAppend
<1>3. c \in OutByte  BY DEF OutByte
<1>4. f \o buf = NoNewline(s)  BY <1>1 DEF Assembled
<1>5. PICK b : b = Append(buf, c)  OBVIOUS
<1>6. b \in Seq(OutByte) /\ f \o b = Append(f \o buf, c)  BY <1>2, <1>3, <1>5
<1>7. NoNewline(Append(s, c)) = IF c = "nl" THEN NoNewline(s) ELSE Append(NoNewline(s), c)
  BY NoNewlineAppend
<1>8. ASSUME c = "nl" PROVE Assembled(lines, buf, Append(s, c))
  BY <1>7, <1>8 DEF Assembled
<1>9. ASSUME c \notin {"nl", "cr"} PROVE Assembled(lines, b, Append(s, c))
  <2>1. ~Contains(b, "cr")
    <3>1. /\ Len(b) = Len(buf) + 1 /\ b[Len(buf) + 1] = c /\ Len(buf) \in Nat
          /\ \A i \in 1..Len(buf) : b[i] = buf[i]
      BY <1>3, <1>5, AppendProperties
    <3>2. \A i \in 1..Len(buf) : buf[i] # "cr"  BY DEF Assembled, Contains
    <3>3. ASSUME NEW i \in 1..Len(b) PROVE b[i] # "cr"
      <4>1. CASE i = Len(buf) + 1  BY <1>9, <3>1, <4>1
      <4>2. CASE i # Len(buf) + 1
        <5>1. i \in 1..Len(buf)  BY <3>1, <4>2
        <5> QED  BY <3>1, <3>2, <5>1
      <4> QED  BY <4>1, <4>2
    <3> QED  BY <3>3 DEF Contains
  <2>2. f \o b = NoNewline(Append(s, c))  BY <1>4, <1>6, <1>7, <1>9
  <2> QED  BY <1>1, <2>1, <2>2 DEF Assembled
<1>10. ASSUME c = "cr" PROVE Assembled(Append(lines, b), <<>>, Append(s, c))
  <2>1. PICK a : a = Append(lines, b)  OBVIOUS
  <2>2. FlattenSeq(a) = f \o b /\ f \o b \in Seq(OutByte)
    <3>1. FlattenSeq(Append(lines, b)) = FlattenSeq(lines) \o b  BY <1>6, FlattenAppend
    <3> QED  BY <1>1, <1>2, <1>6, <2>1, <3>1
  <2>3. FlattenSeq(a) \o <<>> = NoNewline(Append(s, c))
    <3>1. FlattenSeq(a) \o <<>> = f \o b  BY <2>2
    <3> QED  BY <1>4, <1>6, <1>7, <1>10, <3>1
  <2>4. Last(b) = "cr" /\ ~Contains(Front(b), "cr")
    <3>1. ~Contains(buf, "cr")  BY DEF Assembled
    <3> QED  BY <1>5, <1>10, <3>1, LineEnds
  <2>5. /\ Len(a) = Len(lines) + 1 /\ a[Len(lines) + 1] = b /\ Len(lines) \in Nat
        /\ \A i \in 1..Len(lines) : a[i] = lines[i]
    BY <1>6, <2>1, AppendProperties
  <2>6. \A i \in 1..Len(a) : Last(a[i]) = "cr" /\ ~Contains(Front(a[i]), "cr")
    <3> SUFFICES ASSUME NEW i \in 1..Len(a) PROVE Last(a[i]) = "cr" /\ ~Contains(Front(a[i]), "cr")  OBVIOUS
    <3>1. CASE i = Len(lines) + 1  BY <2>4, <2>5, <3>1
    <3>2. CASE i # Len(lines) + 1
      <4>1. i \in 1..Len(lines) /\ a[i] = lines[i]  BY <2>5, <3>2
      <4> QED  BY <4>1 DEF Assembled
    <3> QED  BY <3>1, <3>2
  <2>7. ~Contains(<<>>, "cr")
    <3>1. 1..Len(<<>>) = {}  OBVIOUS
    <3> QED  BY <3>1 DEF Contains
  <2> QED  BY <2>1, <2>3, <2>6, <2>7 DEF Assembled
<1> QED  BY <1>5, <1>8, <1>9, <1>10

LEMMA OneByteAssembles ==
  ASSUME NEW st \in Loop, NEW v \in Loop, NEW c \in ServerByte, OneByte(st, c, v),
         NEW before \in Seq(Seq(OutByte)), NEW s \in Seq(ServerByte), Assembled(before \o st.lines, st.buf, s)
  PROVE  Assembled(before \o v.lines, v.buf, Append(s, c))
<1>1. PICK lines : lines = before \o st.lines  OBVIOUS
<1>2. st.lines \in Seq(Seq(OutByte)) /\ st.buf \in Seq(OutByte)  BY DEF Loop
<1>3. lines \in Seq(Seq(OutByte))  BY <1>1, <1>2
<1>4. /\ c = "nl" => Assembled(lines, st.buf, Append(s, c))
      /\ c \notin {"nl", "cr"} => Assembled(lines, Append(st.buf, c), Append(s, c))
      /\ c = "cr" => Assembled(Append(lines, Append(st.buf, c)), <<>>, Append(s, c))
  BY <1>1, <1>2, <1>3, Assembles
<1>5. CASE c # "cr"  BY <1>1, <1>4, <1>5 DEF OneByte
<1>6. CASE c = "cr"
  <2>1. PICK b : b = Append(st.buf, c)  OBVIOUS
  <2>2. b \in Seq(OutByte)
    <3>1. c \in OutByte  BY DEF OutByte
    <3> QED  BY <1>2, <2>1, <3>1
  <2>3. before \o Append(st.lines, b) = Append(before \o st.lines, b)
    <3>1. PICK l \in Seq(Seq(OutByte)) : l = st.lines  BY <1>2
    <3>2. before \o Append(l, b) = Append(before \o l, b)  BY <2>2
    <3> QED  BY <3>1, <3>2
  <2>4. v.buf = <<>> /\ v.lines = Append(st.lines, b)  BY <1>6, <2>1 DEF OneByte
  <2> QED  BY <1>1, <1>4, <1>6, <2>1, <2>3, <2>4
<1> QED  BY <1>5, <1>6

(* A segment, however much of the stream it is.                            *)
AfterTurn(u, segment, i) ==
  /\ u \in Loop
  /\ u.over \/ u.t \in i + 1..2 * i + 1
  /\ u.over \/ Len(u.buf) < OutSize \/ ~(Len(output_buf) < OutSize)
  /\ Assembled(handled, output_buf, stream) =>
       u.over \/ u.t > i + 1 \/ Assembled(handled \o u.lines, u.buf, stream \o SubSeq(segment, 1, i))

BufTypes ==
  output_buf \in Seq(OutByte) /\ handled \in Seq(Seq(OutByte)) /\ stream \in Seq(ServerByte)

LEMMA TurnKeeps ==
  ASSUME BufTypes, NEW segment \in Seq(ServerByte), NEW data \in Seq(ServerByte), Len(data) = 2 * Len(segment),
         \A k \in 1..Len(segment) : data[k] = segment[k],
         NEW i \in Nat, i + 1 <= Len(segment), NEW u, AfterTurn(u, segment, i), NEW v, v = TakeByte(data, u)
  PROVE  AfterTurn(v, segment, i + 1)
<1>1. PICK n \in Nat : n = Len(segment)  OBVIOUS
<1>2. u \in Loop /\ u.t \in Nat /\ v.t = v.t  BY DEF AfterTurn, Loop
<1>3. ByteEffect(data, u, v)
  <2>1. ASSUME ~u.over PROVE data[u.t] \in ServerByte
    <3>1. u.t \in i + 1..2 * i + 1  BY <2>1 DEF AfterTurn
    <3>2. u.t \in 1..2 * n  BY <1>1, <3>1
    <3> QED  BY <1>1, <3>2
  <2> QED  BY <1>2, <2>1, TakeByteIs
<1>4. v \in Loop /\ v.t \in Nat  BY <1>3 DEF ByteEffect, Loop
<1>5. CASE u.over
  <2>1. v = u  BY <1>3, <1>5 DEF ByteEffect
  <2> QED  BY <1>2, <1>5, <2>1 DEF AfterTurn
<1>6. CASE ~u.over /\ v.over  BY <1>4, <1>6 DEF AfterTurn
<1>7. CASE ~u.over /\ ~v.over
  <2>1. u.t \in i + 1..2 * i + 1 /\ v.t \in {u.t + 1, u.t + 2}  BY <1>3, <1>7 DEF AfterTurn, ByteEffect
  <2>2. v.t \in (i + 1) + 1..2 * (i + 1) + 1
    <3>1. \A a, b \in Nat : a \in i + 1..2 * i + 1 /\ b \in {a + 1, a + 2}
                            => b \in (i + 1) + 1..2 * (i + 1) + 1
      OBVIOUS
    <3> QED  BY <1>2, <1>4, <2>1, <3>1
  <2>3. Len(v.buf) < OutSize \/ ~(Len(output_buf) < OutSize)  BY <1>3, <1>7 DEF AfterTurn, ByteEffect
  <2>4. ASSUME Assembled(handled, output_buf, stream), ~(v.t > (i + 1) + 1)
        PROVE  Assembled(handled \o v.lines, v.buf, stream \o SubSeq(segment, 1, i + 1))
    <3>1. u.t = i + 1 /\ v.t = u.t + 1  BY <1>2, <1>4, <2>1, <2>4
    <3>2. Assembled(handled \o u.lines, u.buf, stream \o SubSeq(segment, 1, i))
      <4>1. ~(u.t > i + 1)  BY <3>1
      <4> QED  BY <1>7, <2>4, <4>1 DEF AfterTurn
    <3>3. PICK c : c = segment[i + 1]  OBVIOUS
    <3>4. i + 1 \in 1..Len(segment)  BY <1>1
    <3>5. c \in ServerByte /\ data[u.t] = c  BY <3>1, <3>3, <3>4
    <3>6. OneByte(u, c, v)  BY <1>3, <1>7, <3>1, <3>5 DEF ByteEffect
    <3>7. PICK s : s = stream \o SubSeq(segment, 1, i)  OBVIOUS
    <3>8. s \in Seq(ServerByte) /\ stream \o SubSeq(segment, 1, i + 1) = Append(s, c)
      <4>1. PICK a : a = SubSeq(segment, 1, i)  OBVIOUS
      <4>2. a \in Seq(ServerByte) /\ Len(a) = i /\ \A k \in 1..i : a[k] = segment[k]
        BY <1>1, <3>4, <4>1, SubSeqProperties
      <4>3. SubSeq(segment, 1, i + 1) = Append(a, c)
        <5>1. PICK b : b = SubSeq(segment, 1, i + 1)  OBVIOUS
        <5>2. b \in Seq(ServerByte) /\ Len(b) = i + 1 /\ \A k \in 1..i + 1 : b[k] = segment[k]
          BY <1>1, <3>4, <5>1, SubSeqProperties
        <5>3. PICK d : d = Append(a, c)  OBVIOUS
        <5>4. d \in Seq(ServerByte) /\ Len(d) = i + 1 /\ d[i + 1] = c /\ \A k \in 1..i : d[k] = a[k]
          BY <3>5, <4>2, <5>3, AppendProperties
        <5>5. \A k \in 1..i + 1 : b[k] = d[k]
          <6> SUFFICES ASSUME NEW k \in 1..i + 1 PROVE b[k] = d[k]  OBVIOUS
          <6>1. CASE k = i + 1  BY <3>3, <5>2, <5>4, <6>1
          <6>2. CASE k # i + 1
            <7>1. k \in 1..i  BY <6>2
            <7> QED  BY <4>2, <5>2, <5>4, <7>1
          <6> QED  BY <6>1, <6>2
        <5>6. b = d  BY <5>2, <5>4, <5>5, SeqEqual
        <5> QED  BY <5>1, <5>3, <5>6
      <4>4. stream \in Seq(ServerByte)  BY DEF BufTypes
      <4>5. stream \o Append(a, c) = Append(stream \o a, c)  BY <3>5, <4>2, <4>4
      <4> QED  BY <3>7, <4>1, <4>2, <4>3, <4>4, <4>5
    <3>9. handled \in Seq(Seq(OutByte))  BY DEF BufTypes
    <3>10. Assembled(handled \o v.lines, v.buf, Append(s, c))
      BY <1>2, <1>4, <3>2, <3>5, <3>6, <3>7, <3>8, <3>9, OneByteAssembles
    <3> QED  BY <3>8, <3>10
  <2> QED  BY <1>4, <2>2, <2>3, <2>4 DEF AfterTurn
<1> QED  BY <1>5, <1>6, <1>7

LEMMA NewdataIs ==
  ASSUME BufTypes, NEW segment \in Seq(ServerByte), NEW behind \in Seq(ServerByte), Len(behind) = Len(segment),
         NEW v, v = telnet_newdata(segment, behind)
  PROVE  AfterTurn(v, segment, Len(segment))
<1>1. PICK n \in Nat : n = Len(segment)  OBVIOUS
<1>2. PICK data : data = segment \o behind  OBVIOUS
<1>3. /\ data \in Seq(ServerByte) /\ Len(data) = 2 * Len(segment)
      /\ \A k \in 1..Len(segment) : data[k] = segment[k]
  <2>1. data \in Seq(ServerByte) /\ Len(data) = Len(segment) + Len(behind)  BY <1>2, ConcatProperties
  <2>2. \A k \in 1..Len(segment) : data[k] = segment[k]  BY <1>1, <1>2
  <2> QED  BY <1>1, <2>1, <2>2
<1>4. PICK run : LoopRun(run, segment, behind)  BY <1>1, NewdataLoop
<1>5. /\ run[0] = [t |-> 1, buf |-> output_buf, lines |-> <<>>, over |-> FALSE]
      /\ \A i \in 1..n : run[i] = TakeByte(data, run[i - 1])
      /\ v = run[n]
  BY <1>1, <1>2, <1>4 DEF LoopRun
<1> DEFINE S == {i \in Nat : i <= n => AfterTurn(run[i], segment, i)}
<1>6. 0 \in S
  <2>1. PICK e : e = <<>>  OBVIOUS
  <2>2. run[0] = [t |-> 1, buf |-> output_buf, lines |-> e, over |-> FALSE] /\ e \in Seq(Seq(OutByte))
    BY <1>5, <2>1
  <2>3. /\ run[0] \in Loop /\ run[0].t = 1 /\ run[0].buf = output_buf /\ run[0].lines = e
        /\ run[0].over = FALSE
    BY <2>2 DEF BufTypes, Loop
  <2>4. handled \o e = handled /\ stream \o SubSeq(segment, 1, 0) = stream
    <3>1. SubSeq(segment, 1, 0) = <<>>  OBVIOUS
    <3> QED  BY <2>1, <3>1 DEF BufTypes
  <2>5. 1 \in 0 + 1..2 * 0 + 1  OBVIOUS
  <2>6. AfterTurn(run[0], segment, 0)  BY <2>3, <2>4, <2>5 DEF AfterTurn
  <2> QED  BY <2>6
<1>7. ASSUME NEW i \in Nat, i \in S PROVE i + 1 \in S
  <2> SUFFICES ASSUME i + 1 <= n PROVE AfterTurn(run[i + 1], segment, i + 1)  OBVIOUS
  <2>1. i <= n /\ i + 1 \in 1..n /\ (i + 1) - 1 = i  OBVIOUS
  <2>2. AfterTurn(run[i], segment, i)  BY <1>7, <2>1
  <2>3. run[i + 1] = TakeByte(data, run[i])  BY <1>5, <2>1
  <2> QED  BY <1>1, <1>3, <2>2, <2>3, TurnKeeps
<1>8. n \in S
  <2>1. \A i \in Nat : i \in S => i + 1 \in S  BY <1>7
  <2> HIDE DEF S
  <2> QED  BY <1>6, <2>1, SetInduction
<1> QED  BY <1>1, <1>5, <1>8

-------------------------------------------------------------------------------
AsmInv ==
  /\ BufTypes /\ Len(stream) <= StreamMax /\ asmHarm \subseteq {"past", "split", "overflow", "crossed"}
  /\ asmSess \in 1..AsmSessions
  /\ "overflow" \notin asmHarm /\ "crossed" \notin asmHarm => Len(output_buf) < OutSize
  /\ asmHarm = {} => Assembled(handled, output_buf, stream)

LEMMA AssembledEmpty == Assembled(<<>>, <<>>, <<>>)
<1>1. 1..Len(<<>>) = {} /\ <<>> \o <<>> = <<>>  OBVIOUS
<1> QED  BY <1>1, FlattenEmpty, NoNewlineEmpty DEF Assembled, Contains

LEMMA SegmentStep ==
  ASSUME AsmInv, NEW segment \in Seq(ServerByte), NEW behind \in Seq(ServerByte), Len(behind) = Len(segment),
         AsmSegment(segment, behind)
  PROVE  AsmInv'
<1>1. PICK v : v = telnet_newdata(segment, behind)  OBVIOUS
<1>2. PICK n \in Nat : n = Len(segment)  OBVIOUS
<1>3. AfterTurn(v, segment, n)  BY <1>1, <1>2, NewdataIs DEF AsmInv
<1>4. /\ Len(stream) + n <= StreamMax /\ output_buf' = v.buf /\ handled' = handled \o v.lines
      /\ asmHarm' = asmHarm \cup (IF v.t > n + 1 THEN {"past"} ELSE {})
                       \cup (IF Last(segment) = "c2" THEN {"split"} ELSE {})
                       \cup (IF v.over THEN {"overflow"} ELSE {})
      /\ stream' = stream \o segment /\ asmSess' = asmSess
  BY <1>1, <1>2 DEF AsmSegment
<1>5. v \in Loop /\ v.lines \in Seq(Seq(OutByte)) /\ v.buf \in Seq(OutByte)  BY <1>3 DEF AfterTurn, Loop
<1>6. BufTypes'
  <2>1. handled \o v.lines \in Seq(Seq(OutByte)) /\ stream \o segment \in Seq(ServerByte)
    BY <1>5 DEF AsmInv, BufTypes
  <2> QED  BY <1>4, <1>5, <2>1 DEF BufTypes
<1>7. Len(stream') <= StreamMax
  <2>1. Len(stream \o segment) = Len(stream) + n  BY <1>2 DEF AsmInv, BufTypes
  <2> QED  BY <1>4, <2>1
<1>8. asmHarm' \subseteq {"past", "split", "overflow", "crossed"}  BY <1>4 DEF AsmInv
<1>9. ASSUME "overflow" \notin asmHarm', "crossed" \notin asmHarm' PROVE Len(output_buf') < OutSize
  <2>1. "overflow" \notin asmHarm /\ "crossed" \notin asmHarm /\ ~v.over  BY <1>4, <1>9
  <2> QED  BY <1>3, <1>4, <2>1 DEF AsmInv, AfterTurn
<1>10. ASSUME asmHarm' = {} PROVE Assembled(handled', output_buf', stream')
  <2>1. asmHarm = {} /\ ~v.over /\ ~(v.t > n + 1)  BY <1>4, <1>10
  <2>2. SubSeq(segment, 1, n) = segment  BY <1>2
  <2> QED  BY <1>3, <1>4, <2>1, <2>2 DEF AsmInv, AfterTurn
<1> QED  BY <1>4, <1>6, <1>7, <1>8, <1>9, <1>10 DEF AsmInv

LEMMA AsmInvInit == AsmInit => AsmInv
<1> SUFFICES ASSUME AsmInit PROVE AsmInv  OBVIOUS
<1>1. Len(<<>>) = 0 /\ <<>> \in Seq(OutByte) /\ <<>> \in Seq(Seq(OutByte)) /\ <<>> \in Seq(ServerByte)  OBVIOUS
<1> QED  BY <1>1, AssembledEmpty, AsmConsts DEF AsmInit, AsmInv, BufTypes

LEMMA AsmInvNext == AsmInv /\ [AsmNext]_asmVars => AsmInv'
<1> SUFFICES ASSUME AsmInv, [AsmNext]_asmVars PROVE AsmInv'  OBVIOUS
<1>1. CASE AsmNewSession
  <2>1. Len(<<>>) = 0 /\ <<>> \in Seq(Seq(OutByte)) /\ <<>> \in Seq(ServerByte)  OBVIOUS
  <2>2. /\ handled' = <<>> /\ stream' = <<>> /\ output_buf' = output_buf
        /\ asmSess < AsmSessions /\ asmSess' = asmSess + 1
        /\ asmHarm' = IF output_buf = <<>> THEN {} ELSE {"crossed"}
    BY <1>1 DEF AsmNewSession
  <2>3. BufTypes' /\ Len(stream') <= StreamMax  BY <2>1, <2>2, AsmConsts DEF AsmInv, BufTypes
  <2>4. asmSess' \in 1..AsmSessions /\ asmHarm' \subseteq {"past", "split", "overflow", "crossed"}
    BY <2>2, AsmConsts DEF AsmInv
  <2>5. ASSUME "crossed" \notin asmHarm'
        PROVE  Len(output_buf') < OutSize /\ Assembled(handled', output_buf', stream')
    <3>1. output_buf' = <<>>  BY <2>2, <2>5
    <3> QED  BY <2>1, <2>2, <3>1, AssembledEmpty, AsmConsts
  <2> QED  BY <2>3, <2>4, <2>5 DEF AsmInv
<1>2. ASSUME NEW n \in 1..SegmentMax, NEW segment \in [1..n -> ServerByte], NEW behind \in Behind(segment),
             AsmSegment(segment, behind)
      PROVE  AsmInv'
  <2>1. n \in Nat  BY AsmConsts
  <2>2. segment \in Seq(ServerByte) /\ Len(segment) = n  BY <2>1, IsASeq
  <2>3. behind \in [1..n -> ServerByte]
    <3>1. "x" \in ServerByte /\ StaleBytes \subseteq ServerByte  BY AsmConsts
    <3> QED  BY <2>2, <3>1 DEF Behind
  <2>4. behind \in Seq(ServerByte) /\ Len(behind) = n  BY <2>1, <2>3, IsASeq
  <2> QED  BY <1>2, <2>2, <2>4, SegmentStep
<1>3. CASE UNCHANGED asmVars  BY <1>3 DEF asmVars, AsmInv, BufTypes
<1> QED  BY <1>1, <1>2, <1>3 DEF AsmNext

LEMMA AsmInvHolds == AsmSpec => []AsmInv
BY AsmInvInit, AsmInvNext, PTL DEF AsmSpec

(* The types of telnet_newdata's variables; without an overflow there is   *)
(* room for the NUL behind the line.                                       *)
THEOREM AsmTypeCorrect == AsmSpec => []AsmTypeOK
<1>1. AsmInv => AsmTypeOK  BY DEF AsmInv, BufTypes, OutByte, AsmTypeOK
<1> QED  BY <1>1, AsmInvHolds, PTL

(* telnet_newdata, for every stream and however it is cut: the lines that  *)
(* were handled and the one begun are the bytes the server sent, in order, *)
(* without newlines and cut exactly behind every carriage return.          *)
THEOREM LinesAsSentHolds == AsmSpec => []LinesAsSent
<1>1. AsmInv => LinesAsSent  BY DEF AsmInv, Assembled, LinesAsSent
<1> QED  BY <1>1, AsmInvHolds, PTL

-------------------------------------------------------------------------------
(* The specification that TLC runs is both of them. *)
LEMMA BothRun == MCSpec => Spec /\ AsmSpec
<1>1. MCInit => Init /\ AsmInit  BY DEF MCInit
<1>2. [MCNext]_<<vars, asmVars, part>> => [Next]_vars /\ [AsmNext]_asmVars  BY DEF MCNext
<1> QED  BY <1>1, <1>2, PTL DEF MCSpec, Spec, AsmSpec

(* The types of both components, as the run checks them: slip_buf never    *)
(* holds more than MAX_SIZE bytes (slip_dev.c), and a line that does not   *)
(* outgrow output_buf leaves room for its NUL (telnet_newdata).            *)
THEOREM LineTypesHold == MCSpec => []TypesOK
BY BothRun, TypeCorrect, AsmTypeCorrect, PTL DEF TypesOK
==============================================================================
