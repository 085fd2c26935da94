---------------------------- MODULE Programs_proofs ----------------------------
(***************************************************************************)
(* Proofs about the keyboard buffer, the configuration, the DHCP client,   *)
(* the web client, the telnet server and the web server, each about its    *)
(* own module, and then about all that MCPrograms runs.                    *)
(***************************************************************************)
EXTENDS MCPrograms, DataInduction, SequenceTheorems, FiniteSetTheorems, TLAPS

-------------------------------------------------------------------------------
(***************************************************************************)
(* Keyboard: for every size of the buffer and any number of keys, wherever *)
(* the keyboard interrupt hits.                                            *)
(***************************************************************************)

Waiting  == keybuf_head..(keybuf_tail - 1)
Returned == 1..Len(read)

(* Every place a key can be in holds a key that was pressed.               *)
KeysKnown ==
  /\ CH <= pressed
  /\ \A i \in Returned : read[i] \in 1..pressed
  /\ \A j \in Waiting : buf[j] \in 1..pressed
  /\ pc = "clear" => keybuf_head < keybuf_tail /\ CH # NO_KEY

(* No key is in two places, except while poll_kbd has copied CH and not    *)
(* yet cleared it.                                                         *)
Distinct ==
  /\ \A i, j \in Returned : read[i] = read[j] => i = j
  /\ \A i, j \in Waiting : buf[i] = buf[j] => i = j
  /\ \A i \in Returned, j \in Waiting : read[i] # buf[j]
  /\ \A i \in Returned : read[i] # CH
  /\ \A j \in Waiting : buf[j] = CH => pc = "clear" /\ j = keybuf_tail - 1

(* The keys on their way are the last ones pressed, in order.  b is the    *)
(* number of keys ahead of the buffer.                                     *)
Ahead == IF pc = "get" THEN Len(read) + 1 ELSE Len(read)

Ordered ==
  harm = {} =>
    /\ \A i \in Returned : read[i] = i
    /\ \A j \in Waiting : buf[j] = Ahead + (j - keybuf_head) + 1
    /\ pc = "get" => CH = Len(read) + 1
    /\ pc = "clear" => CH = pressed
    /\ pressed = Ahead + (keybuf_tail - keybuf_head)
                   + (IF pc = "loop" /\ CH # NO_KEY THEN 1 ELSE 0)
    /\ pc = "loop" /\ CH # NO_KEY => CH = pressed

KeyboardInv == TypeOK /\ KeysKnown /\ Distinct /\ Ordered /\ NeverWaits

-------------------------------------------------------------------------------
LEMMA KeyboardInvInit == Init => KeyboardInv
  <1> SUFFICES ASSUME Init PROVE KeyboardInv
    OBVIOUS
  <1>1. TypeOK /\ Len(read) = 0
    BY KeyboardAssumption DEF Init, TypeOK, Keys, NO_KEY
  <1>2. QED
    BY <1>1 DEF Init, KeyboardInv, KeysKnown, Distinct, Ordered, Ahead, NeverWaits, Waiting, Returned, NO_KEY

LEMMA InvPress == KeyboardInv /\ Press => KeyboardInv'
  <1> SUFFICES ASSUME KeyboardInv, Press PROVE KeyboardInv'
    OBVIOUS
  <1>1. TypeOK'
    <2>1. harm' \subseteq {"overrun", "stuffed", "mode"}
      BY DEF KeyboardInv, TypeOK, Press, Harm
    <2>2. pressed + 1 \in Keys
      BY KeyboardAssumption DEF KeyboardInv, TypeOK, Press, Keys
    <2>3. modes' \subseteq Keys /\ CH' \in Keys \cup {NO_KEY} /\ pressed' \in 0..MaxKeys
      BY <2>2, KeyboardAssumption DEF KeyboardInv, TypeOK, Press, Keys
    <2>4. QED
      BY <2>1, <2>3 DEF KeyboardInv, TypeOK, Press
  <1>2. KeysKnown'
    BY KeyboardAssumption DEF KeyboardInv, TypeOK, KeysKnown, Press, Waiting, Returned, Keys, NO_KEY
  <1>3. Distinct'
    BY KeyboardAssumption DEF KeyboardInv, TypeOK, KeysKnown, Distinct, Press, Waiting, Returned, Keys, NO_KEY
  <1>4. Ordered'
    <2>1. CASE harm' = {}
      <3>1. harm = {} /\ CH = NO_KEY
        BY <2>1 DEF Press, Harm
      <3>2. pc = "loop"
        BY <3>1 DEF KeyboardInv, TypeOK, KeysKnown, NeverWaits
      <3>3. QED
        BY <3>1, <3>2, KeyboardAssumption
           DEF KeyboardInv, TypeOK, Ordered, Ahead, Press, Waiting, Returned, Keys, NO_KEY
    <2>2. QED
      BY <2>1 DEF Ordered
  <1>5. NeverWaits'
    BY KeyboardAssumption DEF KeyboardInv, TypeOK, Press, NeverWaits, NO_KEY
  <1>6. QED
    BY <1>1, <1>2, <1>3, <1>4, <1>5 DEF KeyboardInv

LEMMA InvPoll == KeyboardInv /\ keybuf_poll_kbd => KeyboardInv'
  <1> SUFFICES ASSUME KeyboardInv, keybuf_poll_kbd PROVE KeyboardInv'
    OBVIOUS
  <1>1. TypeOK'
    BY KeyboardAssumption DEF KeyboardInv, TypeOK, keybuf_poll_kbd, Full, Keys, NO_KEY
  <1>2. /\ Waiting' = Waiting \cup {keybuf_tail} /\ keybuf_tail \notin Waiting
        /\ buf'[keybuf_tail] = CH /\ \A j \in Waiting : buf'[j] = buf[j]
    BY KeyboardAssumption DEF KeyboardInv, TypeOK, keybuf_poll_kbd, Full, Waiting
  <1>3. CH \in 1..pressed
    BY KeyboardAssumption DEF KeyboardInv, TypeOK, KeysKnown, keybuf_poll_kbd, Keys, NO_KEY
  <1>4. KeysKnown'
    BY <1>2, <1>3, KeyboardAssumption DEF KeyboardInv, TypeOK, KeysKnown, keybuf_poll_kbd, Returned
  <1>5. Distinct'
    BY <1>2, <1>3, KeyboardAssumption DEF KeyboardInv, TypeOK, Distinct, keybuf_poll_kbd, Returned
  <1>6. Ordered'
    <2>1. CASE harm = {}
      <3>1. /\ pc = "loop" /\ pc' = "clear" /\ Ahead = Len(read) /\ Ahead' = Len(read)
            /\ Len(read) \in Nat
        BY DEF KeyboardInv, TypeOK, Ahead, keybuf_poll_kbd
      <3>2. /\ CH = pressed /\ pressed = Len(read) + (keybuf_tail - keybuf_head) + 1
            /\ \A j \in Waiting : buf[j] = Len(read) + (j - keybuf_head) + 1
            /\ \A i \in Returned : read[i] = i
        BY <2>1, <3>1 DEF KeyboardInv, Ordered, keybuf_poll_kbd
      <3>3. /\ keybuf_tail' = keybuf_tail + 1 /\ CH' = CH /\ pressed' = pressed
            /\ read' = read /\ keybuf_head' = keybuf_head /\ Returned' = Returned
            /\ keybuf_head \in Nat /\ keybuf_tail \in Nat
        BY KeyboardAssumption DEF KeyboardInv, TypeOK, keybuf_poll_kbd, Returned
      <3>4. \A j \in Waiting' : buf'[j] = Len(read) + (j - keybuf_head) + 1
        BY <1>2, <3>2, <3>3
      <3>5. QED
        BY <3>1, <3>2, <3>3, <3>4 DEF Ordered
    <2>2. QED
      BY <2>1 DEF Ordered, keybuf_poll_kbd
  <1>7. NeverWaits'
    BY DEF keybuf_poll_kbd, NeverWaits
  <1>8. QED
    BY <1>1, <1>4, <1>5, <1>6, <1>7 DEF KeyboardInv

LEMMA InvClear == KeyboardInv /\ ClearCH => KeyboardInv'
  <1> SUFFICES ASSUME KeyboardInv, ClearCH PROVE KeyboardInv'
    OBVIOUS
  <1>1. TypeOK'
    BY DEF KeyboardInv, TypeOK, ClearCH
  <1>2. KeysKnown' /\ Distinct'
    BY KeyboardAssumption
       DEF KeyboardInv, TypeOK, KeysKnown, Distinct, ClearCH, Waiting, Returned, NO_KEY
  <1>3. Ordered'
    BY KeyboardAssumption
       DEF KeyboardInv, TypeOK, Ordered, Ahead, ClearCH, Waiting, Returned, NO_KEY
  <1>4. NeverWaits'
    BY DEF ClearCH, NeverWaits
  <1>5. QED
    BY <1>1, <1>2, <1>3, <1>4 DEF KeyboardInv

LEMMA InvCgetcBuffered == KeyboardInv /\ CgetcBuffered => KeyboardInv'
  <1> SUFFICES ASSUME KeyboardInv, CgetcBuffered PROVE KeyboardInv'
    OBVIOUS
  <1>1. /\ keybuf_head \in Waiting /\ Waiting' = Waiting \ {keybuf_head}
        /\ keybuf_head \in 0..max_buf_len /\ keybuf_head' \in 0..keybuf_tail'
    BY KeyboardAssumption DEF KeyboardInv, TypeOK, CgetcBuffered, Waiting
  <1>2. buf[keybuf_head] \in 1..pressed
    BY <1>1 DEF KeyboardInv, KeysKnown
  <1>3. harm' \subseteq {"overrun", "stuffed", "mode"}
    BY DEF KeyboardInv, TypeOK, CgetcBuffered, Harm
  <1>4. TypeOK'
    BY <1>1, <1>2, <1>3, KeyboardAssumption DEF KeyboardInv, TypeOK, CgetcBuffered, Keys
  <1>5. KeysKnown'
    BY <1>1, <1>2, KeyboardAssumption
       DEF KeyboardInv, TypeOK, KeysKnown, CgetcBuffered, Returned, NO_KEY
  <1>6. Distinct'
    BY <1>1, <1>2, KeyboardAssumption DEF KeyboardInv, TypeOK, Distinct, CgetcBuffered, Returned
  <1>7. Ordered'
    <2>1. CASE harm' = {}
      <3>1. harm = {} /\ CH = NO_KEY
        BY <2>1 DEF CgetcBuffered, Harm
      <3>2. QED
        BY <3>1, <1>1, KeyboardAssumption
           DEF KeyboardInv, TypeOK, Ordered, Ahead, CgetcBuffered, Waiting, Returned, NO_KEY
    <2>2. QED
      BY <2>1 DEF Ordered
  <1>8. NeverWaits'
    BY <1>2, KeyboardAssumption DEF KeyboardInv, TypeOK, CgetcBuffered, NeverWaits, NO_KEY
  <1>9. QED
    BY <1>4, <1>5, <1>6, <1>7, <1>8 DEF KeyboardInv

LEMMA InvCgetcEmpty == KeyboardInv /\ CgetcEmpty => KeyboardInv'
  <1> SUFFICES ASSUME KeyboardInv, CgetcEmpty PROVE KeyboardInv'
    OBVIOUS
  <1>1. Waiting = {} /\ Waiting' = {}
    BY DEF KeyboardInv, TypeOK, CgetcEmpty, Waiting
  <1>2. pc' \in {"loop", "get"} /\ (pc' = "get" <=> CH # NO_KEY)
    BY DEF CgetcEmpty
  <1>3. TypeOK'
    BY <1>2, KeyboardAssumption DEF KeyboardInv, TypeOK, CgetcEmpty
  <1>4. KeysKnown' /\ Distinct'
    BY <1>1, <1>2 DEF KeyboardInv, TypeOK, KeysKnown, Distinct, CgetcEmpty, Returned
  <1>5. Ordered'
    <2>1. CASE harm = {}
      <3>1. CASE CH = NO_KEY
        BY <1>1, <1>2, <2>1, <3>1
           DEF KeyboardInv, TypeOK, Ordered, Ahead, CgetcEmpty, Returned, NO_KEY
      <3>2. CASE CH # NO_KEY
        BY <1>1, <1>2, <2>1, <3>2
           DEF KeyboardInv, TypeOK, Ordered, Ahead, CgetcEmpty, Returned, NO_KEY
      <3>3. QED
        BY <3>1, <3>2
    <2>2. QED
      BY <2>1 DEF Ordered, CgetcEmpty
  <1>6. NeverWaits'
    BY <1>2 DEF CgetcEmpty, NeverWaits
  <1>7. QED
    BY <1>3, <1>4, <1>5, <1>6 DEF KeyboardInv

LEMMA InvGet == KeyboardInv /\ fuji_cgetc => KeyboardInv'
  <1> SUFFICES ASSUME KeyboardInv, fuji_cgetc PROVE KeyboardInv'
    OBVIOUS
  <1>1. CH \in 1..pressed /\ CH \in Keys /\ Waiting' = Waiting
    BY KeyboardAssumption DEF KeyboardInv, TypeOK, KeysKnown, fuji_cgetc, Keys, NO_KEY, Waiting
  <1>2. CASE CH \in modes
    <2>1. TypeOK'
      BY <1>2 DEF KeyboardInv, TypeOK, fuji_cgetc
    <2>2. KeysKnown' /\ Distinct'
      BY <1>1, <1>2, KeyboardAssumption
         DEF KeyboardInv, TypeOK, KeysKnown, Distinct, fuji_cgetc, Returned, NO_KEY
    <2>3. Ordered' /\ NeverWaits'
      BY <1>2 DEF Ordered, NeverWaits, fuji_cgetc
    <2>4. QED
      BY <2>1, <2>2, <2>3 DEF KeyboardInv
  <1>3. CASE CH \notin modes
    <2>1. /\ read' \in Seq(Keys) /\ Len(read') = Len(read) + 1
          /\ Returned' = Returned \cup {Len(read) + 1} /\ Len(read) \in Nat
          /\ read'[Len(read) + 1] = CH /\ \A i \in Returned : read'[i] = read[i]
      BY <1>1, <1>3 DEF KeyboardInv, TypeOK, fuji_cgetc, Returned
    <2>2. TypeOK'
      BY <1>3, <2>1 DEF KeyboardInv, TypeOK, fuji_cgetc
    <2>3. KeysKnown'
      BY <1>1, <1>3, <2>1, KeyboardAssumption DEF KeyboardInv, TypeOK, KeysKnown, fuji_cgetc, NO_KEY
    <2>4. Distinct'
      BY <1>1, <1>3, <2>1, KeyboardAssumption
         DEF KeyboardInv, TypeOK, KeysKnown, Distinct, fuji_cgetc, NO_KEY
    <2>5. Ordered'
      BY <1>1, <1>3, <2>1, KeyboardAssumption
         DEF KeyboardInv, TypeOK, Ordered, Ahead, fuji_cgetc, NO_KEY
    <2>6. NeverWaits'
      BY <1>3 DEF NeverWaits, fuji_cgetc
    <2>7. QED
      BY <2>2, <2>3, <2>4, <2>5, <2>6 DEF KeyboardInv
  <1>4. QED
    BY <1>2, <1>3

LEMMA KeyboardInvNext == KeyboardInv /\ [Next]_vars => KeyboardInv'
  <1>1. KeyboardInv /\ UNCHANGED vars => KeyboardInv'
    BY DEF KeyboardInv, TypeOK, KeysKnown, Distinct, Ordered, Ahead, NeverWaits, Waiting, Returned, vars
  <1>2. QED
    BY <1>1, InvPress, InvPoll, InvClear, InvCgetcBuffered, InvCgetcEmpty, InvGet
       DEF Next, Cgetc

LEMMA KeyboardInvCorrect == Spec => []KeyboardInv
  BY KeyboardInvInit, KeyboardInvNext, PTL DEF Spec

-------------------------------------------------------------------------------
(* The type invariant: the buffer is never written behind its one spare    *)
(* byte, and its head never passes its tail.                               *)
THEOREM KeyboardTypeCorrect == Spec => []TypeOK
  <1>1. KeyboardInv => TypeOK
    BY DEF KeyboardInv
  <1>2. QED
    BY <1>1, KeyboardInvCorrect, PTL

(* keybuf_cgetc returns no key twice, wherever an interrupt hits.          *)
THEOREM OncePerKeyHolds == Spec => []OncePerKey
  <1>1. KeyboardInv => OncePerKey
    BY DEF KeyboardInv, TypeOK, Distinct, Returned, OncePerKey
  <1>2. QED
    BY <1>1, KeyboardInvCorrect, PTL

(* keybuf_cgetc never leaves the main loop waiting for a key press, unless *)
(* a key without a character was pressed.                                  *)
THEOREM NeverWaitsHolds == Spec => []NeverWaits
  <1>1. KeyboardInv => NeverWaits
    BY DEF KeyboardInv
  <1>2. QED
    BY <1>1, KeyboardInvCorrect, PTL

(* Concatenation, element by element.                                      *)
LEMMA ConcatElements ==
  ASSUME NEW q \in Seq(Nat), NEW t \in Seq(Nat)
  PROVE  /\ q \o t \in Seq(Nat) /\ Len(q \o t) = Len(q) + Len(t)
         /\ \A i \in 1..Len(q) : (q \o t)[i] = q[i]
         /\ \A i \in 1..Len(t) : (q \o t)[Len(q) + i] = t[i]
  OBVIOUS

(* A sequence whose i-th element is n + i.                                 *)
Counts(q, n) == q \in Seq(Nat) /\ \A i \in 1..Len(q) : q[i] = n + i

LEMMA CountsConcat ==
  ASSUME NEW n \in Nat, NEW q, Counts(q, n), NEW t, Counts(t, n + Len(q))
  PROVE  Counts(q \o t, n) /\ Len(q \o t) = Len(q) + Len(t)
  <1>1. q \in Seq(Nat) /\ t \in Seq(Nat) /\ Len(q) \in Nat /\ Len(t) \in Nat
    BY DEF Counts
  <1>2. q \o t \in Seq(Nat) /\ Len(q \o t) = Len(q) + Len(t)
    BY <1>1, ConcatElements
  <1>3. ASSUME NEW i \in 1..(Len(q) + Len(t)) PROVE (q \o t)[i] = n + i
    <2>1. CASE i <= Len(q)
      BY <1>1, <2>1, ConcatElements DEF Counts
    <2>2. CASE i > Len(q)
      <3>1. i - Len(q) \in 1..Len(t) /\ Len(q) + (i - Len(q)) = i
        BY <1>1, <2>2
      <3>2. (q \o t)[Len(q) + (i - Len(q))] = t[i - Len(q)]
        BY <1>1, <3>1, ConcatElements
      <3>3. t[i - Len(q)] = (n + Len(q)) + (i - Len(q))
        BY <3>1 DEF Counts
      <3>4. QED
        BY <1>1, <3>1, <3>2, <3>3
    <2>3. QED
      BY <1>1, <2>1, <2>2
  <1>4. QED
    BY <1>2, <1>3 DEF Counts

LEMMA CountsFromOne ==
  ASSUME NEW q, Counts(q, 0) PROVE q = [k \in 1..Len(q) |-> k]
  <1>1. q = [k \in 1..Len(q) |-> q[k]]
    BY DEF Counts
  <1>2. \A k \in 1..Len(q) : q[k] = k
    BY DEF Counts
  <1>3. QED
    BY <1>1, <1>2

LEMMA CountsOne == ASSUME NEW n \in Nat PROVE Counts(<<n + 1>>, n) /\ Len(<<n + 1>>) = 1
  BY DEF Counts

(* As long as no key press hit an unread key, no key is lost and the order *)
(* of typing is kept.                                                      *)
LEMMA OrderedKept == KeyboardInv => KeysKept
  <1> SUFFICES ASSUME KeyboardInv, harm = {}
               PROVE  read \o Pending = [k \in 1..pressed |-> k]
    BY DEF KeysKept
  <1>1. /\ keybuf_head \in Nat /\ keybuf_tail \in Nat /\ keybuf_head <= keybuf_tail
        /\ Len(read) \in Nat /\ read \in Seq(Nat) /\ pressed \in Nat /\ CH \in Nat
    BY KeyboardAssumption DEF KeyboardInv, TypeOK, Keys, NO_KEY
  <1>2. /\ Ahead \in Nat
        /\ \A j \in Waiting : buf[j] = Ahead + (j - keybuf_head) + 1
        /\ pressed = Ahead + (keybuf_tail - keybuf_head)
                       + (IF pc = "loop" /\ CH # NO_KEY THEN 1 ELSE 0)
    BY <1>1 DEF KeyboardInv, Ordered, Ahead
  <1>3. Counts(Buffered, Ahead) /\ Len(Buffered) = keybuf_tail - keybuf_head
    <2>1. ASSUME NEW i \in 1..(keybuf_tail - keybuf_head)
          PROVE  buf[keybuf_head + i - 1] = Ahead + i /\ Ahead + i \in Nat
      <3>1. /\ keybuf_head + i - 1 \in Waiting
            /\ Ahead + ((keybuf_head + i - 1) - keybuf_head) + 1 = Ahead + i
            /\ Ahead + i \in Nat
        BY <1>1, <1>2 DEF Waiting
      <3>2. buf[keybuf_head + i - 1] = Ahead + ((keybuf_head + i - 1) - keybuf_head) + 1
        BY <1>2, <3>1
      <3>3. QED
        BY <3>1, <3>2
    <2>2. keybuf_tail - keybuf_head \in Nat
      BY <1>1
    <2>3. QED
      BY <2>1, <2>2 DEF Buffered, Counts
  <1>4. Counts(Pending, Len(read)) /\ Len(read) + Len(Pending) = pressed
    <2>1. CASE pc = "get"
      <3>0. PICK first : first = <<CH>>
        OBVIOUS
      <3>1. Pending = first \o Buffered
        BY <2>1, <3>0 DEF Pending
      <3>2. Ahead = Len(read) + 1 /\ CH = Len(read) + 1
        BY <2>1 DEF KeyboardInv, Ordered, Ahead
      <3>3. pressed = Ahead + (keybuf_tail - keybuf_head)
        BY <1>1, <1>2, <2>1
      <3>4. Counts(first, Len(read)) /\ Len(first) = 1
        BY <1>1, <3>0, <3>2, CountsOne
      <3>5. Counts(Pending, Len(read)) /\ Len(Pending) = Len(first) + Len(Buffered)
        <4>1. Counts(Buffered, Len(read) + Len(first))
          BY <1>3, <3>2, <3>4
        <4>2. /\ Counts(first \o Buffered, Len(read))
              /\ Len(first \o Buffered) = Len(first) + Len(Buffered)
          <5>1. Counts(first, Len(read)) /\ Len(read) \in Nat
            BY <1>1, <3>4
          <5>2. QED
            BY <4>1, <5>1, CountsConcat, Zenon
        <4>3. QED
          BY <3>1, <4>2
      <3>6. QED
        BY <1>1, <1>3, <3>2, <3>3, <3>4, <3>5
    <2>2. CASE pc = "clear" \/ (pc = "loop" /\ CH = NO_KEY)
      <3>1. Pending = Buffered
        <4>1. Buffered \o <<>> = Buffered
          BY <1>3 DEF Counts
        <4>2. QED
          BY <2>2, <4>1 DEF Pending
      <3>2. Ahead = Len(read)
        BY <2>2 DEF Ahead
      <3>3. pressed = Ahead + (keybuf_tail - keybuf_head)
        BY <1>1, <1>2, <2>2
      <3>4. QED
        BY <1>1, <1>3, <3>1, <3>2, <3>3
    <2>3. CASE pc = "loop" /\ CH # NO_KEY
      <3>0. PICK last : last = <<CH>>
        OBVIOUS
      <3>1. Pending = Buffered \o last
        BY <2>3, <3>0 DEF Pending
      <3>2. Ahead = Len(read) /\ CH = pressed
        BY <2>3 DEF KeyboardInv, Ordered, Ahead
      <3>3. pressed = (Ahead + (keybuf_tail - keybuf_head)) + 1
        BY <1>1, <1>2, <2>3
      <3>4. Len(read) + Len(Buffered) \in Nat /\ CH = (Len(read) + Len(Buffered)) + 1
        BY <1>1, <1>3, <3>2, <3>3
      <3>5. Counts(last, Len(read) + Len(Buffered)) /\ Len(last) = 1
        BY <3>0, <3>4, CountsOne
      <3>6. Counts(Pending, Len(read)) /\ Len(Pending) = Len(Buffered) + Len(last)
        <4>1. Counts(Buffered, Len(read))
          BY <1>3, <3>2
        <4>2. /\ Counts(Buffered \o last, Len(read))
              /\ Len(Buffered \o last) = Len(Buffered) + Len(last)
          <5>1. Counts(last, Len(read) + Len(Buffered)) /\ Len(read) \in Nat
            BY <1>1, <3>5
          <5>2. QED
            BY <4>1, <5>1, CountsConcat, Zenon
        <4>3. QED
          BY <3>1, <4>2
      <3>7. QED
        BY <1>1, <1>3, <3>4, <3>5, <3>6, <3>2
    <2>4. QED
      BY <2>1, <2>2, <2>3 DEF KeyboardInv, TypeOK
  <1>5. Counts(read, 0)
    BY <1>1 DEF KeyboardInv, Ordered, Returned, Counts
  <1>6. Counts(read \o Pending, 0) /\ Len(read \o Pending) = pressed
    BY <1>1, <1>4, <1>5, CountsConcat
  <1>7. QED
    BY <1>6, CountsFromOne

(* Every key is read or on its way, in the order of typing, none twice.    *)
THEOREM KeysKeptHolds == Spec => []KeysKept
  BY OrderedKept, KeyboardInvCorrect, PTL

(* Together: what the program reads is what was typed.                     *)
THEOREM KeysAsTypedHolds == Spec => []KeysAsTyped
  BY KeysKeptHolds, OncePerKeyHolds, PTL DEF KeysAsTyped

-------------------------------------------------------------------------------
(***************************************************************************)
(* Config: for every number of fields, every value and every number of     *)
(* saves, the programs never run with settings nobody has chosen, and a    *)
(* save that was cut short is noticed.                                     *)
(***************************************************************************)

(* The fields that have a default, or were entered, are not junk.          *)
Chosen(m) == \A f \in (2..Fields) \ NotDefault : m[f] # "junk"

(* The file is as far as it goes what was last saved, or never was saved   *)
(* by these programs.                                                      *)
OfSave ==
  \/ file = None
  \/ Len(file) = Fields /\ file[1] = "junk"
  \/ confirmed \in Record /\ \A f \in 1..Len(file) : file[f] = confirmed[f]

ConfigInv ==
  /\ CfgTypeOK
  /\ prog \in {"asking", "chat"} => config_is_valid(mem)
  /\ config_is_valid(mem) /\ ~cfgHarm => Chosen(mem)
  /\ confirmed \in Record /\ ~cfgHarm => Chosen(confirmed)
  /\ file \in Seq(Value) \/ file = None
  /\ OfSave
  /\ prog = "saving" => /\ confirmed = mem /\ file \in Seq(Value)
                        /\ \A f \in 1..Len(file) : file[f] = mem[f]

LEMMA ReadIsRecord == ASSUME ConfigInv PROVE ReadInto(mem) \in Record
  BY ConfigAssumption DEF ConfigInv, CfgTypeOK, ReadInto, Record

LEMMA DefaultIsRecord ==
  ASSUME NEW m \in Record
  PROVE  /\ set_default_config(m) \in Record
         /\ config_is_valid(set_default_config(m)) /\ Chosen(set_default_config(m))
<1> DEFINE d == set_default_config(m)
<1>1. 1 \in 1..Fields /\ {"current", "default"} \subseteq Value
  BY ConfigAssumption DEF Value
<1>2. d \in Record
  BY <1>1 DEF set_default_config, Record
<1>3. d[1] = "current"
  BY <1>1 DEF set_default_config
<1>4. ASSUME NEW f \in (2..Fields) \ NotDefault PROVE d[f] = "default"
  BY <1>4, ConfigAssumption DEF set_default_config
<1> QED
  BY <1>2, <1>3, <1>4 DEF config_is_valid, Chosen

(* What get_config accepts is what was last saved.                         *)
LEMMA Loaded ==
  ASSUME ConfigInv, get_config
  PROVE  /\ file = confirmed /\ confirmed \in Record
         /\ ReadInto(mem) = confirmed /\ config_is_valid(confirmed)
<1>1. file \in Seq(Value) /\ Len(file) = Fields /\ file # None
  BY DEF ConfigInv, get_config
<1>2. file \in [1..Fields -> Value]
  BY <1>1
<1>3. 1 \in 1..Fields
  BY ConfigAssumption
<1>4. ReadInto(mem) = file
  BY <1>1, <1>2 DEF ReadInto
<1>5. file[1] = "current"
  BY <1>4 DEF get_config, config_is_valid
<1>6. confirmed \in Record /\ \A f \in 1..Fields : file[f] = confirmed[f]
  BY <1>1, <1>5 DEF ConfigInv, OfSave
<1>7. file = confirmed
  <2>1. file = [f \in 1..Fields |-> file[f]] /\ confirmed = [f \in 1..Fields |-> confirmed[f]]
    BY <1>2, <1>6 DEF Record
  <2> QED
    BY <1>6, <2>1
<1> QED
  BY <1>4, <1>5, <1>6, <1>7 DEF config_is_valid

LEMMA NoneIsNoRecord == None \notin Record
<1>1. DOMAIN None = 1..1
  BY DEF None
<1>2. 2 \in 1..Fields /\ 2 \notin 1..1
  BY ConfigAssumption
<1> QED
  BY <1>1, <1>2 DEF Record

LEMMA ConfigInitInv == CfgInit => ConfigInv
<1> SUFFICES ASSUME CfgInit PROVE ConfigInv
  OBVIOUS
<1>1. mem \in Record /\ ~config_is_valid(mem)
  BY ConfigAssumption DEF CfgInit, Junk, Record, Value, config_is_valid
<1>2. /\ prog = "dos" /\ autorun \in {"whole", "torn"} /\ saves = 0 /\ cfgHarm = FALSE
      /\ confirmed = None /\ None \notin Record
  BY NoneIsNoRecord DEF CfgInit
<1>3. \/ file = None
      \/ file \in Seq(Value) /\ Len(file) = Fields /\ file[1] = "junk"
  <2>1. CASE file = [f \in 1..Fields |-> IF f = 1 THEN "junk" ELSE "default"]
    <3>1. file \in [1..Fields -> Value] /\ file[1] = "junk"
      BY <2>1, ConfigAssumption DEF Value
    <3> QED
      BY <3>1, ConfigAssumption
  <2> QED
    BY <2>1 DEF CfgInit
<1>4. CfgTypeOK
  <2>1. saves \in 0..Saves /\ (file = None \/ (file \in Seq(Value) /\ Len(file) <= Fields))
    BY <1>2, <1>3, ConfigAssumption
  <2>2. cfgHarm \in BOOLEAN /\ confirmed \in {None} \cup Record
    BY <1>2
  <2> QED
    BY <1>1, <1>2, <2>1, <2>2 DEF CfgTypeOK
<1>5. OfSave /\ (file \in Seq(Value) \/ file = None)
  BY <1>3 DEF OfSave
<1> QED
  BY <1>1, <1>2, <1>4, <1>5 DEF ConfigInv
(***************************************************************************)
(* The starts of the programs.  Each only reads the file into the record.  *)
(***************************************************************************)
LEMMA MenuStarts == ASSUME ConfigInv, StartMenu PROVE ConfigInv'
<1>1. mem' \in Record /\ (~cfgHarm => Chosen(mem'))
  <2>1. CASE get_config
    BY <2>1, Loaded DEF StartMenu, ConfigInv
  <2>2. CASE ~get_config
    BY <2>2, ReadIsRecord, DefaultIsRecord DEF StartMenu
  <2> QED
    BY <2>1, <2>2
<1>2. UNCHANGED <<file, autorun, saves, confirmed, cfgHarm>> /\ prog' = "menu"
  BY DEF StartMenu
<1>3. CfgTypeOK'
  BY <1>1, <1>2 DEF ConfigInv, CfgTypeOK
<1> QED
  BY <1>1, <1>2, <1>3 DEF ConfigInv, OfSave, Chosen, config_is_valid

LEMMA SetupStarts == ASSUME ConfigInv, StartSetup PROVE ConfigInv'
<1> DEFINE m == ReadInto(mem)
<1>1. m \in Record
  BY ReadIsRecord
<1>2. mem' \in Record /\ config_is_valid(mem') /\ (~cfgHarm' => Chosen(mem'))
  <2>1. CASE config_is_valid(m) /\ get_config
    BY <1>1, <2>1, Loaded DEF StartSetup, ConfigInv
  <2>2. CASE config_is_valid(m) /\ ~get_config
    BY <1>1, <2>2 DEF StartSetup
  <2>3. CASE ~config_is_valid(m)
    BY <1>1, <2>3, DefaultIsRecord DEF StartSetup
  <2> QED
    BY <2>1, <2>2, <2>3
<1>3. /\ UNCHANGED <<file, autorun, saves, confirmed>> /\ prog' = "asking"
      /\ cfgHarm' \in BOOLEAN /\ (cfgHarm => cfgHarm')
  BY DEF StartSetup, ConfigInv, CfgTypeOK
<1>4. CfgTypeOK'
  BY <1>2, <1>3 DEF ConfigInv, CfgTypeOK
<1> QED
  BY <1>2, <1>3, <1>4 DEF ConfigInv, OfSave, Chosen, config_is_valid

LEMMA ChatStarts == ASSUME ConfigInv, StartChat PROVE ConfigInv'
<1>1. mem' \in Record /\ config_is_valid(mem') /\ (~cfgHarm => Chosen(mem'))
  <2>1. CASE config_is_valid(mem)
    BY <2>1 DEF StartChat, ConfigInv, CfgTypeOK
  <2>2. CASE ~config_is_valid(mem) /\ get_config
    BY <2>2, Loaded DEF StartChat, ConfigInv
  <2>3. CASE ~config_is_valid(mem) /\ ~get_config
    BY <2>3, ReadIsRecord, DefaultIsRecord DEF StartChat
  <2> QED
    BY <2>1, <2>2, <2>3
<1>2. UNCHANGED <<file, autorun, saves, confirmed, cfgHarm>> /\ prog' = "chat"
  BY DEF StartChat
<1>3. CfgTypeOK'
  BY <1>1, <1>2 DEF ConfigInv, CfgTypeOK
<1> QED
  BY <1>1, <1>2, <1>3 DEF ConfigInv, OfSave, Chosen, config_is_valid

(* A program ends without starting another that asks or chats. *)
LEMMA ProgramEnds ==
  ASSUME ConfigInv, NEW p, End(p),
         p \in {"dos", "menu", "configured", "hung", "makeauto"}
           \/ (p \in {"asking", "chat"} /\ prog = p)
  PROVE  ConfigInv'
<1>1. CfgTypeOK'
  BY DEF End, ConfigInv, CfgTypeOK
<1> QED
  BY <1>1 DEF End, ConfigInv, OfSave, Chosen, config_is_valid

LEMMA MakeautoStarts == ASSUME ConfigInv, StartMakeauto PROVE ConfigInv'
  BY ProgramEnds DEF StartMakeauto, End

-------------------------------------------------------------------------------
(* An answer of the user is no junk and leaves the signature. *)
LEMMA FieldEntered ==
  ASSUME ConfigInv, NEW f \in 2..Fields, NEW v \in Entered, mem' = [mem EXCEPT ![f] = v],
         prog \in {"asking", "chat"},
         UNCHANGED <<prog, file, autorun, saves, confirmed, cfgHarm>>
  PROVE  ConfigInv'
<1>1. mem' \in Record /\ mem'[1] = mem[1] /\ v # "junk"
  BY ConfigAssumption DEF ConfigInv, CfgTypeOK, Record, Value
<1>2. Chosen(mem) => Chosen(mem')
  BY <1>1 DEF Chosen, ConfigInv, CfgTypeOK, Record
<1>3. CfgTypeOK'
  BY <1>1 DEF ConfigInv, CfgTypeOK
<1> QED
  BY <1>1, <1>2, <1>3 DEF ConfigInv, OfSave, Chosen, config_is_valid

LEMMA SaveBegins == ASSUME ConfigInv, save_config PROVE ConfigInv'
<1>1. CASE prog' = "saving" /\ file' = <<>> /\ confirmed' = mem
  <2>1. CfgTypeOK'
    BY <1>1, ConfigAssumption DEF save_config, ConfigInv, CfgTypeOK
  <2>2. config_is_valid(mem) /\ (~cfgHarm => Chosen(mem)) /\ mem \in Record
    BY DEF save_config, ConfigInv, CfgTypeOK
  <2> QED
    BY <1>1, <2>1, <2>2 DEF save_config, ConfigInv, OfSave, Chosen, config_is_valid
<1>2. CASE prog' = "configured" /\ UNCHANGED <<file, confirmed>>
  <2>1. CfgTypeOK'
    BY <1>2, ConfigAssumption DEF save_config, ConfigInv, CfgTypeOK
  <2> QED
    BY <1>2, <2>1 DEF save_config, ConfigInv, OfSave, Chosen, config_is_valid
<1> QED
  BY <1>1, <1>2 DEF save_config

LEMMA FieldWritten == ASSUME ConfigInv, WriteField PROVE ConfigInv'
<1>1. /\ file \in Seq(Value) /\ confirmed = mem /\ mem \in Record
      /\ \A f \in 1..Len(file) : file[f] = mem[f]
  BY DEF WriteField, ConfigInv, CfgTypeOK
<1>2. Len(file) \in Nat /\ Len(file) < Fields /\ mem[Len(file) + 1] \in Value
  BY <1>1, ConfigAssumption DEF WriteField, Record
<1>3. /\ file' \in Seq(Value) /\ Len(file') = Len(file) + 1
      /\ \A f \in 1..Len(file') : file'[f] = mem[f]
  BY <1>1, <1>2 DEF WriteField
<1>4. CfgTypeOK'
  BY <1>2, <1>3, ConfigAssumption DEF WriteField, ConfigInv, CfgTypeOK
<1> QED
  BY <1>1, <1>3, <1>4 DEF WriteField, ConfigInv, OfSave, Chosen, config_is_valid

LEMMA MemoryLost == ASSUME ConfigInv, PowerOn PROVE ConfigInv'
<1>1. Junk \in Record /\ Junk[1] = "junk"
  BY ConfigAssumption DEF Junk, Record, Value
<1>2. mem' \in Record /\ (mem' = mem \/ ~config_is_valid(mem'))
  BY <1>1 DEF PowerOn, ConfigInv, CfgTypeOK, config_is_valid
<1>3. CfgTypeOK' /\ prog' \in {"booting", "dos"}
  BY <1>2 DEF PowerOn, ConfigInv, CfgTypeOK
<1> QED
  BY <1>2, <1>3 DEF PowerOn, ConfigInv, OfSave, Chosen, config_is_valid

LEMMA Appended == ASSUME ConfigInv, append_files PROVE ConfigInv'
<1>1. CfgTypeOK'
  BY DEF append_files, ConfigInv, CfgTypeOK
<1> QED
  BY <1>1 DEF append_files, ConfigInv, OfSave, Chosen, config_is_valid

-------------------------------------------------------------------------------
LEMMA ConfigNextInv == ConfigInv /\ [CfgNext]_cfgVars => ConfigInv'
<1> SUFFICES ASSUME ConfigInv, [CfgNext]_cfgVars PROVE ConfigInv'
  OBVIOUS
<1>1. CASE Dos
  BY <1>1, MenuStarts, SetupStarts, ChatStarts, MakeautoStarts DEF Dos
<1>2. CASE Menu
  BY <1>2, SetupStarts, ChatStarts, ProgramEnds DEF Menu, atari_exec
<1>3. CASE Chat
  <2>1. CASE atari_exec(StartSetup, "chat") \/ atari_exec(StartChat, "dos") \/ End("dos")
    BY <1>3, <2>1, SetupStarts, ChatStarts, ProgramEnds DEF Chat, atari_exec
  <2>2. CASE /\ \E f \in (2..Fields) \ NotDefault, v \in Entered : mem' = [mem EXCEPT ![f] = v]
             /\ UNCHANGED <<prog, file, autorun, saves, confirmed, cfgHarm>>
    BY <1>3, <2>2, FieldEntered DEF Chat
  <2> QED
    BY <1>3, <2>1, <2>2 DEF Chat
<1>4. CASE config_menu
  BY <1>4, FieldEntered DEF config_menu
<1>5. CASE ChangeDriver
  BY <1>5, MakeautoStarts, ProgramEnds DEF ChangeDriver, atari_exec
<1>6. CASE save_config
  BY <1>6, SaveBegins
<1>7. CASE WriteField
  BY <1>7, FieldWritten
<1>8. CASE Saved
  BY <1>8, ProgramEnds DEF Saved
<1>9. CASE Configured
  BY <1>9, ChatStarts, MenuStarts, ProgramEnds DEF Configured, atari_exec
<1>10. CASE append_files
  BY <1>10, Appended
<1>11. CASE PowerOn
  BY <1>11, MemoryLost
<1>12. CASE Boot
  BY <1>12, MenuStarts, ProgramEnds DEF Boot, atari_exec
<1>13. CASE UNCHANGED cfgVars
  <2>1. CfgTypeOK'
    BY <1>13 DEF cfgVars, ConfigInv, CfgTypeOK
  <2> QED
    BY <1>13, <2>1 DEF cfgVars, ConfigInv, OfSave, Chosen, config_is_valid
<1> QED
  BY <1>1, <1>2, <1>3, <1>4, <1>5, <1>6, <1>7, <1>8, <1>9, <1>10, <1>11, <1>12, <1>13
  DEF CfgNext

LEMMA ConfigInvKept == ConfigInv => ConfigKept
<1> SUFFICES ASSUME ConfigInv PROVE ConfigKept
  OBVIOUS
<1>1. SettingsKnown
  BY DEF ConfigInv, SettingsKnown, Chosen
<1>2. LoadedIsSaved
  BY Loaded DEF LoadedIsSaved
<1> QED
  BY <1>1, <1>2 DEF ConfigKept

(* The record keeps its type, and a file is never longer than the record.  *)
THEOREM ConfigTypeCorrect == CfgSpec => []CfgTypeOK
<1>1. CfgSpec => []ConfigInv
  BY ConfigInitInv, ConfigNextInv, PTL DEF CfgSpec
<1>2. ConfigInv => CfgTypeOK
  BY DEF ConfigInv
<1> QED
  BY <1>1, <1>2, PTL

(* Whatever is interrupted, and however often it is saved: FUJICHAT runs   *)
(* with settings that were chosen, and get_config accepts no file but a    *)
(* complete one of the last save (common.c, fujiconf.c).                   *)
THEOREM ConfigKeptHolds == CfgSpec => []ConfigKept
<1>1. CfgSpec => []ConfigInv
  BY ConfigInitInv, ConfigNextInv, PTL DEF CfgSpec
<1> QED
  BY <1>1, ConfigInvKept, PTL

-------------------------------------------------------------------------------
(***************************************************************************)
(* Dhcpc: for every set of servers and all lengths of time, a request goes *)
(* to the server whose address it asks for.                                *)
(***************************************************************************)

(* Only an offer of a server is asked for: its two fields are of one       *)
(* message, and offers are not forgotten.                                  *)
LEMMA OfferTaken ==
  ASSUME NEW m \in Offered \cup Others \cup Answers, DiscoverData(m), UNCHANGED offers,
         RequestNamesOffer
  PROVE  RequestNamesOffer'
<1>1. CASE m.forus /\ m.type = "OFFER"
  <2>1. PICK o \in offers : m = [forus |-> TRUE, type |-> "OFFER", serverid |-> o, ipaddr |-> o]
    BY <1>1 DEF Offered, Others, Answers
  <2>2. asked' = [kind |-> "REQUEST", offer |-> [serverid |-> o, ipaddr |-> o]]
    BY <1>1, <2>1 DEF DiscoverData, Sends, parse_msg
  <2> QED
    BY <2>1, <2>2 DEF RequestNamesOffer
<1>2. CASE ~(m.forus /\ m.type = "OFFER")
  <2>1. asked'.kind = "DISCOVER"
    BY <1>2 DEF DiscoverData, Sends
  <2> QED
    BY <2>1 DEF RequestNamesOffer
<1> QED
  BY <1>1, <1>2

LEMMA StartDiscovers ==
  ASSUME NEW new \in BOOLEAN, Start(new) PROVE RequestNamesOffer'
<1>1. asked'.kind = "DISCOVER"
  BY DEF Start, Sends
<1> QED
  BY <1>1 DEF RequestNamesOffer

LEMMA DhcpcNextNames == RequestNamesOffer /\ [DhcpcNext]_dhcpcVars => RequestNamesOffer'
<1> SUFFICES ASSUME RequestNamesOffer, [DhcpcNext]_dhcpcVars PROVE RequestNamesOffer'
  OBVIOUS
<1>1. CASE Polled
  <2>1. CASE Start(FALSE)
    BY <2>1, StartDiscovers
  <2>2. CASE DiscoverAgain
    <3>1. asked'.kind = "DISCOVER"
      BY <2>2 DEF DiscoverAgain, Sends
    <3> QED
      BY <3>1 DEF RequestNamesOffer
  <2> QED
    BY <1>1, <2>1, <2>2 DEF Polled
<1>2. CASE DatagramCame
  <2>1. PICK m \in Offered \cup Others \cup Answers : Start(TRUE) \/ DiscoverData(m)
    BY <1>2 DEF DatagramCame
  <2> QED
    BY <1>2, <2>1, StartDiscovers, OfferTaken DEF DatagramCame
<1>3. CASE Tick
  BY <1>3 DEF Tick, RequestNamesOffer
<1>4. CASE \E o \in DhcpServers : Offers(o)
  BY <1>4 DEF Offers, RequestNamesOffer
<1>5. CASE UNCHANGED dhcpcVars
  BY <1>5 DEF dhcpcVars, RequestNamesOffer
<1> QED
  BY <1>1, <1>2, <1>3, <1>4, <1>5 DEF DhcpcNext

(* However many servers offer an address, late or again, a request names   *)
(* the server whose address it asks for, which has offered it (parse_msg   *)
(* and handle_dhcp of dhcpc.c).                                            *)
THEOREM RequestNamesOfferHolds == DhcpcSpec => []RequestNamesOffer
<1>1. DhcpcInit => RequestNamesOffer
  BY DEF DhcpcInit, RequestNamesOffer
<1> QED
  BY <1>1, DhcpcNextNames, PTL DEF DhcpcSpec

(* A wait is doubled only while it is shorter than the longest.            *)
Waits == 2 * CLOCK_SECOND * DiscoverMax

TicksOK(t) == t \in Nat /\ (t < Waits \/ t = CLOCK_SECOND * (RequestMax + 1))

LEMMA TicksStay ==
  /\ TicksOK(CLOCK_SECOND) /\ TicksOK(CLOCK_SECOND * (RequestMax + 1)) /\ TicksOK(0)
  /\ \A t : TicksOK(t) => TicksOK(IF t < CLOCK_SECOND * DiscoverMax THEN 2 * t ELSE t)
<1>1. PICK C \in Nat : C = CLOCK_SECOND /\ C > 0  BY DhcpcAssumption
<1>2. PICK D \in Nat : D = DiscoverMax /\ D > 0  BY DhcpcAssumption
<1>3. PICK R \in Nat : R = RequestMax  BY DhcpcAssumption
<1>4. PICK P \in Nat : P = C * D
  <2>1. C * D \in Nat  OBVIOUS
  <2> QED  BY <2>1
<1>5. P >= C
  <2>1. PICK k \in Nat : D = k + 1
    <3>1. D - 1 \in Nat /\ D = (D - 1) + 1  BY <1>2
    <3> QED  BY <3>1
  <2>2. C * k \in Nat /\ C * (k + 1) = C * k + C  OBVIOUS
  <2> QED  BY <1>4, <2>1, <2>2
<1>6. Waits = 2 * P
  <2>1. 2 * C * D = 2 * (C * D)  OBVIOUS
  <2> QED  BY <1>1, <1>2, <1>4, <2>1 DEF Waits
<1>7. C < 2 * P /\ 0 < 2 * P  BY <1>1, <1>5
<1>8. CLOCK_SECOND * (RequestMax + 1) \in Nat
  <2>1. C * (R + 1) \in Nat  OBVIOUS
  <2> QED  BY <1>1, <1>3, <2>1
<1>9. ASSUME NEW t, TicksOK(t) PROVE TicksOK(IF t < CLOCK_SECOND * DiscoverMax THEN 2 * t ELSE t)
  <2>1. t \in Nat  BY <1>9 DEF TicksOK
  <2>2. CASE t < P
    <3>1. 2 * t \in Nat /\ 2 * t < 2 * P  BY <2>1, <2>2
    <3>2. TicksOK(2 * t)  BY <1>6, <3>1 DEF TicksOK
    <3> QED  BY <1>1, <1>2, <1>4, <2>2, <3>2
  <2>3. CASE ~(t < P)  BY <1>1, <1>2, <1>4, <1>9, <2>3
  <2> QED  BY <2>2, <2>3
<1>10. TicksOK(CLOCK_SECOND) /\ TicksOK(0)  BY <1>1, <1>6, <1>7 DEF TicksOK
<1>11. TicksOK(CLOCK_SECOND * (RequestMax + 1))  BY <1>8 DEF TicksOK
<1> QED  BY <1>9, <1>10, <1>11

(* What a request asks for is an offer, and so of a server.                *)
DhcpcInv == DhcpcTypeOK /\ TicksOK(ticks) /\ RequestNamesOffer

DhcpcFrame ==
  /\ pt \in {"start", "discover", "hangs"} /\ dhcp.serverid \in DhcpServers \cup {NoServer}
  /\ TicksOK(ticks) /\ started \in 0..ClockValues - 1

LEMMA DhcpcFrameTypes ==
  ASSUME DhcpcFrame, clock \in 0..ClockValues - 1, offers \subseteq DhcpServers
  PROVE  DhcpcTypeOK
BY DEF DhcpcFrame, DhcpcTypeOK, TicksOK, Waits

LEMMA DhcpcInitInv == DhcpcInit => DhcpcInv
<1> SUFFICES ASSUME DhcpcInit PROVE DhcpcInv  OBVIOUS
<1>1. PICK K \in Nat : K = ClockValues /\ K > 0  BY DhcpcAssumption
<1>2. clock \in 0..ClockValues - 1 /\ 0 \in 0..ClockValues - 1
  <2>1. 0 \in 0..K - 1 /\ K - 1 \in 0..K - 1  BY <1>1
  <2> QED  BY <1>1, <2>1 DEF DhcpcInit
<1>3. DhcpcFrame  BY <1>2, TicksStay DEF DhcpcInit, DhcpcFrame
<1>4. DhcpcTypeOK  BY <1>2, <1>3, DhcpcFrameTypes DEF DhcpcInit
<1>5. RequestNamesOffer  BY DEF DhcpcInit, RequestNamesOffer
<1> QED  BY <1>3, <1>4, <1>5 DEF DhcpcInv, DhcpcFrame

LEMMA StartFrame ==
  ASSUME DhcpcInv, NEW new \in BOOLEAN, Start(new)
  PROVE  DhcpcFrame'
<1>1. ticks' = CLOCK_SECOND /\ started' = clock /\ dhcp' = dhcp /\ pt' \in {"hangs", "discover"}
  BY DEF Start, Sends
<1> QED  BY <1>1, TicksStay DEF DhcpcInv, DhcpcTypeOK, DhcpcFrame

LEMMA DiscoverFrame ==
  ASSUME DhcpcInv, NEW m \in Offered \cup Others \cup Answers, DiscoverData(m)
  PROVE  DhcpcFrame'
<1>1. offers \subseteq DhcpServers /\ clock \in 0..ClockValues - 1 /\ TicksOK(ticks)
  BY DEF DhcpcInv, DhcpcTypeOK
<1>2. m.serverid \in DhcpServers
  <2>1. CASE m \in Answers
    <3>1. asked.kind = "REQUEST" /\ m.serverid = asked.offer.serverid  BY <2>1 DEF Answers
    <3> QED  BY <1>1, <3>1 DEF DhcpcInv, RequestNamesOffer
  <2> QED  BY <1>1, <2>1 DEF Offered, Others
<1>3. PICK o : o = IF m.forus THEN parse_msg(m) ELSE dhcp  OBVIOUS
<1>4. o.serverid \in DhcpServers \cup {NoServer}
  BY <1>2, <1>3 DEF parse_msg, DhcpcInv, DhcpcTypeOK
<1>5. dhcp' = o /\ pt' \in {"start", "hangs"}  BY <1>3 DEF DiscoverData
<1>6. started' = clock /\ (ticks' = ticks \/ ticks' = CLOCK_SECOND * (RequestMax + 1))
  BY DEF DiscoverData, Sends
<1>7. TicksOK(ticks')  BY <1>1, <1>6, TicksStay
<1> QED  BY <1>1, <1>4, <1>5, <1>6, <1>7 DEF DhcpcFrame

LEMMA DhcpcNextInv == DhcpcInv /\ [DhcpcNext]_dhcpcVars => DhcpcInv'
<1> SUFFICES ASSUME DhcpcInv, [DhcpcNext]_dhcpcVars PROVE DhcpcInv'  OBVIOUS
<1>1. RequestNamesOffer'  BY DhcpcNextNames DEF DhcpcInv
<1>2. DhcpcFrame /\ offers \subseteq DhcpServers /\ clock \in 0..ClockValues - 1
  BY DEF DhcpcInv, DhcpcTypeOK, DhcpcFrame
<1>3. DhcpcFrame' /\ offers' \subseteq DhcpServers /\ clock' \in 0..ClockValues - 1
  <2>1. CASE Polled
    <3>1. CASE Start(FALSE)  BY <1>2, <2>1, <3>1, StartFrame DEF Polled
    <3>2. CASE DiscoverAgain
      <4>1. ticks' = (IF ticks < CLOCK_SECOND * DiscoverMax THEN 2 * ticks ELSE ticks)
            /\ started' = clock /\ pt' = pt /\ dhcp' = dhcp
        BY <3>2 DEF DiscoverAgain, Sends
      <4>2. TicksOK(ticks')  BY <1>2, <4>1, TicksStay DEF DhcpcFrame
      <4> QED  BY <1>2, <2>1, <4>1, <4>2 DEF DhcpcFrame, Polled
    <3> QED  BY <2>1, <3>1, <3>2 DEF Polled
  <2>2. CASE DatagramCame
    <3>1. PICK m \in Offered \cup Others \cup Answers : Start(TRUE) \/ DiscoverData(m)
      BY <2>2 DEF DatagramCame
    <3>2. DhcpcFrame'  BY <3>1, StartFrame, DiscoverFrame
    <3> QED  BY <1>2, <2>2, <3>2 DEF DatagramCame
  <2>3. CASE Tick
    <3>1. PICK K \in Nat : K = ClockValues /\ K > 0  BY DhcpcAssumption
    <3>2. clock + 1 \in Nat  BY <1>2, <3>1
    <3>3. (clock + 1) % K \in 0..K - 1  BY <3>1, <3>2
    <3>4. clock' = (clock + 1) % K  BY <2>3, <3>1 DEF Tick
    <3> QED  BY <1>2, <2>3, <3>1, <3>3, <3>4 DEF Tick, DhcpcFrame
  <2>4. CASE \E o \in DhcpServers : Offers(o)  BY <1>2, <2>4 DEF Offers, DhcpcFrame
  <2>5. CASE UNCHANGED dhcpcVars  BY <1>2, <2>5 DEF dhcpcVars, DhcpcFrame
  <2> QED  BY <2>1, <2>2, <2>3, <2>4, <2>5 DEF DhcpcNext
<1>4. DhcpcTypeOK'  BY <1>3 DEF DhcpcFrame, DhcpcTypeOK, TicksOK, Waits
<1> QED  BY <1>1, <1>3, <1>4 DEF DhcpcInv, DhcpcFrame

(* Together with the request, the types: a wait is at most the double of   *)
(* the longest that is doubled.                                            *)
THEOREM DhcpcTypesHold == DhcpcSpec => []DhcpcTypeOK
<1>1. DhcpcInv => DhcpcTypeOK  BY DEF DhcpcInv
<1> QED  BY <1>1, DhcpcInitInv, DhcpcNextInv, PTL DEF DhcpcSpec

-------------------------------------------------------------------------------
(***************************************************************************)
(* The web client.                                                         *)
(***************************************************************************)

Callbacks  == {"none", "connected", "eof", "closed", "aborted", "timedout"}
Wc    == [state : {"STATUSLINE", "HEADERS", "DATA", "CLOSE"}, httpflag : {"NONE", "OK", "MOVED"},
          host : Hosts, line : Seq(STRING), left : Nat, ptr : Nat, timer : Nat]
TcpOf == [st : {"none", "syn", "est", "lastack", "over"}, host : Hosts, resp : Seq(STRING),
          out : Nat, asked : Seq(Nat)]
WebWorks  == [wc : Wc, tcps : [Tcps -> TcpOf], told : Callbacks, data : Seq(STRING), sends : BOOLEAN,
          ends : BOOLEAN]

(* What the buffer and the counters of the state keep to. *)
WcFits(c) ==
  /\ Len(c.line) <= LineRoom /\ c.timer < TimerValues
  /\ c.left \in 0..WebRequest /\ c.left + c.ptr \in {0, WebRequest}

LEMMA WebConsts ==
  /\ Known \subseteq Hosts /\ Known # {} /\ Hosts # {}
  /\ DOMAIN Response = Hosts /\ \A h \in Hosts : Response[h] \in Seq(STRING)
  /\ "cr" \notin DOMAIN Location /\ \A l \in DOMAIN Location : Location[l] \in Hosts
  /\ WebRequest \in Nat \ {0} /\ LineRoom \in Nat \ {0} /\ WEBCLIENT_TIMEOUT \in Nat \ {0}
  /\ TimerValues \in Nat \ {0} /\ WebConns \in Nat \ {0} /\ WebSegment \in Nat \ {0}
BY WebclientAssumption

(* The words of a segment are read one after the other. *)
ReadRun(run, w, words) ==
  /\ run[0] = w
  /\ \A n \in 1..Len(words) : run[n] = TakeWord(run[n - 1], words[n])
  /\ webclient_newdata(w, words) = run[Len(words)]

LEMMA NewdataRun ==
  ASSUME NEW w, NEW words, Len(words) \in Nat
  PROVE  \E run : ReadRun(run, w, words)
<1> DEFINE L == Len(words)
           Runs(f, n) == f = [i \in 0..n |-> IF i = 0 THEN w ELSE TakeWord(f[i - 1], words[i])]
           S == {n \in Nat : \E f : Runs(f, n)}
           run == CHOOSE f : Runs(f, L)
<1>1. 0 \in S
  <2>1. Runs([i \in 0..0 |-> w], 0)  OBVIOUS
  <2> QED  BY <2>1
<1>2. ASSUME NEW n \in Nat, n \in S PROVE n + 1 \in S
  <2>1. PICK f : Runs(f, n)  BY <1>2
  <2> DEFINE g == [i \in 0..n + 1 |-> IF i = n + 1 THEN TakeWord(f[n], words[n + 1]) ELSE f[i]]
  <2>2. ASSUME NEW i \in 0..n + 1
        PROVE  g[i] = IF i = 0 THEN w ELSE TakeWord(g[i - 1], words[i])
    <3>1. CASE i = n + 1
      <4>1. n \in 0..n + 1 /\ n # n + 1 /\ i - 1 = n /\ i # 0  BY <3>1
      <4>2. g[n] = f[n] /\ g[n + 1] = TakeWord(f[n], words[n + 1])  BY <4>1
      <4> HIDE DEF g
      <4> QED  BY <3>1, <4>1, <4>2
    <3>2. CASE i # n + 1
      <4>1. i \in 0..n /\ i - 1 # n + 1 /\ (i # 0 => i - 1 \in 0..n + 1)  BY <3>2
      <4>2. g[i] = f[i] /\ (i # 0 => g[i - 1] = f[i - 1])  BY <4>1, <3>2
      <4>3. f[i] = IF i = 0 THEN w ELSE TakeWord(f[i - 1], words[i])  BY <2>1, <4>1
      <4> HIDE DEF g
      <4> QED  BY <4>2, <4>3
    <3> QED  BY <3>1, <3>2
  <2>3. Runs(g, n + 1)  BY <2>2
  <2>4. \E h : Runs(h, n + 1)
    <3> HIDE DEF g, Runs
    <3> QED  BY <2>3
  <2> HIDE DEF Runs
  <2> QED  BY <2>4
<1>3. L \in S
  <2>1. L \in Nat /\ \A n \in Nat : n \in S => n + 1 \in S  BY <1>2
  <2> HIDE DEF S, L
  <2>2. \A n \in Nat : n \in S  BY <1>1, <2>1, SetInduction
  <2> QED  BY <2>1, <2>2
<1>4. Runs(run, L)
  <2>1. \E f : Runs(f, L)  BY <1>3
  <2> HIDE DEF Runs
  <2> QED  BY <2>1
<1>5. webclient_newdata(w, words) = run[L]  BY DEF webclient_newdata
<1> HIDE DEF run
<1>6. ReadRun(run, w, words)  BY <1>4, <1>5 DEF ReadRun
<1> QED  BY <1>6

(* What init_connection assigns. *)
LEMMA InitConnection ==
  ASSUME NEW c \in Wc, WcFits(c), NEW host \in Hosts, NEW d, d = init_connection([c EXCEPT !.host = host])
  PROVE  /\ d \in Wc /\ WcFits(d) /\ d.state = "STATUSLINE" /\ d.left = WebRequest /\ d.ptr = 0
         /\ d.line = <<>> /\ d.host = host /\ d.httpflag = c.httpflag
<1> DEFINE b == [c EXCEPT !.host = host]
<1>1. b \in Wc /\ b.host = host /\ b.timer = c.timer /\ b.httpflag = c.httpflag  BY DEF Wc
<1>2. WebRequest \in Nat /\ LineRoom \in Nat /\ <<>> \in Seq(STRING) /\ Len(<<>>) = 0 /\ 0 \in Nat
  BY WebConsts
<1>3. d = init_connection(b)  OBVIOUS
<1> HIDE DEF b
<1> DEFINE e == <<>>
           z == "STATUSLINE"
<1>7. d = [b EXCEPT !.state = z, !.left = WebRequest, !.ptr = 0, !.line = e]
  BY <1>3 DEF init_connection
<1>8. e \in Seq(STRING) /\ z \in {"STATUSLINE", "HEADERS", "DATA", "CLOSE"}  BY <1>2
<1> HIDE DEF e, z
<1>9. /\ d \in Wc /\ d.state = z /\ d.left = WebRequest /\ d.ptr = 0 /\ d.line = e
      /\ d.httpflag = b.httpflag /\ d.host = b.host /\ d.timer = b.timer
  <2>1. 0 \in Nat /\ b \in Wc /\ WebRequest \in Nat  BY <1>1, <1>2
  <2> QED  BY <2>1, <1>7, <1>8 DEF Wc
<1>4. /\ d \in Wc /\ d.state = "STATUSLINE" /\ d.left = WebRequest /\ d.ptr = 0 /\ d.line = <<>>
      /\ d.httpflag = b.httpflag /\ d.host = b.host /\ d.timer = b.timer
  BY <1>9 DEF e, z
<1>5. c.timer < TimerValues  BY DEF WcFits
<1>6. WcFits(d)  BY <1>1, <1>2, <1>4, <1>5 DEF WcFits
<1> QED  BY <1>1, <1>4, <1>6

(* What a call works on keeps its types and its bounds. *)
WorkOK(w) == w \in WebWorks /\ WcFits(w.wc)

LEMMA TellsOK ==
  ASSUME NEW w, WorkOK(w), NEW what \in Callbacks
  PROVE  WorkOK(Tells(w, what)) /\ WorkOK(Aborts(w)) /\ WorkOK(Aborts(Tells(w, what)))
BY DEF WorkOK, WcFits, WebWorks, Tells, Aborts

LEMMA SenddataOK ==
  ASSUME NEW w, WorkOK(w)
  PROVE  WorkOK(webclient_senddata(w))
BY DEF WorkOK, WcFits, WebWorks, webclient_senddata

LEMMA AckedOK ==
  ASSUME NEW w, WorkOK(w)
  PROVE  WorkOK(webclient_acked(w))
<1>1. CASE w.wc.left > 0
  <2> DEFINE c == [w.wc EXCEPT !.left = @ - 1, !.ptr = @ + 1]
  <2>1. webclient_acked(w) = [w EXCEPT !.wc = c]
    BY <1>1 DEF webclient_acked, WorkOK, WebWorks, Wc
  <2>2. c \in Wc /\ WcFits(c)
    <3>1. w.wc \in Wc /\ WcFits(w.wc)  BY DEF WorkOK, WebWorks
    <3>2. w.wc.left \in Nat /\ w.wc.ptr \in Nat /\ WebRequest \in Nat  BY <3>1, WebConsts DEF Wc
    <3> DEFINE l == w.wc.left - 1
               p == w.wc.ptr + 1
    <3>3. l \in 0..WebRequest /\ p \in Nat /\ l + p = w.wc.left + w.wc.ptr
      BY <1>1, <3>1, <3>2 DEF WcFits
    <3> HIDE DEF l, p
    <3>4. c = [w.wc EXCEPT !.left = l, !.ptr = p]  BY DEF l, p
    <3> HIDE DEF c
    <3>7. l \in Nat  BY <3>2, <3>3
    <3>5. c \in Wc
      <4>1. w.wc \in Wc  BY <3>1
      <4> QED  BY <4>1, <3>3, <3>4, <3>7 DEF Wc
    <3>6. c.left = l /\ c.ptr = p /\ c.line = w.wc.line /\ c.timer = w.wc.timer  BY <3>1, <3>4 DEF Wc
    <3> QED  BY <3>1, <3>2, <3>3, <3>5, <3>6 DEF WcFits
  <2> HIDE DEF c
  <2> QED  BY <2>1, <2>2 DEF WorkOK, WebWorks
<1>2. CASE ~(w.wc.left > 0)  BY <1>2 DEF webclient_acked
<1> QED  BY <1>1, <1>2

LEMMA PolledOK ==
  ASSUME NEW w, WorkOK(w)
  PROVE  WorkOK(polled(w))
<1> DEFINE timer == (w.wc.timer + 1) % TimerValues
           c == [w.wc EXCEPT !.timer = timer]
<1>1. w.wc \in Wc /\ WcFits(w.wc)  BY DEF WorkOK, WebWorks
<1>2. timer \in Nat /\ timer < TimerValues  BY <1>1, WebConsts DEF Wc
<1>3. c \in Wc /\ WcFits(c)
  <2> HIDE DEF timer
  <2> QED  BY <1>1, <1>2 DEF Wc, WcFits
<1>4. [w EXCEPT !.wc.timer = timer] = [w EXCEPT !.wc = c]
      /\ [Aborts(Tells(w, "timedout")) EXCEPT !.wc.timer = timer] = [Aborts(Tells(w, "timedout")) EXCEPT !.wc = c]
  <2> HIDE DEF timer
  <2> QED  BY DEF WorkOK, WebWorks, Aborts, Tells
<1>5. WorkOK([w EXCEPT !.wc = c]) /\ WorkOK([Aborts(Tells(w, "timedout")) EXCEPT !.wc = c])
  <2> HIDE DEF c
  <2>1. WorkOK(Aborts(Tells(w, "timedout")))  BY TellsOK DEF Callbacks
  <2>2. ASSUME NEW v, WorkOK(v) PROVE WorkOK([v EXCEPT !.wc = c])
    BY <2>2, <1>3 DEF WorkOK, WebWorks
  <2> QED  BY <2>1, <2>2
<1>6. polled(w) = IF timer = WEBCLIENT_TIMEOUT THEN [Aborts(Tells(w, "timedout")) EXCEPT !.wc.timer = timer]
                  ELSE [w EXCEPT !.wc.timer = timer]
  BY DEF polled
<1> HIDE DEF timer, c
<1> QED  BY <1>4, <1>5, <1>6

(* The connection that webclient_get opens. *)
LEMMA FreeLeast ==
  ASSUME NEW w, WorkOK(w), NEW free, free = {i \in Tcps : w.tcps[i].st = "none"}, free # {}
  PROVE  (CHOOSE i \in free : \A j \in free : i <= j) \in free
<1>1. free \in SUBSET Nat  BY WebConsts DEF Tcps
<1>2. \E i \in free : \A j \in free : i <= j  BY <1>1, LeastNatural
<1> QED  BY <1>2

LEMMA GetOK ==
  ASSUME NEW w, WorkOK(w), NEW host \in Hosts
  PROVE  /\ WorkOK(webclient_get(w, host))
         /\ \/ webclient_get(w, host) = w
            \/ \E j \in Tcps :
                 /\ w.tcps[j].st = "none"
                 /\ webclient_get(w, host) =
                      [w EXCEPT !.wc = init_connection([@ EXCEPT !.host = host]),
                                !.tcps = [@ EXCEPT ![j] = Conn("syn", host)]]
<1> DEFINE free == {i \in Tcps : w.tcps[i].st = "none"}
           j == CHOOSE i \in free : \A k \in free : i <= k
           c == init_connection([w.wc EXCEPT !.host = host])
           t == [w.tcps EXCEPT ![j] = Conn("syn", host)]
<1>1. CASE host \notin known \/ free = {}
  <2>1. webclient_get(w, host) = w  BY <1>1 DEF webclient_get
  <2> QED  BY <2>1
<1>2. CASE ~(host \notin known \/ free = {})
  <2>1. j \in free  BY <1>2, FreeLeast
  <2>2. webclient_get(w, host) = [w EXCEPT !.wc = c, !.tcps = t]
    BY <1>2 DEF webclient_get, WorkOK, WebWorks
  <2>3. w.wc \in Wc /\ WcFits(w.wc) /\ w.tcps \in [Tcps -> TcpOf]  BY DEF WorkOK, WebWorks
  <2>4. c \in Wc /\ WcFits(c)  BY <2>3, InitConnection
  <2>5. Conn("syn", host) \in TcpOf
    <3>1. Response[host] \in Seq(STRING) /\ <<>> \in Seq(Nat)  BY WebConsts
    <3> QED  BY <3>1 DEF TcpOf, Conn
  <2>6. t \in [Tcps -> TcpOf]
    <3> HIDE DEF j
    <3> QED  BY <2>3, <2>5
  <2>7. WorkOK([w EXCEPT !.wc = c, !.tcps = t])
    <3> HIDE DEF c, t
    <3> QED  BY <2>4, <2>6 DEF WorkOK, WebWorks
  <2>8. [w EXCEPT !.wc = c, !.tcps = t] =
          [w EXCEPT !.wc = init_connection([@ EXCEPT !.host = host]),
                    !.tcps = [@ EXCEPT ![j] = Conn("syn", host)]]
    <3> HIDE DEF j
    <3> QED  BY DEF WorkOK, WebWorks
  <2> HIDE DEF j
  <2> QED  BY <2>1, <2>2, <2>7, <2>8
<1> QED  BY <1>1, <1>2

LEMMA ClosedOK ==
  ASSUME NEW w, WorkOK(w)
  PROVE  WorkOK(closed_by_server(w))
<1>1. w.wc.host \in Hosts  BY DEF WorkOK, WebWorks, Wc
<1>2. WorkOK(Tells(w, "eof"))  BY TellsOK DEF Callbacks
<1>3. WorkOK(webclient_get(w, w.wc.host))  BY <1>1, GetOK
<1> QED  BY <1>2, <1>3 DEF closed_by_server

(* What the words of a segment leave alone. *)
Leaves(v, w) ==
  /\ WorkOK(v) /\ v.wc.state # "CLOSE" /\ v.tcps = w.tcps /\ v.sends = w.sends
  /\ v.wc.left = w.wc.left /\ v.wc.ptr = w.wc.ptr

LEMMA SetWc ==
  ASSUME NEW w, WorkOK(w), NEW c \in Wc, WcFits(c), c.state # "CLOSE", c.left = w.wc.left, c.ptr = w.wc.ptr,
         NEW v, v = [w EXCEPT !.wc = c]
  PROVE  Leaves(v, w) /\ v.wc = c /\ v.data = w.data /\ v.ends = w.ends
BY DEF WorkOK, WebWorks, Leaves

(* What a line leaves of the state, of the parts that a response sets. *)
Lined(c, z, f, h, e) == [c EXCEPT !.state = z, !.httpflag = f, !.host = h, !.line = e]

LEMMA LineFields ==
  ASSUME NEW c \in Wc, NEW z, NEW f, NEW h, NEW e
  PROVE  /\ Lined(c, z, f, h, e).state = z /\ Lined(c, z, f, h, e).httpflag = f
         /\ Lined(c, z, f, h, e).line = e /\ Lined(c, z, f, h, e).timer = c.timer
         /\ Lined(c, z, f, h, e).left = c.left /\ Lined(c, z, f, h, e).ptr = c.ptr
BY DEF Wc, Lined

LEMMA LineSet ==
  ASSUME NEW c \in Wc, WcFits(c), NEW z \in {"STATUSLINE", "HEADERS", "DATA"}, NEW f \in {"NONE", "OK", "MOVED"},
         NEW h \in Hosts, NEW e \in Seq(STRING), Len(e) <= LineRoom
  PROVE  Lined(c, z, f, h, e) \in Wc /\ WcFits(Lined(c, z, f, h, e))
<1> DEFINE d == Lined(c, z, f, h, e)
<1>1. d \in Wc  BY DEF Wc, Lined
<1>2. d.line = e /\ d.left = c.left /\ d.ptr = c.ptr /\ d.timer = c.timer  BY LineFields
<1> HIDE DEF d
<1>3. WcFits(d)  BY <1>1, <1>2 DEF WcFits, Wc
<1> QED  BY <1>1, <1>3 DEF d

LEMMA StatuslineIs ==
  ASSUME NEW w, WorkOK(w), ~w.ends, w.wc.state = "STATUSLINE", NEW v, v = parse_statusline(w)
  PROVE  Leaves(v, w) /\ v.data = w.data /\ (v.ends \/ (v.wc.state = "HEADERS" /\ v.wc.line = <<>>))
<1> DEFINE f == CASE w.wc.line[1] = "200" -> "OK"
                  [] w.wc.line[1] = "301" -> "MOVED"
                  [] OTHER                -> "NONE"
           c == [w.wc EXCEPT !.state = "HEADERS", !.line = <<>>, !.httpflag = f]
<1>1. CASE w.wc.line # <<>> /\ w.wc.line[1] \in {"200", "301", "error"}
  <2>1. v = [w EXCEPT !.wc = c]
    <3>1. v = [w EXCEPT !.wc.state = "HEADERS", !.wc.line = <<>>, !.wc.httpflag = f]  BY <1>1 DEF parse_statusline
    <3> HIDE DEF f
    <3> QED  BY <3>1 DEF WorkOK, WebWorks
  <2>2. w.wc \in Wc /\ WcFits(w.wc) /\ w.wc.host \in Hosts  BY DEF WorkOK, WebWorks, Wc
  <2>3. f \in {"NONE", "OK", "MOVED"}  OBVIOUS
  <2> HIDE DEF f
  <2>4. c = Lined(w.wc, "HEADERS", f, w.wc.host, <<>>)  BY <2>2 DEF Wc, Lined
  <2>5. <<>> \in Seq(STRING) /\ Len(<<>>) <= LineRoom  BY WebConsts
  <2> DEFINE e == <<>>
  <2>6. c = Lined(w.wc, "HEADERS", f, w.wc.host, e)
        /\ e \in Seq(STRING) /\ Len(e) <= LineRoom /\ e = <<>>
    BY <2>4, <2>5
  <2> HIDE DEF e, c
  <2>7. c \in Wc /\ WcFits(c)  BY <2>2, <2>3, <2>6, LineSet
  <2>71. c.state = "HEADERS" /\ c.line = e /\ c.left = w.wc.left /\ c.ptr = w.wc.ptr
    BY <2>2, <2>3, <2>6, LineFields
  <2>8. Leaves(v, w) /\ v.wc = c /\ v.data = w.data  BY <2>1, <2>7, <2>71, SetWc
  <2> QED  BY <2>6, <2>71, <2>8
<1>2. CASE ~(w.wc.line # <<>> /\ w.wc.line[1] \in {"200", "301", "error"})
  <2>1. v = Aborts(Tells(w, "aborted"))  BY <1>2 DEF parse_statusline
  <2>2. WorkOK(v)  BY <2>1, TellsOK DEF Callbacks
  <2>3. v.wc = w.wc /\ v.tcps = w.tcps /\ v.sends = w.sends /\ v.data = w.data /\ v.ends
    BY <2>1 DEF Aborts, Tells, WorkOK, WebWorks
  <2> QED  BY <2>2, <2>3 DEF Leaves
<1> QED  BY <1>1, <1>2

LEMMA HeadersIs ==
  ASSUME NEW w, WorkOK(w), ~w.ends, w.wc.state = "HEADERS", NEW v, v = parse_headers(w)
  PROVE  /\ Leaves(v, w) /\ v.data = w.data /\ ~v.ends /\ v.wc.httpflag = w.wc.httpflag
         /\ \/ w.wc.line # <<>> /\ w.wc.line[1] = "cr" /\ v.wc.state = "DATA"
            \/ ~(w.wc.line # <<>> /\ w.wc.line[1] = "cr") /\ v.wc.state = "HEADERS" /\ v.wc.line = <<>>
<1>1. w.wc \in Wc /\ WcFits(w.wc) /\ w.wc.host \in Hosts /\ w.wc.httpflag \in {"NONE", "OK", "MOVED"}
      /\ w.wc.line \in Seq(STRING) /\ Len(w.wc.line) <= LineRoom
  BY DEF WorkOK, WebWorks, Wc, WcFits
<1> DEFINE e == <<>>
<1>2. e \in Seq(STRING) /\ Len(e) <= LineRoom /\ e = <<>>  BY WebConsts
<1>3. CASE w.wc.line # <<>> /\ w.wc.line[1] = "cr"
  <2> DEFINE c == [w.wc EXCEPT !.state = "DATA"]
  <2>1. v = [w EXCEPT !.wc = c]
    <3>1. v = [w EXCEPT !.wc.state = "DATA"]  BY <1>3, WebConsts DEF parse_headers
    <3> QED  BY <3>1 DEF WorkOK, WebWorks
  <2>2. c = Lined(w.wc, "DATA", w.wc.httpflag, w.wc.host, w.wc.line)
    BY <1>1 DEF Wc, Lined
  <2> HIDE DEF c
  <2>3. c \in Wc /\ WcFits(c)  BY <1>1, <2>2, LineSet
  <2>31. c.state = "DATA" /\ c.httpflag = w.wc.httpflag /\ c.left = w.wc.left /\ c.ptr = w.wc.ptr
    BY <1>1, <2>2, LineFields
  <2>4. Leaves(v, w) /\ v.wc = c /\ v.data = w.data /\ v.ends = w.ends  BY <2>1, <2>3, <2>31, SetWc
  <2> QED  BY <1>3, <2>31, <2>4
<1>4. CASE ~(w.wc.line # <<>> /\ w.wc.line[1] = "cr")
  <2>1. PICK h \in Hosts : v = [w EXCEPT !.wc = [w.wc EXCEPT !.host = h, !.line = e]]
    <3>1. CASE w.wc.line # <<>> /\ w.wc.line[1] \in DOMAIN Location
      <4> DEFINE h == Location[w.wc.line[1]]
      <4>1. h \in Hosts  BY <3>1, WebConsts
      <4>2. v = [w EXCEPT !.wc.host = h, !.wc.line = e]  BY <1>4, <3>1 DEF parse_headers
      <4> HIDE DEF h, e
      <4>3. v = [w EXCEPT !.wc = [w.wc EXCEPT !.host = h, !.line = e]]  BY <4>2 DEF WorkOK, WebWorks
      <4> QED  BY <4>1, <4>3
    <3>2. CASE ~(w.wc.line # <<>> /\ w.wc.line[1] \in DOMAIN Location)
      <4>1. v = [w EXCEPT !.wc.line = e]  BY <1>4, <3>2 DEF parse_headers
      <4> HIDE DEF e
      <4>2. v = [w EXCEPT !.wc = [w.wc EXCEPT !.host = w.wc.host, !.line = e]]  BY <1>1, <4>1 DEF WorkOK, WebWorks, Wc
      <4> QED  BY <1>1, <4>2
    <3> QED  BY <3>1, <3>2
  <2> DEFINE c == [w.wc EXCEPT !.host = h, !.line = e]
  <2> HIDE DEF e
  <2>2. c = Lined(w.wc, "HEADERS", w.wc.httpflag, h, e)
    BY <1>1 DEF Wc, Lined
  <2>3. v = [w EXCEPT !.wc = c]  BY <2>1
  <2> HIDE DEF c
  <2>4. c \in Wc /\ WcFits(c)  BY <1>1, <1>2, <2>2, LineSet
  <2>41. c.state = "HEADERS" /\ c.httpflag = w.wc.httpflag /\ c.line = e /\ c.left = w.wc.left /\ c.ptr = w.wc.ptr
    BY <1>1, <1>2, <2>2, LineFields
  <2>5. Leaves(v, w) /\ v.wc = c /\ v.data = w.data /\ v.ends = w.ends  BY <2>3, <2>4, <2>41, SetWc
  <2> QED  BY <1>2, <1>4, <2>41, <2>5
<1> QED  BY <1>3, <1>4

(* What one word does. *)
WordEffect(w, word, v) ==
  /\ Leaves(v, w)
  /\ w.ends \/ (w.wc.state = "DATA" /\ w.wc.httpflag = "MOVED") => v = w
  /\ ~w.ends /\ w.wc.state = "DATA" /\ w.wc.httpflag # "MOVED" =>
       v.wc = w.wc /\ v.data = Append(w.data, word) /\ ~v.ends
  /\ ~w.ends /\ w.wc.state # "DATA" =>
       /\ v.data = w.data
       /\ Len(w.wc.line) = LineRoom => v = w
       /\ Len(w.wc.line) # LineRoom /\ word # "nl" =>
            /\ ~v.ends /\ v.wc.state = w.wc.state /\ v.wc.httpflag = w.wc.httpflag
            /\ v.wc.line = Append(w.wc.line, word)
       /\ Len(w.wc.line) # LineRoom /\ word = "nl" /\ w.wc.state = "STATUSLINE" =>
            v.ends \/ (v.wc.state = "HEADERS" /\ v.wc.line = <<>>)
       /\ Len(w.wc.line) # LineRoom /\ word = "nl" /\ w.wc.state = "HEADERS" =>
            /\ ~v.ends /\ v.wc.httpflag = w.wc.httpflag
            /\ \/ w.wc.line # <<>> /\ w.wc.line[1] = "cr" /\ v.wc.state = "DATA"
               \/ ~(w.wc.line # <<>> /\ w.wc.line[1] = "cr") /\ v.wc.state = "HEADERS" /\ v.wc.line = <<>>

LEMMA TakeWordIs ==
  ASSUME NEW w, WorkOK(w), w.wc.state # "CLOSE", NEW word \in STRING
  PROVE  WordEffect(w, word, TakeWord(w, word))
<1> DEFINE v == TakeWord(w, word)
<1>0. v = TakeWord(w, word)  OBVIOUS
<1> HIDE DEF v
<1> SUFFICES WordEffect(w, word, v)  BY <1>0
<1> DEFINE full == Len(w.wc.line) = LineRoom
<1>1. /\ w.wc \in Wc /\ WcFits(w.wc) /\ w.wc.host \in Hosts /\ w.wc.httpflag \in {"NONE", "OK", "MOVED"}
      /\ w.wc.state \in {"STATUSLINE", "HEADERS", "DATA"} /\ w.wc.line \in Seq(STRING)
      /\ Len(w.wc.line) <= LineRoom /\ w.data \in Seq(STRING) /\ w.ends \in BOOLEAN
  BY DEF WorkOK, WebWorks, Wc, WcFits
<1>2. Leaves(w, w)  BY DEF Leaves
<1>3. CASE w.ends \/ (w.wc.state = "DATA" /\ w.wc.httpflag = "MOVED") \/ (w.wc.state # "DATA" /\ full)
  <2>1. v = w  BY <1>1, <1>3, <1>0 DEF TakeWord
  <2> QED  BY <1>1, <1>2, <1>3, <2>1 DEF WordEffect
<1>4. CASE ~w.ends /\ w.wc.state = "DATA" /\ w.wc.httpflag # "MOVED"
  <2> DEFINE d == Append(w.data, word)
  <2>1. v = [w EXCEPT !.data = d]
    <3>1. v = [w EXCEPT !.data = Append(@, word)]  BY <1>4, <1>0 DEF TakeWord
    <3> QED  BY <3>1 DEF WorkOK, WebWorks
  <2>2. d \in Seq(STRING)  BY <1>1
  <2> HIDE DEF d, WordEffect
  <2>3. /\ v \in WebWorks /\ v.wc = w.wc /\ v.data = d /\ v.ends = w.ends /\ v.tcps = w.tcps /\ v.sends = w.sends
    BY <2>1, <2>2 DEF WorkOK, WebWorks
  <2>4. Leaves(v, w)  BY <2>3 DEF Leaves, WorkOK
  <2> QED  BY <1>4, <2>3, <2>4 DEF d, WordEffect
<1>5. CASE ~w.ends /\ w.wc.state # "DATA" /\ ~full /\ word # "nl"
  <2> DEFINE e == Append(w.wc.line, word)
             c == Lined(w.wc, w.wc.state, w.wc.httpflag, w.wc.host, e)
  <2>1. v = [w EXCEPT !.wc.line = Append(@, word)]  BY <1>5, <1>0 DEF TakeWord
  <2>2. v = [w EXCEPT !.wc = [w.wc EXCEPT !.line = e]]  BY <2>1 DEF WorkOK, WebWorks
  <2>3. e \in Seq(STRING) /\ Len(e) <= LineRoom  BY <1>1, <1>5, WebConsts
  <2> HIDE DEF e
  <2>4. [w.wc EXCEPT !.line = e] = c  BY <1>1 DEF Lined, Wc
  <2>5. c \in Wc /\ WcFits(c)  BY <1>1, <2>3, LineSet
  <2>6. c.state = w.wc.state /\ c.httpflag = w.wc.httpflag /\ c.line = e /\ c.left = w.wc.left /\ c.ptr = w.wc.ptr
    BY <1>1, LineFields
  <2> HIDE DEF c
  <2>7. Leaves(v, w) /\ v.wc = c /\ v.data = w.data /\ v.ends = w.ends  BY <2>2, <2>4, <2>5, <2>6, SetWc
  <2> QED  BY <1>5, <2>6, <2>7 DEF e, WordEffect
<1>6. CASE ~w.ends /\ w.wc.state = "STATUSLINE" /\ ~full /\ word = "nl"
  <2>1. v = parse_statusline(w)  BY <1>6, <1>0 DEF TakeWord
  <2>2. Leaves(v, w) /\ v.data = w.data /\ (v.ends \/ (v.wc.state = "HEADERS" /\ v.wc.line = <<>>))
    BY <1>6, <2>1, StatuslineIs
  <2> QED  BY <1>6, <2>2 DEF WordEffect
<1>7. CASE ~w.ends /\ w.wc.state = "HEADERS" /\ ~full /\ word = "nl"
  <2>1. v = parse_headers(w)  BY <1>7, <1>0 DEF TakeWord
  <2>2. /\ Leaves(v, w) /\ v.data = w.data /\ ~v.ends /\ v.wc.httpflag = w.wc.httpflag
        /\ \/ w.wc.line # <<>> /\ w.wc.line[1] = "cr" /\ v.wc.state = "DATA"
           \/ ~(w.wc.line # <<>> /\ w.wc.line[1] = "cr") /\ v.wc.state = "HEADERS" /\ v.wc.line = <<>>
    BY <1>7, <2>1, HeadersIs
  <2> QED  BY <1>7, <2>2 DEF WordEffect
<1> QED  BY <1>1, <1>3, <1>4, <1>5, <1>6, <1>7

(* After p words of the response resp the state is c, and the data handler *)
(* was given d.  A line that fills its buffer says nothing more.           *)
Starts(c, resp, p, b) ==
  /\ b = p - Len(c.line) /\ b \in 1..p /\ resp[b] = "nl"
  /\ \A k \in b + 1..p : resp[k] # "nl" /\ resp[k] = c.line[k - b]
  /\ \A k \in HeadersEnd(resp) : k > p

ReadTo(c, resp, p, d) ==
  /\ c.state \in {"STATUSLINE", "HEADERS"} => d = <<>>
  /\ c.state = "STATUSLINE" /\ Len(c.line) < LineRoom => \A k \in 1..p : resp[k] # "nl"
  /\ c.state = "HEADERS" /\ Len(c.line) < LineRoom => \E b \in Nat : Starts(c, resp, p, b)
  /\ c.state = "DATA" /\ c.httpflag = "MOVED" => d = <<>>
  /\ c.state = "DATA" /\ c.httpflag # "MOVED" =>
       \E e \in HeadersEnd(resp) :
         e <= p /\ (\A k \in HeadersEnd(resp) : e <= k) /\ d = SubSeq(resp, e + 1, p)

LEMMA StartsAnew ==
  ASSUME NEW resp \in Seq(STRING), NEW p \in 0..Len(resp) - 1, NEW c, c.line = <<>>, resp[p + 1] = "nl",
         \A k \in HeadersEnd(resp) : k > p + 1
  PROVE  Starts(c, resp, p + 1, p + 1)
<1> DEFINE q == p + 1
<1>1. q \in Nat /\ q \in 1..q /\ q = q - 0 /\ q + 1..q = {}  OBVIOUS
<1>2. resp[q] = "nl" /\ (\A k \in HeadersEnd(resp) : k > q) /\ Len(c.line) = 0  OBVIOUS
<1> HIDE DEF q
<1>3. Starts(c, resp, q, q)  BY <1>1, <1>2 DEF Starts
<1> QED  BY <1>3 DEF q

(* What the data handler was given begins the body.                        *)
BodyBegins(resp, d) ==
  d = <<>> \/ \E e \in HeadersEnd(resp), p \in 0..Len(resp) :
                e <= p /\ (\A k \in HeadersEnd(resp) : e <= k) /\ d = SubSeq(resp, e + 1, p)

LEMMA ReadToBegins ==
  ASSUME NEW c \in Wc, c.state # "CLOSE", NEW resp \in Seq(STRING), NEW p \in 0..Len(resp), NEW d,
         ReadTo(c, resp, p, d)
  PROVE  BodyBegins(resp, d)
BY DEF Wc, ReadTo, BodyBegins

LEMMA BodyPrefix ==
  ASSUME NEW resp \in Seq(STRING), NEW d, BodyBegins(resp, d)
  PROVE  IsPrefix(d, Body(resp))
<1>1. Body(resp) \in Seq(STRING)
  <2>1. CASE HeadersEnd(resp) = {}  BY <2>1 DEF Body
  <2>2. CASE HeadersEnd(resp) # {}
    <3>1. HeadersEnd(resp) \in SUBSET Nat  BY DEF HeadersEnd
    <3>2. PICK e \in HeadersEnd(resp) : \A k \in HeadersEnd(resp) : e <= k  BY <2>2, <3>1, LeastNatural
    <3>3. Min(HeadersEnd(resp)) \in HeadersEnd(resp)  BY <3>2 DEF Min
    <3>4. Min(HeadersEnd(resp)) \in 1..Len(resp)  BY <3>3 DEF HeadersEnd
    <3> DEFINE m == Min(HeadersEnd(resp))
    <3>5. Body(resp) = SubSeq(resp, m + 1, Len(resp))  BY <2>2 DEF Body
    <3> HIDE DEF m
    <3>6. m \in 1..Len(resp)  BY <3>4 DEF m
    <3>7. SubSeq(resp, m + 1, Len(resp)) \in Seq(STRING)  BY <3>6, SubSeqProperties
    <3> QED  BY <3>5, <3>7
  <2> QED  BY <2>1, <2>2
<1>2. CASE d = <<>>
  <2>1. Len(d) = 0  BY <1>2
  <2>2. Len(Body(resp)) \in Nat  BY <1>1
  <2>3. SubSeq(Body(resp), 1, 0) = <<>>  BY <1>1
  <2> QED  BY <1>2, <2>1, <2>2, <2>3 DEF IsPrefix
<1>3. CASE d # <<>>
  <2>1. PICK e \in HeadersEnd(resp), p \in 0..Len(resp) :
           e <= p /\ (\A k \in HeadersEnd(resp) : e <= k) /\ d = SubSeq(resp, e + 1, p)
    BY <1>3 DEF BodyBegins
  <2>2. HeadersEnd(resp) \subseteq 1..Len(resp) /\ Len(resp) \in Nat  BY DEF HeadersEnd
  <2>3. Min(HeadersEnd(resp)) = e
    <3>1. \A m \in HeadersEnd(resp) : (\A k \in HeadersEnd(resp) : m <= k) => m = e  BY <2>1, <2>2
    <3>2. (CHOOSE m \in HeadersEnd(resp) : \A k \in HeadersEnd(resp) : m <= k) = e  BY <2>1, <3>1
    <3> QED  BY <3>2 DEF Min
  <2>4. Body(resp) = SubSeq(resp, e + 1, Len(resp))  BY <2>1, <2>3 DEF Body
  <2>5. e \in 1..Len(resp) /\ e <= p  BY <2>1, <2>2
  <2>6. /\ Len(d) = p - e /\ Len(Body(resp)) = Len(resp) - e
        /\ \A i \in 1..p - e : d[i] = resp[e + i]
        /\ \A i \in 1..Len(resp) - e : Body(resp)[i] = resp[e + i]
    BY <2>1, <2>4, <2>5, SubSeqProperties
  <2>7. d \in Seq(STRING)  BY <2>1, <2>5, SubSeqProperties
  <2> QED  BY <1>1, <2>2, <2>5, <2>6, <2>7, SubSeqProperties DEF IsPrefix
<1> QED  BY <1>2, <1>3

(* A part of a sequence and the element after it are the part one longer. *)
LEMMA PartGrows ==
  ASSUME NEW q \in Seq(STRING), NEW e \in Nat, NEW p \in Nat, e <= p, p + 1 \in 1..Len(q)
  PROVE  Append(SubSeq(q, e + 1, p), q[p + 1]) = SubSeq(q, e + 1, p + 1)
<1>1. Len(q) \in Nat /\ \A i \in 1..Len(q) : q[i] \in STRING  OBVIOUS
<1>2. e + 1 \in Int /\ p \in Int /\ p + 1 \in Int  OBVIOUS
<1>3. (\A i \in e + 1..p : q[i] \in STRING) /\ (\A i \in e + 1..p + 1 : q[i] \in STRING)  BY <1>1
<1>4. /\ SubSeq(q, e + 1, p) \in Seq(STRING)
      /\ Len(SubSeq(q, e + 1, p)) = IF e + 1 <= p THEN p - (e + 1) + 1 ELSE 0
      /\ \A i \in 1..p - (e + 1) + 1 : SubSeq(q, e + 1, p)[i] = q[e + 1 + i - 1]
  BY <1>2, <1>3, SubSeqProperties
<1>5. /\ SubSeq(q, e + 1, p + 1) \in Seq(STRING)
      /\ Len(SubSeq(q, e + 1, p + 1)) = IF e + 1 <= p + 1 THEN p + 1 - (e + 1) + 1 ELSE 0
      /\ \A i \in 1..p + 1 - (e + 1) + 1 : SubSeq(q, e + 1, p + 1)[i] = q[e + 1 + i - 1]
  BY <1>2, <1>3, SubSeqProperties
<1>6. PICK a \in Seq(STRING) : a = SubSeq(q, e + 1, p)  BY <1>4
<1>7. PICK b \in Seq(STRING) : b = SubSeq(q, e + 1, p + 1)  BY <1>5
<1>8. Len(a) = p - e /\ \A i \in 1..p - e : a[i] = q[e + i]  BY <1>4, <1>6
<1>9. Len(b) = p - e + 1 /\ \A i \in 1..p - e + 1 : b[i] = q[e + i]  BY <1>5, <1>7
<1>10. PICK x \in STRING : x = q[p + 1]  BY <1>1
<1>11. p - e \in Nat /\ e + (p - e + 1) = p + 1  OBVIOUS
<1>12. \A i \in 1..Len(b) : b[i] = Append(a, x)[i]  BY <1>8, <1>9, <1>10, <1>11
<1>13. Append(a, x) \in Seq(STRING) /\ Len(Append(a, x)) = Len(b)  BY <1>8, <1>9, <1>10, <1>11
<1>14. Append(a, x) = b
  <2>1. PICK c \in Seq(STRING) : c = Append(a, x)  BY <1>13
  <2>2. Len(c) = Len(b) /\ \A i \in 1..Len(c) : c[i] = b[i]  BY <1>12, <1>13, <2>1
  <2> QED  BY <2>1, <2>2, SeqEqual
<1> QED  BY <1>6, <1>7, <1>10, <1>14

(* One word more. *)
LEMMA TakeWordReads ==
  ASSUME NEW resp \in Seq(STRING), NEW p \in 0..Len(resp) - 1, NEW w, WorkOK(w), w.wc.state # "CLOSE",
         NEW g \in Seq(STRING), ~w.ends => ReadTo(w.wc, resp, p, g \o w.data), BodyBegins(resp, g \o w.data),
         NEW v, v = TakeWord(w, resp[p + 1])
  PROVE  /\ ~v.ends => ReadTo(v.wc, resp, p + 1, g \o v.data)
         /\ BodyBegins(resp, g \o v.data)
<1> DEFINE x == resp[p + 1]
           d == g \o w.data
           l == w.wc.line
<1>1. /\ w.wc \in Wc /\ w.wc.httpflag \in {"NONE", "OK", "MOVED"}
      /\ w.wc.state \in {"STATUSLINE", "HEADERS", "DATA"} /\ l \in Seq(STRING)
      /\ Len(l) <= LineRoom /\ w.data \in Seq(STRING) /\ w.ends \in BOOLEAN
  BY DEF WorkOK, WebWorks, Wc, WcFits
<1>2. /\ x \in STRING /\ Len(resp) \in Nat /\ p \in Nat /\ p + 1 \in 1..Len(resp) /\ LineRoom \in Nat
      /\ Len(l) \in Nat
  BY <1>1, WebConsts
<1>3. /\ Leaves(v, w)
      /\ w.ends \/ (w.wc.state = "DATA" /\ w.wc.httpflag = "MOVED") => v = w
      /\ ~w.ends /\ w.wc.state = "DATA" /\ w.wc.httpflag # "MOVED" =>
           v.wc = w.wc /\ v.data = Append(w.data, x) /\ ~v.ends
      /\ ~w.ends /\ w.wc.state # "DATA" =>
           /\ v.data = w.data
           /\ Len(l) = LineRoom => v = w
           /\ Len(l) # LineRoom /\ x # "nl" =>
                /\ ~v.ends /\ v.wc.state = w.wc.state /\ v.wc.httpflag = w.wc.httpflag
                /\ v.wc.line = Append(l, x)
           /\ Len(l) # LineRoom /\ x = "nl" /\ w.wc.state = "STATUSLINE" =>
                v.ends \/ (v.wc.state = "HEADERS" /\ v.wc.line = <<>>)
           /\ Len(l) # LineRoom /\ x = "nl" /\ w.wc.state = "HEADERS" =>
                /\ ~v.ends /\ v.wc.httpflag = w.wc.httpflag
                /\ \/ l # <<>> /\ l[1] = "cr" /\ v.wc.state = "DATA"
                   \/ ~(l # <<>> /\ l[1] = "cr") /\ v.wc.state = "HEADERS" /\ v.wc.line = <<>>
  <2>1. WordEffect(w, x, v)  BY <1>2, TakeWordIs
  <2> QED  BY <2>1 DEF WordEffect
<1>4. v.wc \in Wc /\ v.wc.state # "CLOSE"  BY <1>3 DEF Leaves, WorkOK, WebWorks
<1>5. HeadersEnd(resp) \subseteq 1..Len(resp)  BY DEF HeadersEnd
<1>6. SUFFICES ASSUME ~w.ends PROVE IF v.ends THEN v.data = w.data ELSE ReadTo(v.wc, resp, p + 1, g \o v.data)
  <2>1. CASE w.ends  BY <1>3, <2>1
  <2>2. CASE ~w.ends /\ v.ends  BY <1>6, <2>2
  <2>3. CASE ~w.ends /\ ~v.ends
    <3>1. ReadTo(v.wc, resp, p + 1, g \o v.data)  BY <1>6, <2>3
    <3>2. p + 1 \in 0..Len(resp)  BY <1>2
    <3> QED  BY <1>4, <3>1, <3>2, ReadToBegins
  <2> QED  BY <2>1, <2>2, <2>3
<1>7. ReadTo(w.wc, resp, p, d)  BY <1>6
<1>8. CASE w.wc.state = "DATA" /\ w.wc.httpflag = "MOVED"
  <2>1. v = w /\ d = <<>>  BY <1>3, <1>7, <1>8 DEF ReadTo
  <2> QED  BY <1>6, <1>8, <2>1 DEF ReadTo
<1>9. CASE w.wc.state = "DATA" /\ w.wc.httpflag # "MOVED"
  <2>1. v.wc = w.wc /\ v.data = Append(w.data, x) /\ ~v.ends  BY <1>3, <1>6, <1>9
  <2>2. PICK e \in HeadersEnd(resp) :
           e <= p /\ (\A k \in HeadersEnd(resp) : e <= k) /\ d = SubSeq(resp, e + 1, p)
    BY <1>7, <1>9 DEF ReadTo
  <2>3. e \in Nat /\ e >= 1 /\ e <= p + 1  BY <1>2, <1>5, <2>2
  <2>4. g \o v.data = Append(d, x)
    <3>1. g \o Append(w.data, x) = Append(g \o w.data, x)  BY <1>1, <1>2
    <3> QED  BY <2>1, <3>1
  <2>5. Append(SubSeq(resp, e + 1, p), x) = SubSeq(resp, e + 1, p + 1)
    BY <1>2, <2>2, <2>3, PartGrows
  <2>6. g \o v.data = SubSeq(resp, e + 1, p + 1)
    <3> HIDE DEF x, d, l
    <3>1. d = SubSeq(resp, e + 1, p)  BY <2>2
    <3> QED  BY <2>4, <2>5, <3>1
  <2> HIDE DEF x, d, l
  <2> QED  BY <1>9, <2>1, <2>2, <2>3, <2>6 DEF ReadTo
<1>10. CASE w.wc.state # "DATA" /\ Len(l) = LineRoom
  <2>1. v = w /\ d = <<>>  BY <1>1, <1>3, <1>6, <1>7, <1>10 DEF ReadTo
  <2>2. ~(Len(w.wc.line) < LineRoom)  BY <1>2, <1>10
  <2> QED  BY <1>6, <1>10, <2>1, <2>2 DEF ReadTo
<1>11. CASE w.wc.state # "DATA" /\ Len(l) # LineRoom
  <2>1. v.data = w.data /\ d = <<>> /\ Len(l) < LineRoom
    BY <1>1, <1>2, <1>3, <1>6, <1>7, <1>11 DEF ReadTo
  <2>2. CASE w.wc.state = "STATUSLINE"
    <3>1. \A k \in 1..p : resp[k] # "nl"  BY <1>7, <2>1, <2>2 DEF ReadTo
    <3>2. CASE x # "nl"
      <4>1. ~v.ends /\ v.wc.state = "STATUSLINE"  BY <1>3, <1>6, <1>11, <2>2, <3>2
      <4>2. \A k \in 1..p + 1 : resp[k] # "nl"  BY <1>2, <3>1, <3>2
      <4> HIDE DEF x, d, l
      <4> QED  BY <2>1, <4>1, <4>2 DEF d, ReadTo
    <3>3. CASE x = "nl" /\ ~v.ends
      <4>1. v.wc.state = "HEADERS" /\ v.wc.line = <<>>  BY <1>3, <1>6, <1>11, <2>2, <3>3
      <4>2. \A k \in HeadersEnd(resp) : k > p + 1
        <5> SUFFICES ASSUME NEW k \in HeadersEnd(resp), ~(k > p + 1) PROVE FALSE  OBVIOUS
        <5>1. PICK j \in 2..k - 1 : resp[j - 1] = "nl"  BY DEF HeadersEnd
        <5>2. k \in Nat  BY <1>5
        <5>3. j - 1 \in 1..p  BY <1>2, <5>1, <5>2
        <5> QED  BY <3>1, <5>1, <5>3
      <4>3. Starts(v.wc, resp, p + 1, p + 1)  BY <3>3, <4>1, <4>2, StartsAnew
      <4>4. p + 1 \in Nat  BY <1>2
      <4> HIDE DEF x, d, l
      <4> QED  BY <2>1, <3>3, <4>1, <4>3, <4>4 DEF d, ReadTo
    <3> QED  BY <2>1, <3>2, <3>3
  <2>3. CASE w.wc.state = "HEADERS"
    <3>1. PICK b \in Nat : Starts(w.wc, resp, p, b)  BY <1>7, <2>1, <2>3 DEF ReadTo
    <3>2. /\ b = p - Len(l) /\ b \in 1..p /\ resp[b] = "nl"
          /\ \A k \in b + 1..p : resp[k] # "nl" /\ resp[k] = l[k - b]
          /\ \A k \in HeadersEnd(resp) : k > p
      BY <3>1 DEF Starts
    <3> DEFINE n == Len(l)
    <3>6. b = p - n /\ b \in 1..p /\ n \in Nat /\ p \in Nat /\ b \in Nat  BY <1>2, <3>2
    <3> HIDE DEF n
    <3>3. CASE x # "nl"
      <4>1. ~v.ends /\ v.wc.state = "HEADERS" /\ v.wc.line = Append(l, x)  BY <1>3, <1>6, <1>11, <2>3, <3>3
      <4>2. Len(Append(l, x)) = Len(l) + 1 /\ Append(l, x)[Len(l) + 1] = x
            /\ \A k \in 1..Len(l) : Append(l, x)[k] = l[k]
        BY <1>1, <1>2, AppendProperties
      <4>3. \A k \in HeadersEnd(resp) : k > p + 1
        <5> SUFFICES ASSUME NEW k \in HeadersEnd(resp) PROVE k > p + 1  OBVIOUS
        <5>1. k > p /\ resp[k] = "nl" /\ k \in Nat  BY <1>5, <3>2 DEF HeadersEnd
        <5>2. k # p + 1  BY <3>3, <5>1
        <5> QED  BY <1>2, <5>1, <5>2
      <4>4. \A k \in b + 1..p + 1 : resp[k] # "nl" /\ resp[k] = Append(l, x)[k - b]
        <5> SUFFICES ASSUME NEW k \in b + 1..p + 1
                     PROVE  resp[k] # "nl" /\ resp[k] = Append(l, x)[k - b]
          OBVIOUS
        <5>1. CASE k = p + 1
          <6>1. k - b = Len(l) + 1
            <7>1. \A i, j, m \in Nat : i = j - m => (j + 1) - i = m + 1  OBVIOUS
            <7>2. (p + 1) - b = n + 1  BY <3>6, <7>1
            <7> QED  BY <5>1, <7>2 DEF n
          <6> QED  BY <3>3, <4>2, <5>1, <6>1
        <5>2. CASE k # p + 1
          <6>1. k \in b + 1..p /\ k - b \in 1..Len(l)  BY <1>2, <3>2, <5>2
          <6> QED  BY <3>2, <4>2, <6>1
        <5> QED  BY <5>1, <5>2
      <4>5. b = p + 1 - Len(Append(l, x)) /\ b \in 1..p + 1  BY <1>2, <3>2, <4>2
      <4>6. Starts(v.wc, resp, p + 1, b)
        <5>1. PICK q : q = p + 1  OBVIOUS
        <5>2. PICK a : a = Append(l, x)  OBVIOUS
        <5>3. v.wc.line = a /\ b = q - Len(a) /\ b \in 1..q /\ resp[b] = "nl"
          <6>1. b = q - Len(a) /\ b \in 1..q  BY <4>5, <5>1, <5>2
          <6> QED  BY <3>2, <4>1, <5>2, <6>1
        <5>4. \A k \in b + 1..q : resp[k] # "nl" /\ resp[k] = a[k - b]  BY <4>4, <5>1, <5>2
        <5>5. \A k \in HeadersEnd(resp) : k > q  BY <4>3, <5>1
        <5>6. Starts(v.wc, resp, q, b)  BY <5>3, <5>4, <5>5 DEF Starts
        <5> QED  BY <5>1, <5>6
      <4> HIDE DEF x, d, l
      <4> QED  BY <2>1, <4>1, <4>6 DEF d, ReadTo
    <3>4. CASE x = "nl" /\ l # <<>> /\ l[1] = "cr"
      <4>1. ~v.ends /\ v.wc.state = "DATA" /\ v.wc.httpflag = w.wc.httpflag
        BY <1>3, <1>6, <1>11, <2>3, <3>4
      <4>2. Len(l) >= 1  BY <1>1, <3>4
      <4>3. b + 1 \in b + 1..p /\ b + 1 - b = 1 /\ b + 1 \in 2..(p + 1) - 1 /\ (b + 1) - 1 = b
        <5>1. n >= 1  BY <4>2 DEF n
        <5>2. b + 1 \in b + 1..p  BY <3>6, <5>1
        <5>3. b + 1 - b = 1 /\ (b + 1) - 1 = b  BY <3>6
        <5>4. b + 1 \in 2..(p + 1) - 1  BY <3>6, <5>1
        <5> QED  BY <5>2, <5>3, <5>4
      <4>4. resp[b + 1] = "cr"
        <5>1. PICK j : j = b + 1  OBVIOUS
        <5>2. j \in b + 1..p /\ j - b = 1  BY <4>3, <5>1
        <5>3. \A k \in b + 1..p : resp[k] = l[k - b]  BY <3>2
        <5>4. resp[j] = l[j - b]  BY <5>2, <5>3, Zenon
        <5> QED  BY <3>4, <5>1, <5>2, <5>4
      <4>5. \E j \in 2..(p + 1) - 1 : resp[j - 1] = "nl" /\ resp[j] = "cr"  BY <3>2, <4>3, <4>4
      <4>6. p + 1 \in HeadersEnd(resp)  BY <1>2, <3>4, <4>5 DEF HeadersEnd
      <4>7. \A k \in HeadersEnd(resp) : p + 1 <= k  BY <1>2, <1>5, <3>2
      <4>8. SubSeq(resp, (p + 1) + 1, p + 1) = <<>>  BY <1>2
      <4>9. p + 1 <= p + 1  BY <1>2
      <4> HIDE DEF x, d, l
      <4> QED  BY <2>1, <4>1, <4>6, <4>7, <4>8, <4>9 DEF d, ReadTo
    <3>5. CASE x = "nl" /\ ~(l # <<>> /\ l[1] = "cr")
      <4>1. ~v.ends /\ v.wc.state = "HEADERS" /\ v.wc.line = <<>>
        BY <1>3, <1>6, <1>11, <2>3, <3>5
      <4>2. \A k \in HeadersEnd(resp) : k > p + 1
        <5> SUFFICES ASSUME p + 1 \in HeadersEnd(resp) PROVE FALSE
          BY <1>2, <1>5, <3>2
        <5>1. PICK j \in 2..(p + 1) - 1 : resp[j - 1] = "nl" /\ resp[j] = "cr"  BY DEF HeadersEnd
        <5>2. j \in 2..p /\ j - 1 \in 1..p  BY <1>2, <5>1
        <5>3. CASE j - 1 > b
          <6>1. j - 1 \in b + 1..p  BY <3>2, <5>2, <5>3
          <6> QED  BY <3>2, <5>1, <6>1
        <5>4. CASE j - 1 = b
          <6>1. j \in b + 1..p /\ j - b = 1  BY <3>2, <5>2, <5>4
          <6>2. l[1] = "cr"  BY <3>2, <5>1, <6>1
          <6>3. Len(l) # 0  BY <1>2, <3>2, <5>2, <5>4
          <6>4. l # <<>>  BY <6>3
          <6> QED  BY <3>5, <6>2, <6>4
        <5>5. CASE j - 1 < b
          <6>1. j # b  BY <3>2, <5>1
          <6>2. j \in 2..b - 1 /\ b \in 1..Len(resp)  BY <1>2, <3>6, <5>2, <5>5, <6>1
          <6>3. b \in HeadersEnd(resp)  BY <3>2, <5>1, <6>2 DEF HeadersEnd
          <6> QED  BY <1>2, <3>2, <6>3
        <5> QED  BY <3>2, <5>2, <5>3, <5>4, <5>5
      <4>3. Starts(v.wc, resp, p + 1, p + 1)  BY <3>5, <4>1, <4>2, StartsAnew
      <4>4. p + 1 \in Nat  BY <1>2
      <4> HIDE DEF x, d, l
      <4> QED  BY <2>1, <4>1, <4>3, <4>4 DEF d, ReadTo
    <3> QED  BY <3>3, <3>4, <3>5
  <2> QED  BY <1>1, <1>11, <2>2, <2>3
<1> QED  BY <1>1, <1>8, <1>9, <1>10, <1>11

(* The words of a segment leave alone what one word does. *)
LEMMA NewdataLeaves ==
  ASSUME NEW w, WorkOK(w), w.wc.state # "CLOSE", NEW words \in Seq(STRING)
  PROVE  Leaves(webclient_newdata(w, words), w)
<1> DEFINE L == Len(words)
<1>1. L \in Nat  OBVIOUS
<1>2. PICK run : /\ run[0] = w
                 /\ \A n \in 1..L : run[n] = TakeWord(run[n - 1], words[n])
                 /\ webclient_newdata(w, words) = run[L]
  <2>1. PICK run : ReadRun(run, w, words)  BY <1>1, NewdataRun
  <2> QED  BY <2>1 DEF ReadRun
<1> DEFINE S == {n \in Nat : n <= L => Leaves(run[n], w)}
<1>3. 0 \in S  BY <1>2 DEF Leaves
<1>4. ASSUME NEW n \in Nat, n \in S PROVE n + 1 \in S
  <2> SUFFICES ASSUME n + 1 <= L PROVE Leaves(run[n + 1], w)  OBVIOUS
  <2>1. Leaves(run[n], w)  BY <1>1, <1>4
  <2>2. n + 1 \in 1..L /\ (n + 1) - 1 = n  BY <1>1
  <2>3. run[n + 1] = TakeWord(run[n], words[n + 1])  BY <1>2, <2>2
  <2>4. words[n + 1] \in STRING  BY <2>2
  <2>5. Leaves(run[n + 1], run[n])
    <3>1. WorkOK(run[n]) /\ run[n].wc.state # "CLOSE"  BY <2>1 DEF Leaves
    <3>2. WordEffect(run[n], words[n + 1], TakeWord(run[n], words[n + 1]))  BY <2>4, <3>1, TakeWordIs
    <3> QED  BY <2>3, <3>2 DEF WordEffect
  <2> QED  BY <2>1, <2>5 DEF Leaves
<1>5. \A n \in Nat : n \in S => n + 1 \in S  BY <1>4
<1>6. L \in S
  <2> HIDE DEF S, L
  <2>1. \A n \in Nat : n \in S  BY <1>3, <1>5, SetInduction
  <2> QED  BY <1>1, <2>1
<1> QED  BY <1>1, <1>2, <1>6

(* However a response is cut: what its words up to here did, the words of  *)
(* the next segment continue.                                              *)
LEMMA NewdataReads ==
  ASSUME NEW w, WorkOK(w), w.wc.state # "CLOSE", ~w.ends, NEW words \in Seq(STRING),
         NEW resp \in Seq(STRING), NEW p \in Nat, p + Len(words) <= Len(resp),
         \A n \in 1..Len(words) : words[n] = resp[p + n],
         NEW g \in Seq(STRING), ReadTo(w.wc, resp, p, g \o w.data), BodyBegins(resp, g \o w.data),
         NEW v, v = webclient_newdata(w, words)
  PROVE  /\ ~v.ends => ReadTo(v.wc, resp, p + Len(words), g \o v.data)
         /\ BodyBegins(resp, g \o v.data)
<1> DEFINE L == Len(words)
<1>1. L \in Nat /\ Len(resp) \in Nat  OBVIOUS
<1>2. PICK run : /\ run[0] = w
                 /\ \A n \in 1..L : run[n] = TakeWord(run[n - 1], words[n])
                 /\ webclient_newdata(w, words) = run[L]
  <2>1. PICK run : ReadRun(run, w, words)  BY <1>1, NewdataRun
  <2> QED  BY <2>1 DEF ReadRun
<1> DEFINE Reads(u, n) == /\ WorkOK(u) /\ u.wc.state # "CLOSE"
                          /\ ~u.ends => ReadTo(u.wc, resp, p + n, g \o u.data)
                          /\ BodyBegins(resp, g \o u.data)
           S == {n \in Nat : n <= L => Reads(run[n], n)}
<1>3. 0 \in S
  <2>1. p + 0 = p  OBVIOUS
  <2>2. Reads(w, 0)  BY <2>1
  <2> HIDE DEF Reads
  <2> QED  BY <1>2, <2>2
<1>4. ASSUME NEW n \in Nat, n \in S PROVE n + 1 \in S
  <2> SUFFICES ASSUME n + 1 <= L PROVE Reads(run[n + 1], n + 1)  OBVIOUS
  <2>1. Reads(run[n], n)
    <3> HIDE DEF Reads
    <3> QED  BY <1>1, <1>4
  <2>2. n + 1 \in 1..L /\ (n + 1) - 1 = n
    <3>1. (n + 1) - 1 = n /\ n + 1 \in Nat /\ 1 <= n + 1  OBVIOUS
    <3> HIDE DEF L
    <3> QED  BY <1>1, <3>1
  <2>3. words[n + 1] = resp[p + (n + 1)] /\ words[n + 1] \in STRING  BY <2>2
  <2>4. PICK q \in 0..Len(resp) - 1 : q = p + n
    <3>1. \A a, b, m \in Nat : p + a <= b /\ m + 1 <= a => p + m \in 0..b - 1  OBVIOUS
    <3>2. p + n \in 0..Len(resp) - 1  BY <1>1, <3>1
    <3> QED  BY <3>2
  <2>5. q + 1 = p + (n + 1)  BY <2>4
  <2>6. run[n + 1] = TakeWord(run[n], resp[q + 1])
    <3>1. run[n + 1] = TakeWord(run[n], words[n + 1])  BY <1>2, <2>2
    <3> QED  BY <2>3, <2>5, <3>1
  <2>7. /\ WorkOK(run[n]) /\ run[n].wc.state # "CLOSE"
        /\ ~run[n].ends => ReadTo(run[n].wc, resp, q, g \o run[n].data)
        /\ BodyBegins(resp, g \o run[n].data)
    BY <2>1, <2>4
  <2>8. /\ ~run[n + 1].ends => ReadTo(run[n + 1].wc, resp, q + 1, g \o run[n + 1].data)
        /\ BodyBegins(resp, g \o run[n + 1].data)
    BY <2>6, <2>7, TakeWordReads
  <2>9. WorkOK(run[n + 1]) /\ run[n + 1].wc.state # "CLOSE"
    <3>1. WordEffect(run[n], words[n + 1], TakeWord(run[n], words[n + 1]))  BY <2>3, <2>7, TakeWordIs
    <3>2. run[n + 1] = TakeWord(run[n], words[n + 1])  BY <1>2, <2>2
    <3> QED  BY <3>1, <3>2 DEF WordEffect, Leaves
  <2> QED  BY <2>5, <2>8, <2>9
<1>5. \A n \in Nat : n \in S => n + 1 \in S  BY <1>4
<1>6. L \in S
  <2> HIDE DEF S, L
  <2>1. \A n \in Nat : n \in S  BY <1>3, <1>5, SetInduction
  <2> QED  BY <1>1, <2>1
<1>7. Reads(run[L], L)
  <2> HIDE DEF Reads
  <2> QED  BY <1>1, <1>6
<1> QED  BY <1>2, <1>7

-----------------------------------------------------------------------------
(* What a call of webclient_appcall works on and what the response reaches. *)
Same(c, d) == c.state = d.state /\ c.line = d.line /\ c.httpflag = d.httpflag

LEMMA SameReads ==
  ASSUME NEW c, NEW d, Same(c, d), NEW resp, NEW p, NEW g
  PROVE  ReadTo(c, resp, p, g) <=> ReadTo(d, resp, p, g)
BY DEF Same, ReadTo, Starts

WebTypes ==
  /\ wc \in Wc /\ WcFits(wc) /\ tcps \in [Tcps -> TcpOf] /\ known \subseteq Hosts /\ told \in Callbacks
  /\ got \in [Tcps -> Seq(STRING)] /\ twice \in BOOLEAN

LEMMA WebWorkOK ==
  ASSUME WebTypes
  PROVE  /\ WorkOK(WebWork) /\ WebWork.wc = wc /\ WebWork.tcps = tcps /\ WebWork.told = told
         /\ WebWork.data = <<>> /\ WebWork.sends = FALSE /\ WebWork.ends = FALSE
<1>1. <<>> \in Seq(STRING)  OBVIOUS
<1> QED  BY <1>1 DEF WebTypes, WorkOK, WebWorks, WebWork

LEMMA TimerReset ==
  ASSUME NEW w, WorkOK(w)
  PROVE  /\ WorkOK([w EXCEPT !.wc.timer = 0])
         /\ Same([w EXCEPT !.wc.timer = 0].wc, w.wc) /\ [w EXCEPT !.wc.timer = 0].wc.left = w.wc.left
         /\ [w EXCEPT !.wc.timer = 0].wc.ptr = w.wc.ptr /\ [w EXCEPT !.wc.timer = 0].tcps = w.tcps
         /\ [w EXCEPT !.wc.timer = 0].data = w.data /\ [w EXCEPT !.wc.timer = 0].sends = w.sends
         /\ [w EXCEPT !.wc.timer = 0].ends = w.ends
<1> DEFINE c == [w.wc EXCEPT !.timer = 0]
           v == [w EXCEPT !.wc = c]
<1>1. w.wc \in Wc /\ WcFits(w.wc)  BY DEF WorkOK, WebWorks
<1>2. /\ c \in Wc /\ c.timer = 0 /\ c.line = w.wc.line /\ c.state = w.wc.state /\ c.httpflag = w.wc.httpflag
      /\ c.left = w.wc.left /\ c.ptr = w.wc.ptr
  BY <1>1 DEF Wc
<1>3. [w EXCEPT !.wc.timer = 0] = v  BY DEF WorkOK, WebWorks
<1> HIDE DEF c
<1>4. WcFits(c)  BY <1>1, <1>2, WebConsts DEF WcFits, Wc
<1>5. v \in WebWorks /\ v.wc = c /\ v.tcps = w.tcps /\ v.data = w.data /\ v.sends = w.sends /\ v.ends = w.ends
  BY <1>2 DEF WorkOK, WebWorks
<1> HIDE DEF v
<1> QED  BY <1>2, <1>3, <1>4, <1>5 DEF WorkOK, Same

(* Two states of a call that agree but for the counters and what was told. *)
Agree(v, w) ==
  Same(v.wc, w.wc) /\ v.tcps = w.tcps /\ v.data = w.data

LEMMA AckedIs ==
  ASSUME NEW w, WorkOK(w), NEW v, v = webclient_acked(w)
  PROVE  /\ Agree(v, w) /\ v.sends = w.sends /\ v.ends = w.ends
         /\ w.wc.left > 0 => v.wc.left = w.wc.left - 1 /\ v.wc.ptr = w.wc.ptr + 1
         /\ ~(w.wc.left > 0) => v.wc.left = w.wc.left /\ v.wc.ptr = w.wc.ptr
<1>1. CASE w.wc.left > 0
  <2>1. PICK l : l = w.wc.left - 1  OBVIOUS
  <2>2. PICK p : p = w.wc.ptr + 1  OBVIOUS
  <2>3. v = [w EXCEPT !.wc.left = l, !.wc.ptr = p]  BY <1>1, <2>1, <2>2 DEF webclient_acked, WorkOK, WebWorks, Wc
  <2>4. PICK c : c = [w.wc EXCEPT !.left = l, !.ptr = p]  OBVIOUS
  <2>5. v = [w EXCEPT !.wc = c]  BY <2>3, <2>4 DEF WorkOK, WebWorks
  <2>6. c.left = l /\ c.ptr = p /\ Same(c, w.wc)  BY <2>4 DEF WorkOK, WebWorks, Wc, Same
  <2>7. v.wc = c /\ v.tcps = w.tcps /\ v.data = w.data /\ v.sends = w.sends /\ v.ends = w.ends
    BY <2>5 DEF WorkOK, WebWorks
  <2> QED  BY <1>1, <2>1, <2>2, <2>6, <2>7 DEF Agree
<1>2. CASE ~(w.wc.left > 0)  BY <1>2 DEF webclient_acked, Agree, Same
<1> QED  BY <1>1, <1>2

LEMMA PolledIs ==
  ASSUME NEW w, WorkOK(w), NEW v, v = polled(w)
  PROVE  Agree(v, w) /\ v.sends = w.sends /\ v.wc.left = w.wc.left /\ v.wc.ptr = w.wc.ptr
<1>1. PICK t : t = (w.wc.timer + 1) % TimerValues  OBVIOUS
<1>2. v = [Aborts(Tells(w, "timedout")) EXCEPT !.wc.timer = t] \/ v = [w EXCEPT !.wc.timer = t]
  BY <1>1 DEF polled
<1>3. [w EXCEPT !.wc.timer = t].wc = [w.wc EXCEPT !.timer = t]
      /\ [Aborts(Tells(w, "timedout")) EXCEPT !.wc.timer = t].wc = [w.wc EXCEPT !.timer = t]
  BY DEF WorkOK, WebWorks, Aborts, Tells
<1>4. v.wc = [w.wc EXCEPT !.timer = t] /\ v.tcps = w.tcps /\ v.data = w.data /\ v.sends = w.sends
  BY <1>2, <1>3 DEF WorkOK, WebWorks, Aborts, Tells
<1>5. Same(v.wc, w.wc) /\ v.wc.left = w.wc.left /\ v.wc.ptr = w.wc.ptr
  BY <1>4 DEF WorkOK, WebWorks, Wc, Same
<1> QED  BY <1>4, <1>5 DEF Agree

LEMMA SenddataIs ==
  ASSUME NEW w, WorkOK(w), ~w.sends, NEW v, v = webclient_senddata(w)
  PROVE  v.wc = w.wc /\ v.tcps = w.tcps /\ v.data = w.data /\ v.ends = w.ends /\ (v.sends <=> w.wc.left > 0)
         /\ v.told = w.told
<1>1. w.wc.left \in Nat /\ w.sends = FALSE  BY DEF WorkOK, WebWorks, Wc
<1>2. CASE w.wc.left > 0
  <2>1. v = [w EXCEPT !.sends = TRUE]  BY <1>2 DEF webclient_senddata
  <2> QED  BY <1>2, <2>1 DEF WorkOK, WebWorks
<1>3. CASE ~(w.wc.left > 0)  BY <1>1, <1>3 DEF webclient_senddata
<1> QED  BY <1>2, <1>3

(* Every call but the first one of a connection: u is what acked leaves,   *)
(* z what the data and the counters leave, and a FIN comes last.           *)
AppcallSteps(ev, words, u, z) ==
  /\ WorkOK(u) /\ Same(u.wc, wc) /\ u.tcps = tcps /\ u.data = <<>> /\ ~u.ends /\ ~u.sends
  /\ "acked" \in ev /\ wc.left > 0 => u.wc.left = wc.left - 1 /\ u.wc.ptr = wc.ptr + 1
  /\ ~("acked" \in ev /\ wc.left > 0) => u.wc.left = wc.left /\ u.wc.ptr = wc.ptr
  /\ WorkOK(z) /\ Agree(z, webclient_newdata(u, words)) /\ z.tcps = tcps
  /\ z.wc.left = u.wc.left /\ z.wc.ptr = u.wc.ptr
  /\ webclient_newdata(u, words).ends => z.ends
  /\ z.sends <=> /\ ~webclient_newdata(u, words).ends /\ ev \cap {"rexmit", "newdata", "acked"} # {}
                 /\ z.wc.left > 0
  /\ webclient_appcall(ev, words) = IF "close" \in ev /\ ~z.ends THEN closed_by_server(z) ELSE z

LEMMA AppcallIs ==
  ASSUME WebTypes, wc.state # "CLOSE", NEW ev, "connected" \notin ev, NEW words \in Seq(STRING),
         "poll" \in ev => ev = {"poll"}, "abort" \in ev => ev = {"abort"}
  PROVE  \E u, z : AppcallSteps(ev, words, u, z)
<1> DEFINE fresh == IF ev \cap {"acked", "newdata"} # {} THEN [WebWork EXCEPT !.wc.timer = 0] ELSE WebWork
           ended == CASE "abort" \in ev    -> Tells(fresh, "aborted")
                      [] "timedout" \in ev -> Tells(fresh, "timedout")
                      [] OTHER             -> fresh
           u == IF "acked" \in ev THEN webclient_acked(ended) ELSE ended
           r == webclient_newdata(u, words)
           z == CASE r.ends -> r
                  [] ~r.ends /\ ev \cap {"rexmit", "newdata", "acked"} # {} -> webclient_senddata(r)
                  [] ~r.ends /\ "poll" \in ev -> polled(r)
                  [] OTHER -> r
<1>1. webclient_appcall(ev, words) = IF "close" \in ev /\ ~z.ends THEN closed_by_server(z) ELSE z
  <2>1. ~("connected" \in ev) /\ ~("connected" \notin ev /\ wc.state = "CLOSE")  OBVIOUS
  <2> QED  BY <2>1, Zenon DEF webclient_appcall
<1>2. /\ WorkOK(fresh) /\ Same(fresh.wc, wc) /\ fresh.tcps = tcps /\ fresh.data = <<>>
      /\ ~fresh.ends /\ ~fresh.sends /\ fresh.wc.left = wc.left /\ fresh.wc.ptr = wc.ptr
  <2>1. /\ WorkOK(WebWork) /\ WebWork.wc = wc /\ WebWork.tcps = tcps /\ WebWork.data = <<>>
        /\ WebWork.sends = FALSE /\ WebWork.ends = FALSE
    BY WebWorkOK
  <2>2. CASE ev \cap {"acked", "newdata"} # {}
    <3>1. fresh = [WebWork EXCEPT !.wc.timer = 0]  BY <2>2
    <3> HIDE DEF fresh
    <3> QED  BY <2>1, <3>1, TimerReset
  <2>3. CASE ~(ev \cap {"acked", "newdata"} # {})
    <3>1. fresh = WebWork  BY <2>3
    <3> HIDE DEF fresh
    <3> QED  BY <2>1, <3>1 DEF Same
  <2> QED  BY <2>2, <2>3
<1> HIDE DEF fresh
<1>3. /\ WorkOK(ended) /\ Same(ended.wc, wc) /\ ended.tcps = tcps /\ ended.data = <<>>
      /\ ~ended.ends /\ ~ended.sends /\ ended.wc.left = wc.left /\ ended.wc.ptr = wc.ptr
  <2>1. \E what \in Callbacks : ended = fresh \/ ended = Tells(fresh, what)
    <3>1. "aborted" \in Callbacks /\ "timedout" \in Callbacks  BY DEF Callbacks
    <3>2. ended = fresh \/ ended = Tells(fresh, "aborted") \/ ended = Tells(fresh, "timedout")  OBVIOUS
    <3> HIDE DEF ended
    <3> QED  BY <3>1, <3>2
  <2>2. PICK what \in Callbacks : ended = fresh \/ ended = Tells(fresh, what)  BY <2>1
  <2>3. WorkOK(ended)
    <3> HIDE DEF ended
    <3> QED  BY <1>2, <2>2, TellsOK
  <2>4. /\ ended.wc = fresh.wc /\ ended.tcps = fresh.tcps /\ ended.data = fresh.data /\ ended.ends = fresh.ends
        /\ ended.sends = fresh.sends
    <3> HIDE DEF ended
    <3> QED  BY <1>2, <2>2 DEF Tells, WorkOK, WebWorks
  <2> HIDE DEF ended
  <2> QED  BY <1>2, <2>3, <2>4
<1> HIDE DEF ended
<1>4. /\ WorkOK(u) /\ Same(u.wc, wc) /\ u.tcps = tcps /\ u.data = <<>> /\ ~u.ends /\ ~u.sends
      /\ "acked" \in ev /\ wc.left > 0 => u.wc.left = wc.left - 1 /\ u.wc.ptr = wc.ptr + 1
      /\ ~("acked" \in ev /\ wc.left > 0) => u.wc.left = wc.left /\ u.wc.ptr = wc.ptr
  <2>1. CASE "acked" \in ev
    <3>1. u = webclient_acked(ended)  BY <2>1
    <3> HIDE DEF u
    <3>2. WorkOK(u)  BY <1>3, <3>1, AckedOK
    <3>3. /\ Agree(u, ended) /\ u.sends = ended.sends /\ u.ends = ended.ends
          /\ ended.wc.left > 0 => u.wc.left = ended.wc.left - 1 /\ u.wc.ptr = ended.wc.ptr + 1
          /\ ~(ended.wc.left > 0) => u.wc.left = ended.wc.left /\ u.wc.ptr = ended.wc.ptr
      BY <1>3, <3>1, AckedIs
    <3> QED  BY <1>3, <2>1, <3>2, <3>3 DEF Agree, Same
  <2>2. CASE ~("acked" \in ev)
    <3>1. u = ended  BY <2>2
    <3> HIDE DEF u
    <3> QED  BY <1>3, <2>2, <3>1
  <2> QED  BY <2>1, <2>2
<1> HIDE DEF u
<1>5. Leaves(r, u)
  <2>1. u.wc.state # "CLOSE"  BY <1>4 DEF Same
  <2> QED  BY <1>4, <2>1, NewdataLeaves
<1>6. /\ WorkOK(z) /\ Agree(z, r) /\ z.tcps = tcps /\ z.wc.left = u.wc.left /\ z.wc.ptr = u.wc.ptr
      /\ r.ends => z.ends
      /\ z.sends <=> ~r.ends /\ ev \cap {"rexmit", "newdata", "acked"} # {} /\ z.wc.left > 0
  <2>1. WorkOK(r) /\ r.tcps = tcps /\ ~r.sends /\ r.wc.left = u.wc.left /\ r.wc.ptr = u.wc.ptr
    BY <1>4, <1>5 DEF Leaves
  <2> HIDE DEF r
  <2>2. CASE r.ends
    <3>1. z = r  BY <2>2
    <3> HIDE DEF z
    <3> QED  BY <2>1, <2>2, <3>1 DEF Agree, Same
  <2>3. CASE ~r.ends /\ ev \cap {"rexmit", "newdata", "acked"} # {}
    <3>1. "poll" \notin ev  BY <2>3
    <3>2. z = webclient_senddata(r)  BY <2>3, <3>1
    <3> HIDE DEF z
    <3>3. WorkOK(z)  BY <2>1, <3>2, SenddataOK
    <3>4. z.wc = r.wc /\ z.tcps = r.tcps /\ z.data = r.data /\ z.ends = r.ends /\ (z.sends <=> r.wc.left > 0)
      BY <2>1, <3>2, SenddataIs
    <3> QED  BY <2>1, <2>3, <3>3, <3>4 DEF Agree, Same
  <2>4. CASE ~r.ends /\ ev \cap {"rexmit", "newdata", "acked"} = {} /\ "poll" \in ev
    <3>2. z = polled(r)  BY <2>4
    <3> HIDE DEF z
    <3>3. WorkOK(z)  BY <2>1, <3>2, PolledOK
    <3>4. Agree(z, r) /\ z.sends = r.sends /\ z.wc.left = r.wc.left /\ z.wc.ptr = r.wc.ptr
      BY <2>1, <3>2, PolledIs
    <3> QED  BY <2>1, <2>4, <3>3, <3>4 DEF Agree
  <2>5. CASE ~r.ends /\ ev \cap {"rexmit", "newdata", "acked"} = {} /\ "poll" \notin ev
    <3>1. z = r  BY <2>5
    <3> HIDE DEF z
    <3> QED  BY <2>1, <2>5, <3>1 DEF Agree, Same
  <2> QED  BY <2>2, <2>3, <2>4, <2>5
<1> HIDE DEF z
<1>7. AppcallSteps(ev, words, u, z)  BY <1>1, <1>4, <1>6 DEF AppcallSteps
<1> QED  BY <1>7

(* What uIP may tell a connection of, with and without data. *)
EvAlone == {{"connected"}, {"rexmit"}, {"poll"}, {"timedout"}, {"abort"}}
EvData  == {{}, {"acked"}, {"close"}, {"acked", "close"}}
WithData(ev, n) == IF n = 0 THEN ev ELSE ev \cup {"newdata"}
MayTell(ev, n) == ev \in EvData \/ (ev \in EvAlone /\ n = 0)

LEMMA FullIs ==
  ASSUME NEW ev, NEW n, MayTell(ev, n)
  PROVE  /\ "poll" \in WithData(ev, n) => WithData(ev, n) = {"poll"}
         /\ "abort" \in WithData(ev, n) => WithData(ev, n) = {"abort"}
         /\ "connected" \in WithData(ev, n) <=> ev = {"connected"}
         /\ "acked" \in WithData(ev, n) <=> "acked" \in ev
         /\ "close" \in WithData(ev, n) <=> "close" \in ev
BY DEF MayTell, WithData, EvAlone, EvData

LEMMA AppcallOK ==
  ASSUME WebTypes, NEW ev, NEW n, MayTell(ev, n), NEW words \in Seq(STRING)
  PROVE  WorkOK(webclient_appcall(WithData(ev, n), words))
<1>1. WorkOK(WebWork)  BY WebWorkOK
<1>2. CASE "connected" \in WithData(ev, n)
  <2> DEFINE a == [WebWork EXCEPT !.wc.timer = 0]
             b == [WebWork EXCEPT !.wc.timer = 0, !.wc.state = "STATUSLINE"]
  <2>1. webclient_appcall(WithData(ev, n), words) = webclient_senddata(Tells(b, "connected"))
    BY <1>2 DEF webclient_appcall
  <2>2. WorkOK(a)  BY <1>1, TimerReset
  <2>3. b = [a EXCEPT !.wc = [a.wc EXCEPT !.state = "STATUSLINE"]]
    <3>1. b = [a EXCEPT !.wc.state = "STATUSLINE"]  OBVIOUS
    <3> HIDE DEF a, b
    <3> QED  BY <2>2, <3>1 DEF WorkOK, WebWorks
  <2> HIDE DEF a
  <2>4. PICK c : c = [a.wc EXCEPT !.state = "STATUSLINE"]  OBVIOUS
  <2>5. a.wc \in Wc /\ WcFits(a.wc)  BY <2>2 DEF WorkOK, WebWorks
  <2>6. c \in Wc /\ WcFits(c)  BY <2>4, <2>5 DEF Wc, WcFits
  <2>7. WorkOK([a EXCEPT !.wc = c])  BY <2>2, <2>6 DEF WorkOK, WebWorks
  <2>8. WorkOK(b)  BY <2>3, <2>4, <2>7
  <2> HIDE DEF b
  <2>9. WorkOK(Tells(b, "connected"))  BY <2>8, TellsOK DEF Callbacks
  <2> QED  BY <2>1, <2>9, SenddataOK
<1>3. CASE "connected" \notin WithData(ev, n) /\ wc.state = "CLOSE"
  <2>1. webclient_appcall(WithData(ev, n), words) = Aborts(Tells(WebWork, "closed"))
    BY <1>3 DEF webclient_appcall
  <2> QED  BY <1>1, <2>1, TellsOK DEF Callbacks
<1>4. CASE "connected" \notin WithData(ev, n) /\ wc.state # "CLOSE"
  <2>1. PICK u, z : AppcallSteps(WithData(ev, n), words, u, z)  BY <1>4, FullIs, AppcallIs
  <2>2. WorkOK(z)  BY <2>1 DEF AppcallSteps
  <2>3. WorkOK(closed_by_server(z))  BY <2>2, ClosedOK
  <2>4. webclient_appcall(WithData(ev, n), words) \in {z, closed_by_server(z)}  BY <2>1 DEF AppcallSteps
  <2> QED  BY <2>2, <2>3, <2>4
<1> QED  BY <1>2, <1>3, <1>4

(* What an event makes of its connection c, once the call has left w.      *)
ConnAfter(c, w, ev, n, st) ==
  IF st = "over" \/ (w.ends /\ st = "est")
  THEN [c EXCEPT !.st = "over", !.resp = <<>>, !.asked = <<>>, !.out = 0]
  ELSE [st    |-> st,
        host  |-> c.host,
        resp  |-> SubSeq(c.resp, n + 1, Len(c.resp)),
        asked |-> IF "acked" \in ev THEN Append(c.asked, c.out) ELSE c.asked,
        out   |-> CASE st # "est" \/ (~w.sends /\ "acked" \in ev) -> 0
                    [] st = "est" /\ w.sends /\
                         (c.out = 0 \/ ev \cap {"acked", "rexmit"} # {}) -> w.wc.ptr + 1
                    [] OTHER -> c.out]

LEMMA ConnAfterOK ==
  ASSUME NEW c \in TcpOf, NEW w, WorkOK(w), NEW ev, NEW n \in Nat, NEW st \in {"est", "lastack", "over"}
  PROVE  /\ ConnAfter(c, w, ev, n, st) \in TcpOf
         /\ ConnAfter(c, w, ev, n, st).host = c.host
<1>1. /\ c.host \in Hosts /\ c.resp \in Seq(STRING) /\ c.asked \in Seq(Nat) /\ c.out \in Nat
      /\ w.wc.ptr \in Nat /\ <<>> \in Seq(STRING) /\ <<>> \in Seq(Nat)
  BY DEF TcpOf, WorkOK, WebWorks, Wc
<1>2. CASE st = "over" \/ (w.ends /\ st = "est")
  <2>1. PICK e, f : e = <<>> /\ f = <<>>  OBVIOUS
  <2>2. ConnAfter(c, w, ev, n, st) = [c EXCEPT !.st = "over", !.resp = e, !.asked = f, !.out = 0]
    BY <1>2, <2>1 DEF ConnAfter
  <2>3. e \in Seq(STRING) /\ f \in Seq(Nat)  BY <1>1, <2>1
  <2>4. [c EXCEPT !.st = "over", !.resp = e, !.asked = f, !.out = 0] \in TcpOf
    BY <2>3 DEF TcpOf
  <2>5. [c EXCEPT !.st = "over", !.resp = e, !.asked = f, !.out = 0].host = c.host
    BY DEF TcpOf
  <2> QED  BY <2>2, <2>4, <2>5
<1>3. CASE ~(st = "over" \/ (w.ends /\ st = "est"))
  <2> DEFINE r == SubSeq(c.resp, n + 1, Len(c.resp))
             a == IF "acked" \in ev THEN Append(c.asked, c.out) ELSE c.asked
             o == CASE st # "est" \/ (~w.sends /\ "acked" \in ev) -> 0
                    [] st = "est" /\ w.sends /\
                         (c.out = 0 \/ ev \cap {"acked", "rexmit"} # {}) -> w.wc.ptr + 1
                    [] OTHER -> c.out
  <2>1. ConnAfter(c, w, ev, n, st) = [st |-> st, host |-> c.host, resp |-> r, asked |-> a, out |-> o]
    BY <1>3 DEF ConnAfter
  <2>2. r \in Seq(STRING)
    <3>1. Len(c.resp) \in Nat  BY <1>1
    <3>2. CASE n <= Len(c.resp)  BY <1>1, <3>1, <3>2, SubSeqProperties
    <3>3. CASE ~(n <= Len(c.resp))
      <4>1. r = <<>>  BY <3>1, <3>3
      <4> QED  BY <1>1, <4>1
    <3> QED  BY <3>2, <3>3
  <2>3. a \in Seq(Nat)  BY <1>1
  <2>4. o \in Nat  BY <1>1
  <2> HIDE DEF r, a, o
  <2> QED  BY <1>1, <2>1, <2>2, <2>3, <2>4 DEF TcpOf
<1> QED  BY <1>2, <1>3

EventLeaves(i, ev, n, st, w) ==
  /\ w = webclient_appcall(WithData(ev, n), SubSeq(tcps[i].resp, 1, n))
  /\ wc' = w.wc /\ told' = w.told /\ known' = known
  /\ got' = [got EXCEPT ![i] = got[i] \o w.data]
  /\ tcps' = [w.tcps EXCEPT ![i] = ConnAfter(w.tcps[i], w, ev, n, st)]

LEMMA EventIs ==
  ASSUME NEW i, NEW ev, NEW n, NEW st, Event(i, ev, n, st)
  PROVE  \E w : EventLeaves(i, ev, n, st, w)
BY DEF Event, WithData, ConnAfter, EventLeaves

LEMMA EventTypes ==
  ASSUME WebTypes, NEW i \in Tcps, NEW ev, NEW n \in 0..Len(tcps[i].resp), MayTell(ev, n),
         NEW st \in {"est", "lastack", "over"}, Event(i, ev, n, st), twice' \in BOOLEAN
  PROVE  WebTypes'
<1>1. PICK w : /\ w = webclient_appcall(WithData(ev, n), SubSeq(tcps[i].resp, 1, n))
               /\ wc' = w.wc /\ told' = w.told /\ known' = known
               /\ got' = [got EXCEPT ![i] = got[i] \o w.data]
               /\ tcps' = [w.tcps EXCEPT ![i] = ConnAfter(w.tcps[i], w, ev, n, st)]
  <2>1. PICK w : EventLeaves(i, ev, n, st, w)  BY EventIs
  <2> QED  BY <2>1 DEF EventLeaves
<1>2. SubSeq(tcps[i].resp, 1, n) \in Seq(STRING)
  <2>1. tcps[i].resp \in Seq(STRING)  BY DEF WebTypes, TcpOf
  <2> QED  BY <2>1, SubSeqProperties
<1>3. WorkOK(w)  BY <1>1, <1>2, AppcallOK
<1>4. w.wc \in Wc /\ WcFits(w.wc) /\ w.told \in Callbacks /\ w.data \in Seq(STRING) /\ w.tcps \in [Tcps -> TcpOf]
  BY <1>3 DEF WorkOK, WebWorks
<1>5. got' \in [Tcps -> Seq(STRING)]
  <2>1. got[i] \o w.data \in Seq(STRING)  BY <1>4 DEF WebTypes
  <2> QED  BY <1>1, <2>1 DEF WebTypes
<1>6. tcps' \in [Tcps -> TcpOf]
  <2>1. w.tcps[i] \in TcpOf /\ n \in Nat  BY <1>4
  <2>2. ConnAfter(w.tcps[i], w, ev, n, st) \in TcpOf  BY <1>3, <2>1, ConnAfterOK
  <2> QED  BY <1>1, <1>4, <2>2
<1> QED  BY <1>1, <1>4, <1>5, <1>6 DEF WebTypes

LEMMA WebTypesInit == WebInit => WebTypes
<1> SUFFICES ASSUME WebInit PROVE WebTypes  OBVIOUS
<1>1. PICK h : h = CHOOSE k \in Known : TRUE  OBVIOUS
<1>2. PICK e : e = <<>>  OBVIOUS
<1>3. h \in Hosts  BY <1>1, WebConsts
<1>4. e \in Seq(STRING) /\ Len(e) = 0 /\ e \in Seq(Nat)  BY <1>2
<1>5. wc = [state |-> "STATUSLINE", httpflag |-> "NONE", host |-> h, line |-> e, left |-> 0, ptr |-> 0, timer |-> 0]
  BY <1>1, <1>2 DEF WebInit
<1>6. wc \in Wc /\ wc.line = e /\ wc.left = 0 /\ wc.ptr = 0 /\ wc.timer = 0  BY <1>3, <1>4, <1>5 DEF Wc
<1>7. WcFits(wc)  BY <1>4, <1>6, WebConsts DEF WcFits
<1>8. tcps \in [Tcps -> TcpOf]
  <2>1. PICK k : k = CHOOSE x \in Hosts : TRUE  OBVIOUS
  <2>2. k \in Hosts  BY <2>1, WebConsts
  <2>3. Response[k] \in Seq(STRING)  BY <2>2, WebConsts
  <2>4. Conn("none", k) \in TcpOf  BY <1>2, <1>4, <2>2, <2>3 DEF TcpOf, Conn
  <2>5. tcps = [i \in Tcps |-> Conn("none", k)]  BY <2>1 DEF WebInit
  <2> QED  BY <2>4, <2>5
<1>9. got \in [Tcps -> Seq(STRING)]  BY <1>2, <1>4 DEF WebInit
<1> QED  BY <1>6, <1>7, <1>8, <1>9, WebConsts DEF WebInit, WebTypes, Callbacks

LEMMA WebTypesNext == WebTypes /\ [WebNext]_webVars => WebTypes'
<1> SUFFICES ASSUME WebTypes, [WebNext]_webVars PROVE WebTypes'  OBVIOUS
<1>1. ASSUME NEW i \in Tcps, NEW n \in SegmentOf(i) PROVE n \in 0..Len(tcps[i].resp)
  <2>1. Len(tcps[i].resp) \in Nat  BY DEF WebTypes, TcpOf
  <2> QED  BY <1>1, <2>1, WebConsts DEF SegmentOf
<1>2. ASSUME NEW i \in Tcps PROVE 0 \in 0..Len(tcps[i].resp)
  <2>1. Len(tcps[i].resp) \in Nat  BY DEF WebTypes, TcpOf
  <2> QED  BY <2>1
<1>3. twice \in BOOLEAN  BY DEF WebTypes
<1>4. \A n : MayTell({"acked"}, n) /\ MayTell({}, n) /\ MayTell({"close"}, n) /\ MayTell({"acked", "close"}, n)
  BY DEF MayTell, EvData
<1>5. \A e \in EvAlone : MayTell(e, 0)  BY DEF MayTell
<1>6. ASSUME NEW h \in Hosts, Get(h) PROVE WebTypes'
  <2>1. PICK w : /\ w = webclient_get([WebWork EXCEPT !.told = "none"], h)
                 /\ wc' = w.wc /\ tcps' = w.tcps /\ told' = w.told
    BY <1>6 DEF Get
  <2>2. PICK v : v = [WebWork EXCEPT !.told = "none"]  OBVIOUS
  <2>3. WorkOK(v)
    <3>1. WorkOK(WebWork)  BY WebWorkOK
    <3>2. v = Tells(WebWork, "none")  BY <2>2 DEF Tells
    <3> QED  BY <3>1, <3>2, TellsOK DEF Callbacks
  <2>4. WorkOK(w)  BY <2>1, <2>2, <2>3, GetOK
  <2>5. <<>> \in Seq(STRING)  OBVIOUS
  <2>6. got' \in [Tcps -> Seq(STRING)]
    <3>1. PICK e : e = <<>>  OBVIOUS
    <3>2. got' = [i \in Tcps |-> e] /\ e \in Seq(STRING)  BY <1>6, <2>5, <3>1 DEF Get
    <3> QED  BY <3>2
  <2>7. known' = known /\ twice' = twice  BY <1>6 DEF Get
  <2> QED  BY <2>1, <2>4, <2>6, <2>7 DEF WebTypes, WorkOK, WebWorks
<1>7. ASSUME NEW h \in Hosts, Resolved(h) PROVE WebTypes'
  BY <1>7 DEF Resolved, WebTypes
<1>8. CASE webclient_close
  <2>1. wc' \in Wc /\ WcFits(wc')  BY <1>8 DEF webclient_close, WebTypes, Wc, WcFits
  <2> QED  BY <1>8, <2>1 DEF webclient_close, WebTypes
<1>9. ASSUME NEW i \in Tcps, SynAcked(i) PROVE WebTypes'
  <2>1. MayTell({"connected"}, 0)  BY <1>5 DEF EvAlone
  <2> QED  BY <1>2, <1>3, <1>9, <2>1, EventTypes DEF SynAcked
<1>10. ASSUME NEW i \in Tcps, RequestAcked(i) PROVE WebTypes'
  BY <1>1, <1>3, <1>4, <1>10, EventTypes DEF RequestAcked
<1>11. ASSUME NEW i \in Tcps, ResponseComes(i) PROVE WebTypes'
  BY <1>1, <1>3, <1>4, <1>11, EventTypes DEF ResponseComes
<1>12. ASSUME NEW i \in Tcps, Rexmit(i) PROVE WebTypes'
  <2>1. MayTell({"rexmit"}, 0)  BY <1>5 DEF EvAlone
  <2> QED  BY <1>2, <1>3, <1>12, <2>1, EventTypes DEF Rexmit
<1>13. ASSUME NEW i \in Tcps, Poll(i) PROVE WebTypes'
  <2>1. MayTell({"poll"}, 0)  BY <1>5 DEF EvAlone
  <2> QED  BY <1>2, <1>3, <1>13, <2>1, EventTypes DEF Poll
<1>14. ASSUME NEW i \in Tcps, FinComes(i) PROVE WebTypes'
  BY <1>1, <1>3, <1>4, <1>14, EventTypes DEF FinComes
<1>15. ASSUME NEW i \in Tcps, LastAcked(i) PROVE WebTypes'
  BY <1>2, <1>3, <1>4, <1>15, EventTypes DEF LastAcked
<1>16. ASSUME NEW i \in Tcps, TimesOut(i) PROVE WebTypes'
  <2>1. MayTell({"timedout"}, 0)  BY <1>5 DEF EvAlone
  <2> QED  BY <1>2, <1>3, <1>16, <2>1, EventTypes DEF TimesOut
<1>17. ASSUME NEW i \in Tcps, Reset(i) PROVE WebTypes'
  <2>1. MayTell({"abort"}, 0)  BY <1>5 DEF EvAlone
  <2> QED  BY <1>2, <1>3, <1>17, <2>1, EventTypes DEF Reset
<1>18. CASE UNCHANGED webVars  BY <1>18 DEF webVars, WebTypes
<1> QED
  BY <1>6, <1>7, <1>8, <1>9, <1>10, <1>11, <1>12, <1>13, <1>14, <1>15, <1>16, <1>17, <1>18 DEF WebNext

LEMMA TypesGiveWebTypeOK == WebTypes => WebTypeOK
BY DEF WebTypes, Wc, WcFits, Callbacks, WebTypeOK

(* The types: the line never outgrows its buffer, whatever a server sends. *)
THEOREM WebTypesHold == WebSpec => []WebTypeOK
<1>1. WebSpec => []WebTypes
  BY WebTypesInit, WebTypesNext, PTL DEF WebSpec
<1> QED  BY <1>1, TypesGiveWebTypeOK, PTL

-----------------------------------------------------------------------------
(* At most one connection is being opened or open, and struct              *)
(* webclient_state is the state of that one: what it has of the request    *)
(* and of the response is what the connection has.                         *)
Live(c) == c.st \in {"syn", "est"}

OneAtATime == \A i, j \in Tcps : Live(tcps[i]) /\ Live(tcps[j]) => i = j

Rest(resp, p) == SubSeq(resp, p + 1, Len(resp))

ConnFits(c, g, w) ==
  /\ \A k \in 1..Len(c.asked) : c.asked[k] = k
  /\ BodyBegins(Response[c.host], g)
  /\ c.st = "none" => g = <<>>
  /\ c.st = "syn" => /\ g = <<>> /\ c.resp = Response[c.host] /\ c.asked = <<>> /\ c.out = 0
                     /\ w.line = <<>> /\ w.left = WebRequest /\ w.ptr = 0
  /\ c.st = "est" =>
       /\ w.ptr = Len(c.asked) /\ c.out \in {0, w.ptr + 1} /\ (c.out > 0 => w.left > 0)
       /\ w.state # "CLOSE" =>
            \E p \in 0..Len(Response[c.host]) :
              c.resp = Rest(Response[c.host], p) /\ ReadTo(w, Response[c.host], p, g)

WebStream == OneAtATime /\ \A i \in Tcps : ConnFits(tcps[i], got[i], wc)
WebInv    == WebTypes /\ (~twice => WebStream)

LEMMA NotLiveFits ==
  ASSUME NEW c, ~Live(c), NEW g, NEW w, NEW v, ConnFits(c, g, w)
  PROVE  ConnFits(c, g, v)
BY DEF Live, ConnFits

LEMMA SameFits ==
  ASSUME NEW c, NEW g, NEW w, NEW v, Same(v, w), v.left = w.left, v.ptr = w.ptr, ConnFits(c, g, w)
  PROVE  ConnFits(c, g, v)
<1>1. \A resp, p : ReadTo(v, resp, p, g) <=> ReadTo(w, resp, p, g)  BY SameReads
<1> QED  BY <1>1 DEF Same, ConnFits

(* The whole request is still to be sent. *)
LEMMA FreshFits ==
  ASSUME NEW host \in Hosts, NEW w, w.line = <<>>, w.left = WebRequest, w.ptr = 0
  PROVE  ConnFits(Conn("syn", host), <<>>, w)
<1>1. /\ Conn("syn", host).st = "syn" /\ Conn("syn", host).host = host
      /\ Conn("syn", host).resp = Response[host] /\ Conn("syn", host).out = 0 /\ Conn("syn", host).asked = <<>>
  BY DEF Conn
<1>2. 1..Len(<<>>) = {}  OBVIOUS
<1> QED  BY <1>1, <1>2 DEF ConnFits, BodyBegins

LEMMA OverFits ==
  ASSUME NEW c, NEW g, NEW w, BodyBegins(Response[c.host], g), NEW d, d.host = c.host, d.st = "over", d.asked = <<>>
  PROVE  ConnFits(d, g, w)
<1>1. 1..Len(<<>>) = {}  OBVIOUS
<1> QED  BY <1>1 DEF ConnFits

LEMMA NewdataNone == ASSUME NEW w PROVE webclient_newdata(w, <<>>) = w
<1>1. Len(<<>>) = 0 /\ Len(<<>>) \in Nat  OBVIOUS
<1>2. PICK run : ReadRun(run, w, <<>>)  BY <1>1, NewdataRun
<1> QED  BY <1>1, <1>2 DEF ReadRun

(* A segment of the response is the words that follow those that came. *)
Segment(words, resp, p, rest, n) ==
  /\ p + n \in 0..Len(resp) /\ words \in Seq(STRING) /\ Len(words) = n
  /\ \A k \in 1..n : words[k] = resp[p + k]
  /\ SubSeq(rest, n + 1, Len(rest)) = Rest(resp, p + n)

LEMMA SegmentOfRest ==
  ASSUME NEW resp \in Seq(STRING), NEW p \in 0..Len(resp), NEW rest, rest = Rest(resp, p), NEW n \in 0..Len(rest)
  PROVE  Segment(SubSeq(rest, 1, n), resp, p, rest, n)
<1>1. Len(resp) \in Nat /\ p \in Nat /\ n \in Nat  BY SubSeqProperties
<1>2. /\ rest \in Seq(STRING) /\ Len(rest) = Len(resp) - p
      /\ \A k \in 1..Len(resp) - p : rest[k] = resp[p + k]
  BY <1>1, SubSeqProperties DEF Rest
<1>3. p + n \in 0..Len(resp)  BY <1>1, <1>2
<1>4. /\ SubSeq(rest, 1, n) \in Seq(STRING) /\ Len(SubSeq(rest, 1, n)) = n
      /\ \A k \in 1..n : SubSeq(rest, 1, n)[k] = rest[k]
  BY <1>1, <1>2, SubSeqProperties
<1>5. \A k \in 1..n : rest[k] = resp[p + k]
  <2>1. 1..n \subseteq 1..Len(resp) - p  BY <1>1, <1>2
  <2> QED  BY <1>2, <2>1
<1>6. SubSeq(rest, n + 1, Len(rest)) = Rest(resp, p + n)
  <2>1. PICK a : a = SubSeq(rest, n + 1, Len(rest))  OBVIOUS
  <2>2. PICK b : b = Rest(resp, p + n)  OBVIOUS
  <2>3. a \in Seq(STRING) /\ Len(a) = Len(resp) - p - n /\ \A k \in 1..Len(resp) - p - n : a[k] = rest[n + k]
    BY <1>1, <1>2, <2>1, SubSeqProperties
  <2>4. /\ b \in Seq(STRING) /\ Len(b) = Len(resp) - p - n
        /\ \A k \in 1..Len(resp) - p - n : b[k] = resp[(p + n) + k]
    <3>1. PICK q \in 0..Len(resp) : q = p + n  BY <1>3
    <3>2. /\ b \in Seq(STRING) /\ Len(b) = Len(resp) - q
          /\ \A k \in 1..Len(resp) - q : b[k] = resp[q + k]
      <4>1. b = SubSeq(resp, q + 1, Len(resp))  BY <2>2, <3>1 DEF Rest
      <4>2. q + 1 \in 1..Len(resp) + 1 /\ Len(resp) \in Nat /\ Len(resp) - (q + 1) + 1 = Len(resp) - q
        BY <1>1, <3>1
      <4>3. \A i \in q + 1..Len(resp) : resp[i] \in STRING  BY <1>1, <3>1
      <4>4. /\ SubSeq(resp, q + 1, Len(resp)) \in Seq(STRING)
            /\ Len(SubSeq(resp, q + 1, Len(resp))) = IF q + 1 <= Len(resp) THEN Len(resp) - (q + 1) + 1 ELSE 0
            /\ \A i \in 1..Len(resp) - (q + 1) + 1 :
                 SubSeq(resp, q + 1, Len(resp))[i] = resp[(q + 1) + i - 1]
        BY <4>2, <4>3, SubSeqProperties
      <4>5. Len(b) = Len(resp) - q
        <5>1. Len(b) = IF q + 1 <= Len(resp) THEN Len(resp) - (q + 1) + 1 ELSE 0  BY <4>1, <4>4
        <5>2. PICK L \in Nat : L = Len(resp)  BY <4>2
        <5> QED  BY <3>1, <5>1, <5>2
      <4>6. ASSUME NEW k \in 1..Len(resp) - q PROVE b[k] = resp[q + k]
        <5>1. k \in 1..Len(resp) - (q + 1) + 1 /\ (q + 1) + k - 1 = q + k  BY <3>1, <4>2, <4>6
        <5> QED  BY <4>1, <4>4, <5>1
      <4> QED  BY <4>1, <4>4, <4>5, <4>6
    <3>3. Len(resp) - q = Len(resp) - p - n  BY <1>1, <3>1
    <3> QED  BY <3>1, <3>2, <3>3
  <2>5. \A k \in 1..Len(resp) - p - n : a[k] = b[k]
    <3> SUFFICES ASSUME NEW k \in 1..Len(resp) - p - n PROVE a[k] = b[k]  OBVIOUS
    <3>1. n + k \in 1..Len(resp) - p /\ p + (n + k) = (p + n) + k  BY <1>1, <1>3
    <3>2. rest[n + k] = resp[p + (n + k)]  BY <1>2, <3>1
    <3> QED  BY <2>3, <2>4, <3>1, <3>2
  <2>6. a = b  BY <2>3, <2>4, <2>5, SeqEqual
  <2> QED  BY <2>1, <2>2, <2>6
<1>7. \A k \in 1..n : SubSeq(rest, 1, n)[k] = resp[p + k]  BY <1>4, <1>5
<1> QED  BY <1>3, <1>4, <1>6, <1>7 DEF Segment

LEMMA ConnAfterOver ==
  ASSUME NEW c \in TcpOf, NEW w, NEW ev, NEW n, NEW st, st = "over" \/ (w.ends /\ st = "est")
  PROVE  /\ ConnAfter(c, w, ev, n, st).st = "over" /\ ConnAfter(c, w, ev, n, st).asked = <<>>
         /\ ConnAfter(c, w, ev, n, st).host = c.host
<1>1. PICK e : e = <<>>  OBVIOUS
<1>2. ConnAfter(c, w, ev, n, st) = [c EXCEPT !.st = "over", !.resp = e, !.asked = e, !.out = 0]
  BY <1>1 DEF ConnAfter
<1> QED  BY <1>1, <1>2 DEF TcpOf

GoesOn(d, c, w, ev, n, st) ==
  /\ d.st = st /\ d.host = c.host /\ d.resp = SubSeq(c.resp, n + 1, Len(c.resp))
  /\ "acked" \in ev => d.asked = Append(c.asked, c.out)
  /\ "acked" \notin ev => d.asked = c.asked
  /\ st = "est" /\ w.sends /\ ev \cap {"acked", "rexmit"} # {} => d.out = w.wc.ptr + 1
  /\ st = "est" /\ w.sends /\ c.out = 0 => d.out = w.wc.ptr + 1
  /\ st = "est" /\ ~w.sends /\ "acked" \in ev => d.out = 0
  /\ st = "est" /\ ~w.sends /\ "acked" \notin ev => d.out = c.out
  /\ st = "est" /\ c.out # 0 /\ ev \cap {"acked", "rexmit"} = {} => d.out = c.out

LEMMA ConnAfterGoes ==
  ASSUME NEW c, NEW w, NEW ev, NEW n, NEW st, ~(st = "over" \/ (w.ends /\ st = "est"))
  PROVE  GoesOn(ConnAfter(c, w, ev, n, st), c, w, ev, n, st)
<1> DEFINE r == SubSeq(c.resp, n + 1, Len(c.resp))
           a == IF "acked" \in ev THEN Append(c.asked, c.out) ELSE c.asked
           o == CASE st # "est" \/ (~w.sends /\ "acked" \in ev) -> 0
                  [] st = "est" /\ w.sends /\
                       (c.out = 0 \/ ev \cap {"acked", "rexmit"} # {}) -> w.wc.ptr + 1
                  [] OTHER -> c.out
<1>5. PICK d : d = ConnAfter(c, w, ev, n, st)  OBVIOUS
<1>1. d = [st |-> st, host |-> c.host, resp |-> r, asked |-> a, out |-> o]  BY <1>5 DEF ConnAfter
<1>2. d.st = st /\ d.host = c.host /\ d.resp = r /\ d.asked = a /\ d.out = o
  <2> HIDE DEF r, a, o
  <2> QED  BY <1>1
<1> HIDE DEF r
<1>3. /\ "acked" \in ev => d.asked = Append(c.asked, c.out)
      /\ "acked" \notin ev => d.asked = c.asked
  BY <1>2
<1>4. /\ st = "est" /\ w.sends /\ ev \cap {"acked", "rexmit"} # {} => o = w.wc.ptr + 1
      /\ st = "est" /\ w.sends /\ c.out = 0 => o = w.wc.ptr + 1
      /\ st = "est" /\ ~w.sends /\ "acked" \in ev => o = 0
      /\ st = "est" /\ ~w.sends /\ "acked" \notin ev => o = c.out
      /\ st = "est" /\ c.out # 0 /\ ev \cap {"acked", "rexmit"} = {} => o = c.out
  OBVIOUS
<1> HIDE DEF o, a
<1>6. GoesOn(d, c, w, ev, n, st)  BY <1>2, <1>3, <1>4 DEF r, GoesOn
<1> QED  BY <1>5, <1>6

(* The parts of the request that came stay in order when one more is acknowledged. *)
LEMMA AskedGrows ==
  ASSUME NEW c \in TcpOf, NEW g, NEW w, ConnFits(c, g, w), c.st = "est", c.out > 0, NEW a, a = Append(c.asked, c.out)
  PROVE  Len(a) = Len(c.asked) + 1 /\ \A k \in 1..Len(a) : a[k] = k
<1>1. c.asked \in Seq(Nat) /\ c.out \in Nat /\ Len(c.asked) \in Nat  BY DEF TcpOf
<1>2. /\ \A k \in 1..Len(c.asked) : c.asked[k] = k
      /\ w.ptr = Len(c.asked) /\ c.out \in {0, w.ptr + 1}
  BY DEF ConnFits
<1>3. c.out = Len(c.asked) + 1  BY <1>1, <1>2
<1>4. /\ Len(a) = Len(c.asked) + 1 /\ a[Len(c.asked) + 1] = c.out
      /\ \A k \in 1..Len(c.asked) : a[k] = c.asked[k]
  BY <1>1, AppendProperties
<1> QED  BY <1>1, <1>2, <1>3, <1>4

(* A connection whose end has come, whatever the state of the client is now. *)
LEMMA LastAckFits ==
  ASSUME NEW c \in TcpOf, NEW g, NEW w, ConnFits(c, g, w), c.st = "est", NEW ev, "acked" \in ev => c.out > 0,
         NEW n, NEW v, NEW h, BodyBegins(Response[c.host], h), NEW x
  PROVE  ConnFits(ConnAfter(c, v, ev, n, "lastack"), h, x)
<1>1. PICK d : d = ConnAfter(c, v, ev, n, "lastack")  OBVIOUS
<1>2. /\ d.st = "lastack" /\ d.host = c.host
      /\ "acked" \in ev => d.asked = Append(c.asked, c.out)
      /\ "acked" \notin ev => d.asked = c.asked
  <2>1. GoesOn(d, c, v, ev, n, "lastack")  BY <1>1, ConnAfterGoes
  <2> QED  BY <2>1 DEF GoesOn
<1>3. \A k \in 1..Len(d.asked) : d.asked[k] = k
  <2>1. CASE "acked" \in ev  BY <1>2, <2>1, AskedGrows
  <2>2. CASE "acked" \notin ev  BY <1>2, <2>2 DEF ConnFits
  <2> QED  BY <2>1, <2>2
<1> QED  BY <1>1, <1>2, <1>3 DEF ConnFits

(* What a call does with a segment of an open connection. *)
LEMMA StepReads ==
  ASSUME WebTypes, wc.state # "CLOSE", NEW i \in Tcps, tcps[i].st = "est", ConnFits(tcps[i], got[i], wc),
         NEW n \in 0..Len(tcps[i].resp), NEW e, NEW u, NEW z, AppcallSteps(e, SubSeq(tcps[i].resp, 1, n), u, z)
  PROVE  /\ BodyBegins(Response[tcps[i].host], got[i] \o z.data) /\ z.wc.state # "CLOSE"
         /\ ~z.ends => \E p \in 0..Len(Response[tcps[i].host]) :
                         /\ SubSeq(tcps[i].resp, n + 1, Len(tcps[i].resp)) = Rest(Response[tcps[i].host], p)
                         /\ ReadTo(z.wc, Response[tcps[i].host], p, got[i] \o z.data)
<1>1. PICK resp : resp = Response[tcps[i].host]  OBVIOUS
<1>2. PICK words : words = SubSeq(tcps[i].resp, 1, n)  OBVIOUS
<1>3. resp \in Seq(STRING) /\ got[i] \in Seq(STRING)
  <2>1. tcps[i].host \in Hosts  BY DEF WebTypes, TcpOf
  <2> QED  BY <1>1, <2>1, WebConsts DEF WebTypes
<1>4. PICK p \in 0..Len(resp) : tcps[i].resp = Rest(resp, p) /\ ReadTo(wc, resp, p, got[i])
  <2>1. \E p \in 0..Len(Response[tcps[i].host]) :
          tcps[i].resp = Rest(Response[tcps[i].host], p) /\ ReadTo(wc, Response[tcps[i].host], p, got[i])
    BY DEF ConnFits
  <2> QED  BY <1>1, <2>1
<1>5. /\ p + n \in 0..Len(resp) /\ words \in Seq(STRING) /\ Len(words) = n
      /\ \A k \in 1..n : words[k] = resp[p + k]
      /\ SubSeq(tcps[i].resp, n + 1, Len(tcps[i].resp)) = Rest(resp, p + n)
  <2>1. PICK rest : rest = tcps[i].resp  OBVIOUS
  <2>2. n \in 0..Len(rest) /\ words = SubSeq(rest, 1, n) /\ rest = Rest(resp, p)  BY <1>2, <1>4, <2>1
  <2>3. resp \in Seq(STRING) /\ p \in 0..Len(resp)  BY <1>3, <1>4
  <2>4. Segment(words, resp, p, rest, n)  BY <2>2, <2>3, SegmentOfRest
  <2> QED  BY <2>1, <2>4 DEF Segment
<1>6. PICK r : r = webclient_newdata(u, words)  OBVIOUS
<1>7. /\ WorkOK(u) /\ Same(u.wc, wc) /\ u.data = <<>> /\ ~u.ends
      /\ WorkOK(z) /\ Agree(z, r) /\ (r.ends => z.ends)
  BY <1>2, <1>6 DEF AppcallSteps
<1>8. u.wc.state # "CLOSE" /\ got[i] \o u.data = got[i]  BY <1>3, <1>7 DEF Same
<1>9. ReadTo(u.wc, resp, p, got[i] \o u.data)  BY <1>4, <1>7, <1>8, SameReads
<1>10. BodyBegins(resp, got[i] \o u.data)  BY <1>1, <1>8 DEF ConnFits
<1>11. /\ ~r.ends => ReadTo(r.wc, resp, p + n, got[i] \o r.data)
       /\ BodyBegins(resp, got[i] \o r.data)
  <2>1. p \in Nat /\ p + Len(words) <= Len(resp)  BY <1>3, <1>5
  <2> QED  BY <1>3, <1>5, <1>6, <1>7, <1>8, <1>9, <1>10, <2>1, NewdataReads
<1>12. Leaves(r, u)  BY <1>5, <1>6, <1>7, <1>8, NewdataLeaves
<1>13. z.data = r.data /\ Same(z.wc, r.wc) /\ z.wc.state # "CLOSE"  BY <1>7, <1>12 DEF Agree, Same, Leaves
<1>14. ~z.ends => ReadTo(z.wc, resp, p + n, got[i] \o z.data)  BY <1>7, <1>11, <1>13, SameReads
<1>15. ~z.ends => \E q \in 0..Len(resp) :
                   /\ SubSeq(tcps[i].resp, n + 1, Len(tcps[i].resp)) = Rest(resp, q)
                   /\ ReadTo(z.wc, resp, q, got[i] \o z.data)
  BY <1>5, <1>14
<1> QED  BY <1>1, <1>11, <1>13, <1>15

(* An open connection after an event, if no other connection was opened.   *)
LEMMA EstFits ==
  ASSUME WebTypes, NEW i \in Tcps, tcps[i].st = "est", ConnFits(tcps[i], got[i], wc),
         NEW n \in 0..Len(tcps[i].resp), NEW ev, MayTell(ev, n), ev # {"connected"},
         "acked" \in ev => tcps[i].out > 0,
         NEW st \in {"est", "lastack", "over"}, NEW w,
         \/ wc.state = "CLOSE" /\ w = Aborts(Tells(WebWork, "closed"))
         \/ wc.state # "CLOSE" /\ \E u : AppcallSteps(WithData(ev, n), SubSeq(tcps[i].resp, 1, n), u, w)
  PROVE  ConnFits(ConnAfter(tcps[i], w, ev, n, st), got[i] \o w.data, w.wc)
<1>1. PICK c \in TcpOf : c = tcps[i]  BY DEF WebTypes
<1>2. PICK d : d = ConnAfter(c, w, ev, n, st)  OBVIOUS
<1>3. PICK g \in Seq(STRING) : g = got[i]  BY DEF WebTypes
<1>4. BodyBegins(Response[c.host], g \o w.data)
  <2>1. CASE wc.state = "CLOSE"
    <3>1. w.data = <<>>  BY <2>1, WebWorkOK DEF Aborts, Tells, WorkOK, WebWorks
    <3>2. g \o w.data = g  BY <3>1
    <3> QED  BY <1>1, <1>3, <3>2 DEF ConnFits
  <2>2. CASE wc.state # "CLOSE"
    <3>1. PICK u : AppcallSteps(WithData(ev, n), SubSeq(tcps[i].resp, 1, n), u, w)  BY <2>2
    <3> QED  BY <1>1, <1>3, <2>2, <3>1, StepReads
  <2> QED  BY <2>1, <2>2
<1>5. CASE st = "over" \/ (w.ends /\ st = "est")
  <2>1. d.st = "over" /\ d.asked = <<>> /\ d.host = c.host  BY <1>2, <1>5, ConnAfterOver
  <2> QED  BY <1>1, <1>2, <1>3, <1>4, <2>1, OverFits
<1>6. CASE st = "lastack"
  BY <1>1, <1>2, <1>3, <1>4, <1>6, LastAckFits
<1>7. CASE st = "est" /\ ~w.ends
  <2>1. wc.state # "CLOSE"
    <3>1. Aborts(Tells(WebWork, "closed")).ends  BY WebWorkOK DEF Aborts, Tells, WorkOK, WebWorks
    <3> QED  BY <1>7, <3>1
  <2>2. PICK u : AppcallSteps(WithData(ev, n), SubSeq(tcps[i].resp, 1, n), u, w)  BY <2>1
  <2>3. "acked" \in WithData(ev, n) <=> "acked" \in ev  BY FullIs
  <2>4. /\ "acked" \in ev /\ wc.left > 0 => w.wc.left = wc.left - 1 /\ w.wc.ptr = wc.ptr + 1
        /\ "acked" \notin ev => w.wc.left = wc.left /\ w.wc.ptr = wc.ptr
        /\ w.sends => w.wc.left > 0
    BY <2>2, <2>3 DEF AppcallSteps
  <2>5. /\ \A k \in 1..Len(c.asked) : c.asked[k] = k
        /\ wc.ptr = Len(c.asked) /\ c.out \in {0, wc.ptr + 1} /\ (c.out > 0 => wc.left > 0)
    BY <1>1 DEF ConnFits
  <2>6. wc.ptr \in Nat /\ wc.left \in Nat /\ c.out \in Nat  BY DEF WebTypes, Wc, TcpOf
  <2>7. /\ d.st = "est" /\ d.host = c.host /\ d.resp = SubSeq(c.resp, n + 1, Len(c.resp))
        /\ "acked" \in ev => d.asked = Append(c.asked, c.out)
        /\ "acked" \notin ev => d.asked = c.asked
        /\ w.sends /\ ev \cap {"acked", "rexmit"} # {} => d.out = w.wc.ptr + 1
        /\ w.sends /\ c.out = 0 => d.out = w.wc.ptr + 1
        /\ ~w.sends /\ "acked" \in ev => d.out = 0
        /\ ~w.sends /\ "acked" \notin ev => d.out = c.out
        /\ c.out # 0 /\ ev \cap {"acked", "rexmit"} = {} => d.out = c.out
    <3>1. ~(st = "over" \/ (w.ends /\ st = "est"))  BY <1>7
    <3>2. GoesOn(d, c, w, ev, n, st)  BY <1>2, <3>1, ConnAfterGoes
    <3> QED  BY <1>7, <3>2 DEF GoesOn
  <2>8. /\ \A k \in 1..Len(d.asked) : d.asked[k] = k
        /\ w.wc.ptr = Len(d.asked)
    <3>1. CASE "acked" \in ev
      <4>1. c.out > 0 /\ wc.left > 0  BY <1>1, <2>5, <3>1
      <4>2. w.wc.ptr = wc.ptr + 1  BY <2>4, <3>1, <4>1
      <4>3. Len(d.asked) = Len(c.asked) + 1 /\ \A k \in 1..Len(d.asked) : d.asked[k] = k
        BY <1>1, <2>7, <3>1, <4>1, AskedGrows
      <4> QED  BY <2>5, <4>2, <4>3
    <3>2. CASE "acked" \notin ev  BY <2>4, <2>5, <2>7, <3>2
    <3> QED  BY <3>1, <3>2
  <2>9. d.out \in {0, w.wc.ptr + 1} /\ (d.out > 0 => w.wc.left > 0)
    <3>1. CASE "acked" \in ev
      <4>1. ev \cap {"acked", "rexmit"} # {}  BY <3>1
      <4> QED  BY <2>4, <2>7, <3>1, <4>1
    <3>2. CASE "acked" \notin ev
      <4>1. w.wc.left = wc.left /\ w.wc.ptr = wc.ptr  BY <2>4, <3>2
      <4>2. d.out = c.out \/ (w.sends /\ d.out = w.wc.ptr + 1)
        BY <2>7, <3>2
      <4> QED  BY <2>4, <2>5, <4>1, <4>2
    <3> QED  BY <3>1, <3>2
  <2>10. \E p \in 0..Len(Response[d.host]) :
           d.resp = Rest(Response[d.host], p) /\ ReadTo(w.wc, Response[d.host], p, g \o w.data)
    <3>1. \E p \in 0..Len(Response[tcps[i].host]) :
            /\ SubSeq(tcps[i].resp, n + 1, Len(tcps[i].resp)) = Rest(Response[tcps[i].host], p)
            /\ ReadTo(w.wc, Response[tcps[i].host], p, got[i] \o w.data)
      BY <1>1, <1>7, <2>1, <2>2, StepReads
    <3> QED  BY <1>1, <1>3, <2>7, <3>1
  <2>11. ConnFits(d, g \o w.data, w.wc)  BY <1>4, <2>7, <2>8, <2>9, <2>10 DEF ConnFits
  <2> QED  BY <1>1, <1>2, <1>3, <2>11
<1> QED  BY <1>5, <1>6, <1>7

(* A call leaves what its steps leave, unless it opens the next connection *)
(* because the server has closed this one.                                 *)
CallSteps(ev, words, z) ==
  \/ wc.state = "CLOSE" /\ z = Aborts(Tells(WebWork, "closed"))
  \/ wc.state # "CLOSE" /\ \E u : AppcallSteps(ev, words, u, z)

Stays(v, z) == v.wc = z.wc /\ v.tcps = z.tcps /\ v.data = z.data

Opens(v, z, j, host) ==
  /\ z.tcps[j].st = "none" /\ v.data = z.data /\ v.tcps = [z.tcps EXCEPT ![j] = Conn("syn", host)]
  /\ v.wc.line = <<>> /\ v.wc.left = WebRequest /\ v.wc.ptr = 0

LEMMA GetOpens ==
  ASSUME NEW w, WorkOK(w), NEW host \in Hosts, NEW v, v = webclient_get(w, host)
  PROVE  v = w \/ \E j \in Tcps : Opens(v, w, j, host)
<1> SUFFICES ASSUME v # w PROVE \E j \in Tcps : Opens(v, w, j, host)  OBVIOUS
<1>1. PICK j \in Tcps :
        /\ w.tcps[j].st = "none"
        /\ v = [w EXCEPT !.wc = init_connection([@ EXCEPT !.host = host]),
                         !.tcps = [@ EXCEPT ![j] = Conn("syn", host)]]
  BY GetOK
<1>2. PICK c : c = init_connection([w.wc EXCEPT !.host = host])  OBVIOUS
<1>3. PICK t : t = [w.tcps EXCEPT ![j] = Conn("syn", host)]  OBVIOUS
<1>4. v = [w EXCEPT !.wc = c, !.tcps = t]  BY <1>1, <1>2, <1>3 DEF WorkOK, WebWorks
<1>5. v.wc = c /\ v.tcps = t /\ v.data = w.data  BY <1>4 DEF WorkOK, WebWorks
<1>6. w.wc \in Wc /\ WcFits(w.wc)  BY DEF WorkOK, WebWorks
<1>7. c.line = <<>> /\ c.left = WebRequest /\ c.ptr = 0  BY <1>2, <1>6, InitConnection
<1> QED  BY <1>1, <1>3, <1>5, <1>7 DEF Opens

CallLeaves(ev, n, words, v, z) ==
  /\ CallSteps(WithData(ev, n), words, z) /\ z.tcps = tcps /\ WorkOK(z)
  /\ \/ v = z
     \/ "close" \in ev /\ Stays(v, z)
     \/ "close" \in ev /\ \E j \in Tcps, h \in Hosts : Opens(v, z, j, h)

LEMMA CallIs ==
  ASSUME WebTypes, NEW ev, NEW n, MayTell(ev, n), ev # {"connected"}, NEW words \in Seq(STRING),
         NEW v, v = webclient_appcall(WithData(ev, n), words)
  PROVE  \E z : CallLeaves(ev, n, words, v, z)
<1>1. "connected" \notin WithData(ev, n)  BY FullIs
<1>2. CASE wc.state = "CLOSE"
  <2>1. v = Aborts(Tells(WebWork, "closed"))  BY <1>1, <1>2 DEF webclient_appcall
  <2>2. WorkOK(v)  BY <2>1, WebWorkOK, TellsOK DEF Callbacks
  <2>3. v.tcps = tcps  BY <2>1, WebWorkOK DEF Aborts, Tells, WorkOK, WebWorks
  <2> QED  BY <1>2, <2>1, <2>2, <2>3 DEF CallSteps, CallLeaves
<1>3. CASE wc.state # "CLOSE"
  <2>1. PICK u, z : AppcallSteps(WithData(ev, n), words, u, z)  BY <1>1, <1>3, FullIs, AppcallIs
  <2>2. CallSteps(WithData(ev, n), words, z) /\ z.tcps = tcps /\ WorkOK(z)
    BY <1>3, <2>1 DEF CallSteps, AppcallSteps
  <2>3. v = IF "close" \in WithData(ev, n) /\ ~z.ends THEN closed_by_server(z) ELSE z  BY <2>1 DEF AppcallSteps
  <2>4. "close" \in WithData(ev, n) <=> "close" \in ev  BY FullIs
  <2>5. CASE v = z  BY <2>2, <2>5 DEF CallLeaves
  <2>6. CASE v # z
    <3>1. "close" \in ev /\ v = closed_by_server(z)  BY <2>3, <2>4, <2>6
    <3>2. z.wc.host \in Hosts  BY <2>2 DEF WorkOK, WebWorks, Wc
    <3>3. CASE v = Tells(z, "eof")
      <4>1. Stays(v, z)  BY <2>2, <3>3 DEF Tells, WorkOK, WebWorks, Stays
      <4> QED  BY <2>2, <3>1, <4>1 DEF CallLeaves
    <3>4. CASE v = webclient_get(z, z.wc.host)
      <4>1. PICK j \in Tcps : Opens(v, z, j, z.wc.host)  BY <2>2, <2>6, <3>2, <3>4, GetOpens
      <4> QED  BY <2>2, <3>1, <3>2, <4>1 DEF CallLeaves
    <3> QED  BY <3>1, <3>3, <3>4 DEF closed_by_server
  <2> QED  BY <2>5, <2>6
<1> QED  BY <1>2, <1>3

(* An event of the open connection. *)
LEMMA EstStep ==
  ASSUME WebTypes, WebStream, NEW i \in Tcps, tcps[i].st = "est", NEW n \in 0..Len(tcps[i].resp),
         NEW ev, MayTell(ev, n), ev # {"connected"}, "acked" \in ev => tcps[i].out > 0,
         NEW st \in {"est", "lastack", "over"}, "close" \in ev => st = "lastack", Event(i, ev, n, st)
  PROVE  WebStream'
<1>1. PICK w : EventLeaves(i, ev, n, st, w)  BY EventIs
<1>2. PICK words : words = SubSeq(tcps[i].resp, 1, n)  OBVIOUS
<1>3. words \in Seq(STRING)
  <2>1. tcps[i].resp \in Seq(STRING)  BY DEF WebTypes, TcpOf
  <2> QED  BY <1>2, <2>1, SubSeqProperties
<1>4. /\ w = webclient_appcall(WithData(ev, n), words) /\ wc' = w.wc
      /\ got' = [got EXCEPT ![i] = got[i] \o w.data]
      /\ tcps' = [w.tcps EXCEPT ![i] = ConnAfter(w.tcps[i], w, ev, n, st)]
  BY <1>1, <1>2 DEF EventLeaves
<1>5. PICK z : /\ CallSteps(WithData(ev, n), words, z) /\ z.tcps = tcps /\ WorkOK(z)
               /\ \/ w = z
                  \/ "close" \in ev /\ Stays(w, z)
                  \/ "close" \in ev /\ \E j \in Tcps, h \in Hosts : Opens(w, z, j, h)
  <2>1. PICK z : CallLeaves(ev, n, words, w, z)  BY <1>3, <1>4, CallIs
  <2> QED  BY <2>1 DEF CallLeaves
<1>6. ConnFits(tcps[i], got[i], wc) /\ \A j \in Tcps \ {i} : ~Live(tcps[j]) /\ ConnFits(tcps[j], got[j], wc)
  BY DEF WebStream, OneAtATime, Live
<1>7. tcps \in [Tcps -> TcpOf] /\ got \in [Tcps -> Seq(STRING)]  BY DEF WebTypes
<1>8. CASE w = z
  <2>1. ConnFits(ConnAfter(tcps[i], w, ev, n, st), got[i] \o w.data, w.wc)
    BY <1>2, <1>5, <1>6, <1>8, EstFits DEF CallSteps
  <2>2. \A j \in Tcps \ {i} : tcps'[j] = tcps[j] /\ got'[j] = got[j]  BY <1>4, <1>5, <1>7, <1>8
  <2>3. tcps'[i] = ConnAfter(tcps[i], w, ev, n, st) /\ got'[i] = got[i] \o w.data  BY <1>4, <1>5, <1>7, <1>8
  <2>4. \A j \in Tcps \ {i} : ConnFits(tcps'[j], got'[j], wc')  BY <1>6, <2>2, NotLiveFits
  <2> QED  BY <1>4, <1>6, <2>1, <2>2, <2>3, <2>4 DEF WebStream, OneAtATime
<1>9. CASE "close" \in ev /\ (Stays(w, z) \/ \E j \in Tcps, h \in Hosts : Opens(w, z, j, h))
  <2>1. st = "lastack"  BY <1>9
  <2>2. w.data = z.data /\ w.tcps[i] = tcps[i]
    BY <1>5, <1>7, <1>9 DEF Stays, Opens
  <2>3. BodyBegins(Response[tcps[i].host], got[i] \o w.data)
    <3>1. CASE wc.state = "CLOSE"
      <4>1. z.data = <<>>  BY <1>5, <3>1, WebWorkOK DEF CallSteps, Aborts, Tells, WorkOK, WebWorks
      <4>2. got[i] \o z.data = got[i]  BY <1>7, <4>1
      <4> QED  BY <1>6, <2>2, <4>2 DEF ConnFits
    <3>2. CASE wc.state # "CLOSE"
      <4>1. PICK u : AppcallSteps(WithData(ev, n), words, u, z)  BY <1>5, <3>2 DEF CallSteps
      <4> QED  BY <1>2, <1>6, <2>2, <3>2, <4>1, StepReads
    <3> QED  BY <3>1, <3>2
  <2>4. \A x : ConnFits(ConnAfter(tcps[i], w, ev, n, "lastack"), got[i] \o w.data, x)
    BY <1>6, <1>7, <2>3, LastAckFits
  <2>5. ConnAfter(tcps[i], w, ev, n, "lastack").st = "lastack"
    <3>1. GoesOn(ConnAfter(tcps[i], w, ev, n, "lastack"), tcps[i], w, ev, n, "lastack")  BY ConnAfterGoes
    <3> QED  BY <3>1 DEF GoesOn
  <2>6. got'[i] = got[i] \o w.data /\ \A j \in Tcps \ {i} : got'[j] = got[j]  BY <1>4, <1>7
  <2>7. CASE Stays(w, z)
    <3>1. /\ tcps'[i] = ConnAfter(tcps[i], w, ev, n, "lastack")
          /\ \A j \in Tcps \ {i} : tcps'[j] = tcps[j]
      BY <1>4, <1>5, <1>7, <2>1, <2>7 DEF Stays
    <3>2. \A j \in Tcps : ~Live(tcps'[j])  BY <1>6, <2>5, <3>1 DEF Live
    <3>3. \A j \in Tcps : ConnFits(tcps'[j], got'[j], wc')  BY <1>6, <2>4, <2>6, <3>1, NotLiveFits
    <3> QED  BY <3>2, <3>3 DEF WebStream, OneAtATime
  <2>8. CASE \E j \in Tcps, h \in Hosts : Opens(w, z, j, h)
    <3>1. PICK j \in Tcps, h \in Hosts : Opens(w, z, j, h)  BY <2>8
    <3>2. /\ tcps[j].st = "none" /\ w.tcps = [tcps EXCEPT ![j] = Conn("syn", h)]
          /\ wc'.line = <<>> /\ wc'.left = WebRequest /\ wc'.ptr = 0
      BY <1>4, <1>5, <3>1 DEF Opens
    <3>3. j # i  BY <3>2
    <3>4. Conn("syn", h) \in TcpOf
      <4>1. WorkOK(w)  BY <1>3, <1>4, AppcallOK
      <4>2. w.tcps[j] \in TcpOf /\ w.tcps[j] = Conn("syn", h)  BY <1>7, <3>2, <4>1 DEF WorkOK, WebWorks
      <4> QED  BY <4>2
    <3>5. /\ tcps'[i] = ConnAfter(tcps[i], w, ev, n, "lastack") /\ tcps'[j] = Conn("syn", h)
          /\ \A k \in Tcps \ {i, j} : tcps'[k] = tcps[k]
      BY <1>4, <1>7, <2>1, <2>2, <3>2, <3>3
    <3>6. got[j] = <<>>  BY <1>6, <3>2, <3>3 DEF ConnFits
    <3>7. ConnFits(tcps'[j], got'[j], wc')  BY <2>6, <3>2, <3>3, <3>5, <3>6, FreshFits
    <3>8. \A k \in Tcps \ {j} : ~Live(tcps'[k])  BY <1>6, <2>5, <3>5 DEF Live
    <3>9. ASSUME NEW k \in Tcps \ {j} PROVE ConnFits(tcps'[k], got'[k], wc')
      <4>1. CASE k = i  BY <2>4, <2>6, <3>5, <4>1
      <4>2. CASE k # i
        <5>1. tcps'[k] = tcps[k] /\ got'[k] = got[k] /\ ~Live(tcps[k]) /\ ConnFits(tcps[k], got[k], wc)
          BY <1>6, <2>6, <3>5, <4>2
        <5> QED  BY <5>1, NotLiveFits
      <4> QED  BY <4>1, <4>2
    <3> QED  BY <3>7, <3>8, <3>9 DEF WebStream, OneAtATime
  <2> QED  BY <1>9, <2>7, <2>8
<1> QED  BY <1>5, <1>8, <1>9

(* A connection that is not open ends: the client keeps what it knows of   *)
(* the one that is.                                                        *)
LEMMA OtherEnds ==
  ASSUME WebTypes, WebStream, NEW i \in Tcps, tcps[i].st \in {"syn", "lastack"},
         NEW ev \in {{"timedout"}, {"abort"}}, Event(i, ev, 0, "over")
  PROVE  WebStream'
<1>0. "close" \notin ev /\ "acked" \notin ev /\ WithData(ev, 0) = ev  BY DEF WithData
<1>1. PICK w : EventLeaves(i, ev, 0, "over", w)  BY EventIs
<1>2. tcps[i].resp \in Seq(STRING)  BY DEF WebTypes, TcpOf
<1>3. SubSeq(tcps[i].resp, 1, 0) = <<>> /\ <<>> \in Seq(STRING)  BY <1>2
<1>4. /\ w = webclient_appcall(WithData(ev, 0), <<>>) /\ wc' = w.wc
      /\ got' = [got EXCEPT ![i] = got[i] \o w.data]
      /\ tcps' = [w.tcps EXCEPT ![i] = ConnAfter(w.tcps[i], w, ev, 0, "over")]
  BY <1>1, <1>3 DEF EventLeaves
<1>5. CallSteps(WithData(ev, 0), <<>>, w) /\ w.tcps = tcps /\ WorkOK(w)
  <2>1. PICK z : /\ CallSteps(WithData(ev, 0), <<>>, z) /\ z.tcps = tcps /\ WorkOK(z)
                 /\ \/ w = z
                    \/ "close" \in ev /\ Stays(w, z)
                    \/ "close" \in ev /\ \E j \in Tcps, h \in Hosts : Opens(w, z, j, h)
    <3>1. MayTell(ev, 0) /\ ev # {"connected"}  BY DEF MayTell, EvAlone
    <3>2. w = webclient_appcall(WithData(ev, 0), <<>>) /\ <<>> \in Seq(STRING)  BY <1>3, <1>4
    <3>3. PICK z : CallLeaves(ev, 0, <<>>, w, z)  BY <3>1, <3>2, CallIs
    <3> QED  BY <3>3 DEF CallLeaves
  <2>2. w = z  BY <1>0, <2>1
  <2> QED  BY <2>1, <2>2
<1>6. Same(w.wc, wc) /\ w.wc.left = wc.left /\ w.wc.ptr = wc.ptr /\ w.data = <<>>
  <2>1. CASE wc.state = "CLOSE"
    <3>1. w = Aborts(Tells(WebWork, "closed"))  BY <1>5, <2>1 DEF CallSteps
    <3>2. w.wc = wc /\ w.data = <<>>  BY <3>1, WebWorkOK DEF Aborts, Tells, WorkOK, WebWorks
    <3> QED  BY <3>2 DEF Same
  <2>2. CASE wc.state # "CLOSE"
    <3>1. PICK u : AppcallSteps(ev, <<>>, u, w)  BY <1>0, <1>5, <2>2 DEF CallSteps
    <3>2. webclient_newdata(u, <<>>) = u  BY NewdataNone
    <3> QED  BY <1>0, <3>1, <3>2 DEF AppcallSteps, Agree, Same
  <2> QED  BY <2>1, <2>2
<1>7. tcps \in [Tcps -> TcpOf] /\ got \in [Tcps -> Seq(STRING)]  BY DEF WebTypes
<1>8. got' = got
  <2>1. got[i] \o <<>> = got[i]  BY <1>7
  <2> QED  BY <1>4, <1>6, <1>7, <2>1
<1>9. /\ \A j \in Tcps \ {i} : tcps'[j] = tcps[j]
      /\ tcps'[i] = ConnAfter(tcps[i], w, ev, 0, "over")
  BY <1>4, <1>5, <1>7
<1>10. tcps'[i].st = "over" /\ tcps'[i].asked = <<>> /\ tcps'[i].host = tcps[i].host
  BY <1>7, <1>9, ConnAfterOver
<1>11. \A j \in Tcps : ConnFits(tcps[j], got[j], wc)  BY DEF WebStream
<1>12. ASSUME NEW j \in Tcps PROVE ConnFits(tcps'[j], got'[j], wc')
  <2>1. CASE j = i
    <3>1. BodyBegins(Response[tcps[i].host], got[i])  BY <1>11 DEF ConnFits
    <3> QED  BY <1>8, <1>10, <2>1, <3>1, OverFits
  <2>2. CASE j # i  BY <1>4, <1>6, <1>8, <1>9, <1>11, <2>2, SameFits
  <2> QED  BY <2>1, <2>2
<1>13. \A j \in Tcps : Live(tcps'[j]) => Live(tcps[j])  BY <1>9, <1>10 DEF Live
<1> QED  BY <1>12, <1>13 DEF WebStream, OneAtATime

(* The end is told when the FIN of this side is acknowledged, and no other *)
(* connection is there.                                                    *)
LEMMA LastEnds ==
  ASSUME WebTypes, WebStream, NEW i \in Tcps, LastAcked(i), \A j \in Tcps \ {i} : Over(j)
  PROVE  WebStream'
<1>0. MayTell({"close"}, 0) /\ {"close"} # {"connected"} /\ WithData({"close"}, 0) = {"close"}
  BY DEF MayTell, EvData, WithData
<1>1. PICK w : EventLeaves(i, {"close"}, 0, "over", w)
  <2>1. Event(i, {"close"}, 0, "over")  BY DEF LastAcked
  <2> QED  BY <2>1, EventIs
<1>2. tcps[i].resp \in Seq(STRING)  BY DEF WebTypes, TcpOf
<1>3. SubSeq(tcps[i].resp, 1, 0) = <<>> /\ <<>> \in Seq(STRING)  BY <1>2
<1>4. /\ w = webclient_appcall(WithData({"close"}, 0), <<>>) /\ wc' = w.wc
      /\ got' = [got EXCEPT ![i] = got[i] \o w.data]
      /\ tcps' = [w.tcps EXCEPT ![i] = ConnAfter(w.tcps[i], w, {"close"}, 0, "over")]
  BY <1>1, <1>3 DEF EventLeaves
<1>5. PICK z : /\ CallSteps(WithData({"close"}, 0), <<>>, z) /\ z.tcps = tcps /\ WorkOK(z)
               /\ w = z \/ Stays(w, z) \/ \E j \in Tcps, h \in Hosts : Opens(w, z, j, h)
  <2>1. PICK z : CallLeaves({"close"}, 0, <<>>, w, z)  BY <1>0, <1>3, <1>4, CallIs
  <2> QED  BY <2>1 DEF CallLeaves
<1>6. z.data = <<>>
  <2>1. CASE wc.state = "CLOSE"
    <3>1. z = Aborts(Tells(WebWork, "closed"))  BY <1>5, <2>1 DEF CallSteps
    <3> QED  BY <3>1, WebWorkOK DEF Aborts, Tells, WorkOK, WebWorks
  <2>2. CASE wc.state # "CLOSE"
    <3>1. PICK u : AppcallSteps({"close"}, <<>>, u, z)  BY <1>0, <1>5, <2>2 DEF CallSteps
    <3>2. webclient_newdata(u, <<>>) = u  BY NewdataNone
    <3> QED  BY <3>1, <3>2 DEF AppcallSteps, Agree
  <2> QED  BY <2>1, <2>2
<1>7. tcps \in [Tcps -> TcpOf] /\ got \in [Tcps -> Seq(STRING)]  BY DEF WebTypes
<1>8. w.data = <<>> /\ got' = got
  <2>1. w.data = <<>>  BY <1>5, <1>6 DEF Stays, Opens
  <2>2. got[i] \o <<>> = got[i]  BY <1>7
  <2> QED  BY <1>4, <1>7, <2>1, <2>2
<1>9. \A j \in Tcps : ConnFits(tcps[j], got[j], wc)  BY DEF WebStream
<1>10. tcps[i].st = "lastack" /\ \A j \in Tcps : ~Live(tcps[j])  BY DEF LastAcked, Over, Live
<1>11. BodyBegins(Response[tcps[i].host], got[i])  BY <1>9 DEF ConnFits
<1>12. w.tcps[i] = tcps[i]  BY <1>5, <1>7, <1>10 DEF Stays, Opens
<1>13. PICK c : c = ConnAfter(tcps[i], w, {"close"}, 0, "over")  OBVIOUS
<1>14. c.st = "over" /\ c.asked = <<>> /\ c.host = tcps[i].host  BY <1>7, <1>13, ConnAfterOver
<1>15. \A x : ConnFits(c, got[i], x)  BY <1>11, <1>14, OverFits
<1>16. CASE w = z \/ Stays(w, z)
  <2>1. tcps' = [tcps EXCEPT ![i] = c]  BY <1>4, <1>5, <1>12, <1>13, <1>16 DEF Stays
  <2>2. tcps'[i] = c /\ \A j \in Tcps \ {i} : tcps'[j] = tcps[j]  BY <1>7, <2>1
  <2>3. \A j \in Tcps : ~Live(tcps'[j])  BY <1>10, <1>14, <2>2 DEF Live
  <2>4. \A j \in Tcps : ConnFits(tcps'[j], got'[j], wc')  BY <1>8, <1>9, <1>10, <1>15, <2>2, NotLiveFits
  <2> QED  BY <2>3, <2>4 DEF WebStream, OneAtATime
<1>17. CASE \E j \in Tcps, h \in Hosts : Opens(w, z, j, h)
  <2>1. PICK j \in Tcps, h \in Hosts : Opens(w, z, j, h)  BY <1>17
  <2>2. /\ tcps[j].st = "none" /\ w.tcps = [tcps EXCEPT ![j] = Conn("syn", h)]
        /\ wc'.line = <<>> /\ wc'.left = WebRequest /\ wc'.ptr = 0
    BY <1>4, <1>5, <2>1 DEF Opens
  <2>3. j # i  BY <1>10, <2>2
  <2>4. /\ tcps'[i] = c /\ tcps'[j] = Conn("syn", h)
        /\ \A k \in Tcps \ {i, j} : tcps'[k] = tcps[k]
    BY <1>4, <1>7, <1>12, <1>13, <2>2, <2>3
  <2>5. got[j] = <<>>  BY <1>9, <2>2 DEF ConnFits
  <2>6. ConnFits(tcps'[j], got'[j], wc')  BY <1>8, <2>2, <2>4, <2>5, FreshFits
  <2>7. \A k \in Tcps \ {j} : ~Live(tcps'[k])  BY <1>10, <1>14, <2>4 DEF Live
  <2>8. ASSUME NEW k \in Tcps \ {j} PROVE ConnFits(tcps'[k], got'[k], wc')
    <3>1. CASE k = i  BY <1>8, <1>15, <2>4, <3>1
    <3>2. CASE k # i
      <4>1. tcps'[k] = tcps[k] /\ got'[k] = got[k] /\ ~Live(tcps[k]) /\ ConnFits(tcps[k], got[k], wc)
        BY <1>8, <1>9, <1>10, <2>4, <3>2
      <4> QED  BY <4>1, NotLiveFits
    <3> QED  BY <3>1, <3>2
  <2> QED  BY <2>6, <2>7, <2>8 DEF WebStream, OneAtATime
<1> QED  BY <1>5, <1>16, <1>17

(* The state of a connection that has just been opened.                    *)
LEMMA ConnectedFits ==
  ASSUME NEW resp \in Seq(STRING), NEW c, NEW d, NEW v, NEW w, w.wc = v, w.sends, w.ends = FALSE,
         c.resp = resp, Response[c.host] = resp, c.asked = <<>>, c.out = 0,
         GoesOn(d, c, w, {"connected"}, 0, "est"),
         v.state = "STATUSLINE", v.line = <<>>, v.left = WebRequest, v.ptr = 0
  PROVE  ConnFits(d, <<>>, v)
<1>1. /\ d.st = "est" /\ d.host = c.host /\ d.resp = SubSeq(c.resp, 0 + 1, Len(c.resp)) /\ d.asked = <<>>
      /\ d.out = 1
  BY DEF GoesOn
<1>2. Len(<<>>) = 0 /\ 1..Len(<<>>) = {} /\ 0 \in 0..Len(resp) /\ 1..0 = {}  OBVIOUS
<1>3. d.resp = Rest(resp, 0)  BY <1>1 DEF Rest
<1>4. ReadTo(v, resp, 0, <<>>)  BY <1>2 DEF ReadTo
<1>5. v.left > 0 /\ v.ptr = Len(d.asked) /\ d.out \in {0, v.ptr + 1}  BY <1>1, <1>2, WebConsts
<1> QED  BY <1>1, <1>2, <1>3, <1>4, <1>5 DEF ConnFits, BodyBegins

LEMMA SynAckedStep ==
  ASSUME WebTypes, WebStream, NEW i \in Tcps, SynAcked(i)
  PROVE  WebStream'
<1>1. PICK w : EventLeaves(i, {"connected"}, 0, "est", w)
  <2>1. Event(i, {"connected"}, 0, "est")  BY DEF SynAcked
  <2> QED  BY <2>1, EventIs
<1>2. tcps \in [Tcps -> TcpOf] /\ got \in [Tcps -> Seq(STRING)]  BY DEF WebTypes
<1>3. /\ wc' = w.wc /\ got' = [got EXCEPT ![i] = got[i] \o w.data]
      /\ tcps' = [w.tcps EXCEPT ![i] = ConnAfter(w.tcps[i], w, {"connected"}, 0, "est")]
  BY <1>1 DEF EventLeaves
<1>4. /\ got[i] = <<>> /\ tcps[i].resp = Response[tcps[i].host] /\ tcps[i].asked = <<>> /\ tcps[i].out = 0
      /\ wc.line = <<>> /\ wc.left = WebRequest /\ wc.ptr = 0
  BY DEF SynAcked, WebStream, ConnFits
<1>5. /\ w.wc.state = "STATUSLINE" /\ w.wc.line = wc.line /\ w.wc.left = wc.left /\ w.wc.ptr = wc.ptr
      /\ w.sends /\ w.ends = FALSE /\ w.tcps = tcps /\ w.data = <<>>
  <2>1. PICK t : t = [WebWork EXCEPT !.wc.timer = 0, !.wc.state = "STATUSLINE"]  OBVIOUS
  <2>2. PICK v : v = Tells(t, "connected")  OBVIOUS
  <2>3. w = webclient_senddata(v)  BY <1>1, <2>1, <2>2 DEF EventLeaves, webclient_appcall, WithData
  <2>4. /\ t \in WebWorks /\ t.wc.state = "STATUSLINE" /\ t.wc.line = wc.line /\ t.wc.left = wc.left
        /\ t.wc.ptr = wc.ptr /\ t.ends = FALSE /\ t.tcps = tcps /\ t.data = <<>>
    <3>1. WebWork \in WebWorks /\ WebWork.wc \in Wc  BY WebWorkOK DEF WorkOK, WebWorks
    <3> QED  BY <2>1, <3>1, WebWorkOK DEF WebWorks, Wc
  <2>5. /\ v \in WebWorks /\ v.wc = t.wc /\ v.ends = FALSE /\ v.tcps = tcps /\ v.data = <<>>
    BY <2>2, <2>4 DEF Tells, WebWorks, Callbacks
  <2>6. v.wc.left > 0  BY <1>4, <2>4, <2>5, WebConsts
  <2>7. w = [v EXCEPT !.sends = TRUE]  BY <2>3, <2>6 DEF webclient_senddata
  <2> QED  BY <2>4, <2>5, <2>7 DEF WebWorks
<1>6. PICK d : d = ConnAfter(tcps[i], w, {"connected"}, 0, "est")  OBVIOUS
<1>7. GoesOn(d, tcps[i], w, {"connected"}, 0, "est")  BY <1>5, <1>6, ConnAfterGoes
<1>8. ConnFits(d, <<>>, wc')
  <2>1. tcps[i].host \in Hosts  BY <1>2 DEF TcpOf
  <2>2. Response[tcps[i].host] \in Seq(STRING)  BY <2>1, WebConsts
  <2>3. /\ wc'.state = "STATUSLINE" /\ wc'.line = <<>> /\ wc'.left = WebRequest /\ wc'.ptr = 0
    BY <1>3, <1>4, <1>5
  <2> QED  BY <1>3, <1>4, <1>5, <1>7, <2>2, <2>3, ConnectedFits
<1>9. got' = got
  <2>1. got[i] \o <<>> = got[i]  BY <1>2
  <2> QED  BY <1>2, <1>3, <1>5, <2>1
<1>10. tcps'[i] = d /\ \A j \in Tcps \ {i} : tcps'[j] = tcps[j]  BY <1>2, <1>3, <1>5, <1>6
<1>11. Live(tcps[i])  BY DEF SynAcked, Live
<1>12. \A j \in Tcps \ {i} : ~Live(tcps[j]) /\ ConnFits(tcps[j], got[j], wc)
  BY <1>11 DEF WebStream, OneAtATime
<1>13. ASSUME NEW j \in Tcps PROVE ConnFits(tcps'[j], got'[j], wc')
  <2>1. CASE j = i  BY <1>4, <1>8, <1>9, <1>10, <2>1
  <2>2. CASE j # i  BY <1>9, <1>10, <1>12, <2>2, NotLiveFits
  <2> QED  BY <2>1, <2>2
<1> QED  BY <1>10, <1>12, <1>13 DEF WebStream, OneAtATime

(* The user asks when no connection is left.                               *)
LEMMA GetStep ==
  ASSUME WebTypes, WebStream, NEW host \in Hosts, Get(host)
  PROVE  WebStream'
<1>1. PICK v : v = [WebWork EXCEPT !.told = "none"]  OBVIOUS
<1>2. PICK w : w = webclient_get(v, host) /\ wc' = w.wc /\ tcps' = w.tcps  BY <1>1 DEF Get
<1>3. WorkOK(v) /\ v.wc = wc /\ v.tcps = tcps
  <2>1. WorkOK(WebWork) /\ v = Tells(WebWork, "none")  BY <1>1, WebWorkOK DEF Tells
  <2>2. WorkOK(v)  BY <2>1, TellsOK DEF Callbacks
  <2> QED  BY <2>1, <2>2, WebWorkOK DEF Tells, WorkOK, WebWorks
<1>4. \A j \in Tcps : ~Live(tcps[j]) /\ ConnFits(tcps[j], got[j], wc)
  BY DEF Get, Over, Live, WebStream
<1>5. tcps \in [Tcps -> TcpOf]  BY DEF WebTypes
<1>6. \A j \in Tcps : got'[j] = <<>>  BY DEF Get
<1>7. ASSUME NEW j \in Tcps, NEW x PROVE ConnFits(tcps[j], <<>>, x)
  BY <1>4 DEF ConnFits, BodyBegins, Live
<1>8. CASE w = v
  BY <1>2, <1>3, <1>4, <1>6, <1>7, <1>8 DEF WebStream, OneAtATime
<1>9. CASE w # v
  <2>1. PICK j \in Tcps : Opens(w, v, j, host)  BY <1>2, <1>3, <1>9, GetOpens
  <2>2. /\ tcps' = [tcps EXCEPT ![j] = Conn("syn", host)]
        /\ wc'.line = <<>> /\ wc'.left = WebRequest /\ wc'.ptr = 0
    BY <1>2, <1>3, <2>1 DEF Opens
  <2>3. tcps'[j] = Conn("syn", host) /\ \A k \in Tcps \ {j} : tcps'[k] = tcps[k]  BY <1>5, <2>2
  <2>4. ConnFits(tcps'[j], <<>>, wc')  BY <2>2, <2>3, FreshFits
  <2>5. \A k \in Tcps \ {j} : ~Live(tcps'[k]) /\ ConnFits(tcps'[k], <<>>, wc')  BY <1>4, <1>7, <2>3
  <2> QED  BY <1>6, <2>4, <2>5 DEF WebStream, OneAtATime
<1> QED  BY <1>8, <1>9

LEMMA WebStreamInit ==
  ASSUME WebInit
  PROVE  WebStream
<1>1. ASSUME NEW i \in Tcps PROVE ~Live(tcps[i]) /\ ConnFits(tcps[i], got[i], wc)
  <2>1. PICK h : tcps[i] = Conn("none", h)  BY DEF WebInit
  <2>2. tcps[i].st = "none" /\ tcps[i].asked = <<>> /\ got[i] = <<>>  BY <2>1 DEF Conn, WebInit
  <2>3. 1..Len(<<>>) = {}  OBVIOUS
  <2> QED  BY <2>2, <2>3 DEF ConnFits, BodyBegins, Live
<1> QED  BY <1>1 DEF WebStream, OneAtATime

LEMMA WebInvNext == WebInv /\ [WebNext]_webVars => WebInv'
<1> SUFFICES ASSUME WebInv, [WebNext]_webVars PROVE WebInv'  OBVIOUS
<1>1. WebTypes /\ WebTypes'  BY WebTypesNext DEF WebInv
<1> SUFFICES ASSUME ~twice' PROVE WebStream'  BY <1>1 DEF WebInv
<1>2. ~twice
  <2>1. twice => twice'
    BY DEF WebNext, webVars, Get, Resolved, webclient_close, SynAcked, RequestAcked, ResponseComes, Rexmit,
           Poll, FinComes, LastAcked, TimesOut, Reset
  <2> QED  BY <2>1
<1>3. WebStream  BY <1>2 DEF WebInv
<1>4. ASSUME NEW i \in Tcps, NEW n \in SegmentOf(i) PROVE n \in 0..Len(tcps[i].resp)
  <2>1. Len(tcps[i].resp) \in Nat  BY <1>1 DEF WebTypes, TcpOf
  <2> QED  BY <1>4, <2>1, WebConsts DEF SegmentOf
<1>5. ASSUME NEW i \in Tcps PROVE 0 \in 0..Len(tcps[i].resp) /\ tcps[i].out \in Nat
  BY <1>1 DEF WebTypes, TcpOf
<1>6. \A n : MayTell({"acked"}, n) /\ MayTell({}, n) /\ MayTell({"close"}, n) /\ MayTell({"acked", "close"}, n)
  BY DEF MayTell, EvData
<1>7. \A e \in EvAlone : MayTell(e, 0)  BY DEF MayTell
<1>8. ASSUME NEW h \in Hosts, Get(h) PROVE WebStream'  BY <1>1, <1>3, <1>8, GetStep
<1>9. CASE UNCHANGED <<wc, tcps, got>>  BY <1>3, <1>9 DEF WebStream, OneAtATime
<1>10. ASSUME NEW h \in Hosts, Resolved(h) PROVE WebStream'  BY <1>9, <1>10 DEF Resolved
<1>11. CASE webclient_close
  <2>1. /\ wc'.state = "CLOSE" /\ wc'.line = wc.line /\ wc'.left = wc.left /\ wc'.ptr = wc.ptr
        /\ tcps' = tcps /\ got' = got
    BY <1>1, <1>11 DEF webclient_close, WebTypes, Wc
  <2>2. ASSUME NEW i \in Tcps PROVE ConnFits(tcps[i], got[i], wc')
    <3>1. ConnFits(tcps[i], got[i], wc)  BY <1>3 DEF WebStream
    <3> QED  BY <2>1, <3>1 DEF ConnFits
  <2> QED  BY <1>3, <2>1, <2>2 DEF WebStream, OneAtATime
<1>12. ASSUME NEW i \in Tcps, SynAcked(i) PROVE WebStream'  BY <1>1, <1>3, <1>12, SynAckedStep
<1>13. ASSUME NEW i \in Tcps, RequestAcked(i) PROVE WebStream'
  <2>1. tcps[i].st = "est" /\ tcps[i].out > 0  BY <1>13 DEF RequestAcked
  <2>2. PICK n \in SegmentOf(i) : Event(i, {"acked"}, n, "est")  BY <1>13 DEF RequestAcked
  <2>3. "close" \notin {"acked"} /\ {"acked"} # {"connected"}  OBVIOUS
  <2> QED  BY <1>1, <1>3, <1>4, <1>6, <2>1, <2>2, <2>3, EstStep
<1>14. ASSUME NEW i \in Tcps, ResponseComes(i) PROVE WebStream'
  <2>1. tcps[i].st = "est"  BY <1>14 DEF ResponseComes
  <2>2. PICK n \in SegmentOf(i) : Event(i, {}, n, "est")  BY <1>14 DEF ResponseComes
  <2>3. "close" \notin {} /\ "acked" \notin {} /\ {} # {"connected"}  OBVIOUS
  <2> QED  BY <1>1, <1>3, <1>4, <1>6, <2>1, <2>2, <2>3, EstStep
<1>15. ASSUME NEW i \in Tcps, Rexmit(i) PROVE WebStream'
  <2>1. tcps[i].st = "est" /\ Event(i, {"rexmit"}, 0, "est")  BY <1>15 DEF Rexmit
  <2>2. MayTell({"rexmit"}, 0)  BY <1>7 DEF EvAlone
  <2>3. "close" \notin {"rexmit"} /\ "acked" \notin {"rexmit"} /\ {"rexmit"} # {"connected"}  OBVIOUS
  <2> QED  BY <1>1, <1>3, <1>5, <2>1, <2>2, <2>3, EstStep
<1>16. ASSUME NEW i \in Tcps, Poll(i) PROVE WebStream'
  <2>1. tcps[i].st = "est" /\ Event(i, {"poll"}, 0, "est")  BY <1>16 DEF Poll
  <2>2. MayTell({"poll"}, 0)  BY <1>7 DEF EvAlone
  <2>3. "close" \notin {"poll"} /\ "acked" \notin {"poll"} /\ {"poll"} # {"connected"}  OBVIOUS
  <2> QED  BY <1>1, <1>3, <1>5, <2>1, <2>2, <2>3, EstStep
<1>17. ASSUME NEW i \in Tcps, FinComes(i) PROVE WebStream'
  <2>1. tcps[i].st = "est"  BY <1>17 DEF FinComes
  <2>2. PICK n \in SegmentOf(i) : \/ tcps[i].out = 0 /\ Event(i, {"close"}, n, "lastack")
                                  \/ tcps[i].out > 0 /\ Event(i, {"acked", "close"}, n, "lastack")
    BY <1>17 DEF FinComes
  <2>3. n \in 0..Len(tcps[i].resp)  BY <1>4
  <2>4. CASE Event(i, {"close"}, n, "lastack")
    <3>1. "acked" \notin {"close"} /\ {"close"} # {"connected"}  OBVIOUS
    <3> QED  BY <1>1, <1>3, <1>6, <2>1, <2>3, <2>4, <3>1, EstStep
  <2>5. CASE tcps[i].out > 0 /\ Event(i, {"acked", "close"}, n, "lastack")
    <3>1. {"acked", "close"} # {"connected"}  OBVIOUS
    <3> QED  BY <1>1, <1>3, <1>6, <2>1, <2>3, <2>5, <3>1, EstStep
  <2> QED  BY <2>2, <2>4, <2>5
<1>18. ASSUME NEW i \in Tcps, LastAcked(i) PROVE WebStream'
  <2>1. \A j \in Tcps \ {i} : Over(j)  BY <1>18 DEF LastAcked
  <2> QED  BY <1>1, <1>3, <1>18, <2>1, LastEnds
<1>19. ASSUME NEW i \in Tcps, TimesOut(i) PROVE WebStream'
  <2>1. tcps[i].st \in {"syn", "lastack", "est"} /\ Event(i, {"timedout"}, 0, "over")  BY <1>19 DEF TimesOut
  <2>2. MayTell({"timedout"}, 0)  BY <1>7 DEF EvAlone
  <2>3. "close" \notin {"timedout"} /\ "acked" \notin {"timedout"} /\ {"timedout"} # {"connected"}  OBVIOUS
  <2>4. CASE tcps[i].st = "est"  BY <1>1, <1>3, <1>5, <2>1, <2>2, <2>3, <2>4, EstStep
  <2>5. CASE tcps[i].st # "est"  BY <1>1, <1>3, <2>1, <2>5, OtherEnds
  <2> QED  BY <2>4, <2>5
<1>20. ASSUME NEW i \in Tcps, Reset(i) PROVE WebStream'
  <2>1. Event(i, {"abort"}, 0, "over")  BY <1>20 DEF Reset
  <2>2. MayTell({"abort"}, 0)  BY <1>7 DEF EvAlone
  <2>3. "close" \notin {"abort"} /\ "acked" \notin {"abort"} /\ {"abort"} # {"connected"}  OBVIOUS
  <2>4. CASE tcps[i].st = "est"  BY <1>1, <1>3, <1>5, <2>1, <2>2, <2>3, <2>4, EstStep
  <2>5. CASE tcps[i].st # "est"
    <3>1. tcps[i].st \in {"syn", "lastack"}  BY <1>1, <1>20, <2>5 DEF Reset, Over, WebTypes, TcpOf
    <3> QED  BY <1>1, <1>3, <2>1, <3>1, OtherEnds
  <2> QED  BY <2>4, <2>5
<1>21. CASE UNCHANGED webVars  BY <1>9, <1>21 DEF webVars
<1> QED
  BY <1>8, <1>10, <1>11, <1>12, <1>13, <1>14, <1>15, <1>16, <1>17, <1>18, <1>19, <1>20, <1>21 DEF WebNext

LEMMA WebInvInit == WebInit => WebInv
BY WebTypesInit, WebStreamInit DEF WebInv

LEMMA WebInvHolds == WebSpec => []WebInv
BY WebInvInit, WebInvNext, PTL DEF WebSpec

LEMMA WebInvOnlyData == WebInv => OnlyData
<1> SUFFICES ASSUME WebInv, ~twice, NEW i \in Tcps
             PROVE  IsPrefix(got[i], Body(Response[tcps[i].host]))
  BY DEF OnlyData
<1>1. tcps[i].host \in Hosts  BY DEF WebInv, WebTypes, TcpOf
<1>2. Response[tcps[i].host] \in Seq(STRING)  BY <1>1, WebConsts
<1>3. BodyBegins(Response[tcps[i].host], got[i])  BY DEF WebInv, WebStream, ConnFits
<1> QED  BY <1>2, <1>3, BodyPrefix

(* However a response is cut into segments, and for responses of every     *)
(* length, the data handler gets the data of the response, from its first  *)
(* word, in order and without a gap (webclient.c, newdata), unless the end *)
(* of an earlier connection was told again in between.                     *)
THEOREM OnlyDataHolds == WebSpec => []OnlyData
BY WebInvOnlyData, WebInvHolds, PTL

LEMMA WebInvInOrder == WebInv => RequestInOrder
<1> SUFFICES ASSUME WebInv, ~twice, NEW i \in Tcps
             PROVE  tcps[i].asked = [k \in DOMAIN tcps[i].asked |-> k]
  BY DEF RequestInOrder
<1>1. PICK a \in Seq(Nat) : a = tcps[i].asked  BY DEF WebInv, WebTypes, TcpOf
<1>2. \A k \in 1..Len(a) : a[k] = k  BY <1>1 DEF WebInv, WebStream, ConnFits
<1>3. DOMAIN a = 1..Len(a) /\ a \in [1..Len(a) -> Nat]  BY <1>1
<1>4. a = [k \in DOMAIN a |-> k]  BY <1>2, <1>3
<1> QED  BY <1>1, <1>4

(* The server gets the request's parts in order and without a gap          *)
(* (webclient_acked, webclient_senddata), unless the same happened.        *)
THEOREM RequestInOrderHolds == WebSpec => []RequestInOrder
BY WebInvInOrder, WebInvHolds, PTL
-------------------------------------------------------------------------------
(***************************************************************************)
(* Telnetd: for every number of blocks and of lines in a segment, segments *)
(* of every length, and any number of clients.                             *)
(***************************************************************************)

LEMMA TelnetdConsts ==
  /\ NUMLINES \in Nat /\ NUMLINES > 0 /\ LINELEN \in Nat /\ LINELEN > 0 /\ PerSegment \in Nat /\ PerSegment > 0
  /\ HelpLines \in Nat /\ MaxClients \in Nat /\ MaxMade \in Nat
  /\ Blocks \subseteq Nat /\ 0 \notin Blocks
BY TelnetdAssumption DEF Blocks

LEMMA MinOf ==
  ASSUME NEW M \in SUBSET Nat, M # {}
  PROVE  Min(M) \in M /\ \A k \in M : Min(M) <= k
BY LeastNatural DEF Min

(* What telnetd works on.  s.buf begins with a character that a client     *)
(* sent, or as TelnetdInit leaves it.                                      *)
Chars == STRING \cup {"nl"}

TelnetdStates ==
  [lines : [Blocks -> Blocks \cup {0}], numsent : 0..PerSegment,
   state : {"NORMAL", "IAC", "WILL", "CLOSE"}, bufptr : 0..LINELEN - 1, first : Chars]

TelnetdWork ==
  [s : TelnetdStates, linemem : [count : [Blocks -> 0..1], text : [Blocks -> Nat]],
   made : Nat]

(* s.lines is filled from its first entry on, and each of its blocks holds *)
(* a line that was put out.                                                *)
ListOK(w) ==
  /\ w \in TelnetdWork
  /\ \A b \in Blocks : w.linemem.text[b] <= w.made
  /\ \A i, j \in Blocks : i < j /\ w.s.lines[i] = 0 => w.s.lines[j] = 0
  /\ \A i \in Blocks : w.s.lines[i] # 0 => w.linemem.text[w.s.lines[i]] >= 1

(* There are lines for what was sent last. *)
CanSend(w) == \A i \in 1..w.s.numsent : i \in Blocks /\ w.s.lines[i] # 0

LineAt(w, i) == w.linemem.text[w.s.lines[i]]

(* The lines in s.lines are in the order they were put out, each in a      *)
(* block in use; those that the client got, g, come before them, and those *)
(* in transit, t, are the first of them.                                   *)
InOrder(w, g, t) ==
  /\ \A i, j \in Blocks : i < j /\ w.s.lines[j] # 0 => LineAt(w, i) < LineAt(w, j)
  /\ \A i \in Blocks : w.s.lines[i] # 0 => w.linemem.count[w.s.lines[i]] = 1
  /\ \A k \in DOMAIN g : /\ g[k] \in Nat /\ g[k] <= w.made
                        /\ \A i \in Blocks : w.s.lines[i] # 0 => g[k] < LineAt(w, i)
  /\ \A i \in DOMAIN t : i \in Blocks /\ w.s.lines[i] # 0 /\ t[i] = LineAt(w, i)

(* Every block in use is in s.lines. *)
NoneLost(w) == \A b \in Blocks : w.linemem.count[b] = 1 => \E i \in Blocks : w.s.lines[i] = b

-------------------------------------------------------------------------------
(* A line is put out: it gets block b and entry i. *)
Adds(w, b, i, v) ==
  /\ w.linemem.count[b] = 0 /\ w.s.lines[i] = 0 /\ \A j \in Blocks : w.s.lines[j] = 0 => i <= j
  /\ v \in TelnetdWork
  /\ v.s.lines = [w.s.lines EXCEPT ![i] = b] /\ v.s.numsent = w.s.numsent /\ v.s.state = w.s.state
  /\ v.s.bufptr = w.s.bufptr /\ v.s.first = w.s.first
  /\ v.linemem.count = [w.linemem.count EXCEPT ![b] = 1]
  /\ v.linemem.text = [w.linemem.text EXCEPT ![b] = w.made + 1] /\ v.made = w.made + 1

LEMMA SendlineIs ==
  ASSUME NEW w \in TelnetdWork
  PROVE  sendline(w) = w \/ \E b, i \in Blocks : Adds(w, b, i, sendline(w))
<1> DEFINE free  == memb_alloc(w)
           empty == {i \in Blocks : w.s.lines[i] = 0}
<1>1. CASE free = {} \/ empty = {}  BY <1>1 DEF sendline
<1>2. CASE ~(free = {} \/ empty = {})
  <2>1. PICK b : b = Min(free)  OBVIOUS
  <2>2. PICK i : i = Min(empty)  OBVIOUS
  <2>3. PICK n : n = w.made + 1  OBVIOUS
  <2>4. b \in free /\ b \in Blocks /\ w.linemem.count[b] = 0
    <3>1. free \in SUBSET Nat /\ free # {}  BY <1>2, TelnetdConsts DEF memb_alloc
    <3> HIDE DEF free
    <3>2. b \in free  BY <2>1, <3>1, MinOf
    <3> QED  BY <3>2 DEF free, memb_alloc
  <2>5. i \in Blocks /\ w.s.lines[i] = 0 /\ \A j \in Blocks : w.s.lines[j] = 0 => i <= j
    <3>1. empty \in SUBSET Nat /\ empty # {}  BY <1>2, TelnetdConsts
    <3> HIDE DEF empty
    <3>2. i \in empty /\ \A k \in empty : i <= k  BY <2>2, <3>1, MinOf
    <3> QED  BY <3>2 DEF empty
  <2> DEFINE one == 1
  <2>6. sendline(w) = [w EXCEPT !.linemem.count[b] = one, !.linemem.text[b] = n, !.made = n, !.s.lines[i] = b]
    BY <1>2, <2>1, <2>2, <2>3 DEF sendline
  <2>7. PICK v : v = sendline(w)  OBVIOUS
  <2>8. n \in Nat /\ one \in 0..1  BY <2>3 DEF TelnetdWork, TelnetdStates
  <2> HIDE DEF one
  <2>9. PICK u : u = [w EXCEPT !.linemem.count[b] = one]  OBVIOUS
  <2>10. PICK x : x = [u EXCEPT !.linemem.text[b] = n]  OBVIOUS
  <2>12. /\ u \in TelnetdWork /\ u.s = w.s /\ u.linemem.text = w.linemem.text
         /\ u.linemem.count = [w.linemem.count EXCEPT ![b] = one]
    <3>1. u = [w EXCEPT !.linemem = [w.linemem EXCEPT !.count = [w.linemem.count EXCEPT ![b] = one]]]
      BY <2>9
    <3>2. PICK C \in [Blocks -> 0..1] : C = [w.linemem.count EXCEPT ![b] = one]
      BY <2>4, <2>8 DEF TelnetdWork, TelnetdStates
    <3>3. PICK m \in [count : [Blocks -> 0..1], text : [Blocks -> Nat]] : m = [w.linemem EXCEPT !.count = C]
      BY <3>2 DEF TelnetdWork, TelnetdStates
    <3>4. m.count = C /\ m.text = w.linemem.text  BY <3>3 DEF TelnetdWork, TelnetdStates
    <3>5. u = [w EXCEPT !.linemem = m]  BY <3>1, <3>2, <3>3
    <3>6. u \in TelnetdWork /\ u.s = w.s /\ u.linemem = m  BY <3>5 DEF TelnetdWork, TelnetdStates
    <3> QED  BY <3>2, <3>4, <3>6
  <2>13. /\ x \in TelnetdWork /\ x.s = u.s /\ x.linemem.count = u.linemem.count
         /\ x.linemem.text = [u.linemem.text EXCEPT ![b] = n]
    <3>1. x = [u EXCEPT !.linemem = [u.linemem EXCEPT !.text = [u.linemem.text EXCEPT ![b] = n]]]
      BY <2>10
    <3>2. PICK C \in [Blocks -> Nat] : C = [u.linemem.text EXCEPT ![b] = n]
      BY <2>4, <2>8, <2>12 DEF TelnetdWork, TelnetdStates
    <3>3. PICK m \in [count : [Blocks -> 0..1], text : [Blocks -> Nat]] : m = [u.linemem EXCEPT !.text = C]
      BY <2>12, <3>2 DEF TelnetdWork, TelnetdStates
    <3>4. m.text = C /\ m.count = u.linemem.count  BY <2>12, <3>3 DEF TelnetdWork, TelnetdStates
    <3>5. x = [u EXCEPT !.linemem = m]  BY <3>1, <3>2, <3>3
    <3>6. x \in TelnetdWork /\ x.s = u.s /\ x.linemem = m  BY <2>12, <3>5 DEF TelnetdWork, TelnetdStates
    <3> QED  BY <3>2, <3>4, <3>6
  <2>14. PICK y : y = [x EXCEPT !.made = n]  OBVIOUS
  <2>15. y \in TelnetdWork /\ y.s = x.s /\ y.linemem = x.linemem /\ y.made = n
    BY <2>8, <2>13, <2>14 DEF TelnetdWork, TelnetdStates
  <2>16. v = [y EXCEPT !.s.lines[i] = b]  BY <2>6, <2>7, <2>9, <2>10, <2>14
  <2>17. /\ v \in TelnetdWork /\ v.linemem = y.linemem /\ v.made = y.made
         /\ v.s.lines = [y.s.lines EXCEPT ![i] = b] /\ v.s.numsent = y.s.numsent /\ v.s.state = y.s.state
         /\ v.s.bufptr = y.s.bufptr /\ v.s.first = y.s.first
    <3>1. v = [y EXCEPT !.s = [y.s EXCEPT !.lines = [y.s.lines EXCEPT ![i] = b]]]
      BY <2>16
    <3>2. PICK L \in [Blocks -> Blocks \cup {0}] : L = [y.s.lines EXCEPT ![i] = b]
      BY <2>4, <2>5, <2>15 DEF TelnetdWork, TelnetdStates
    <3>3. PICK q : q = [y.s EXCEPT !.lines = L]  OBVIOUS
    <3>4. /\ q \in TelnetdStates
          /\ q.lines = L /\ q.numsent = y.s.numsent /\ q.state = y.s.state /\ q.bufptr = y.s.bufptr
          /\ q.first = y.s.first
      BY <2>15, <3>2, <3>3 DEF TelnetdWork, TelnetdStates
    <3>5. v = [y EXCEPT !.s = q]  BY <3>1, <3>2, <3>3
    <3>6. v \in TelnetdWork /\ v.linemem = y.linemem /\ v.made = y.made /\ v.s = q
      BY <2>15, <3>4, <3>5 DEF TelnetdWork, TelnetdStates
    <3> QED  BY <3>2, <3>4, <3>6
  <2>11. Adds(w, b, i, v)  BY <2>3, <2>4, <2>5, <2>12, <2>13, <2>15, <2>17 DEF Adds, one
  <2> QED  BY <2>4, <2>5, <2>7, <2>11
<1> QED  BY <1>1, <1>2

(* Whatever is put out after u, giving v: for the client that got g and    *)
(* has t in transit, the order stays.                                      *)
PutsOut(u, v, g, t) ==
  /\ ListOK(v) /\ v.s.numsent = u.s.numsent /\ v.made >= u.made
  /\ \A i \in Blocks : u.s.lines[i] # 0 => v.s.lines[i] # 0
  /\ InOrder(u, g, t) => InOrder(v, g, t)
  /\ NoneLost(u) => NoneLost(v)

LEMMA PutsOutTwice ==
  ASSUME NEW g, NEW t, NEW u \in TelnetdWork, NEW v, NEW w, PutsOut(u, v, g, t), PutsOut(v, w, g, t)
  PROVE  PutsOut(u, w, g, t)
<1>1. u.made \in Nat /\ v.made \in Nat /\ w.made \in Nat  BY DEF PutsOut, ListOK, TelnetdWork, TelnetdStates
<1>2. w.made >= u.made  BY <1>1 DEF PutsOut
<1> QED  BY <1>2 DEF PutsOut

LEMMA PutsNone ==
  ASSUME NEW g, NEW t, NEW u, ListOK(u)
  PROVE  PutsOut(u, u, g, t)
<1>1. u.made \in Nat  BY DEF ListOK, TelnetdWork, TelnetdStates
<1> QED  BY <1>1 DEF PutsOut

(* The lines and their blocks are left alone. *)
SameLines(u, v) ==
  v.s.lines = u.s.lines /\ v.s.numsent = u.s.numsent /\ v.linemem = u.linemem /\ v.made = u.made

LEMMA PutsSame ==
  ASSUME NEW g, NEW t, NEW u, ListOK(u), NEW v \in TelnetdWork, SameLines(u, v)
  PROVE  PutsOut(u, v, g, t)
<1>1. u.made \in Nat  BY DEF ListOK, TelnetdWork, TelnetdStates
<1> QED  BY <1>1 DEF PutsOut, ListOK, InOrder, NoneLost, LineAt, SameLines

LEMMA AddsOrder ==
  ASSUME NEW w, ListOK(w), NEW b \in Blocks, NEW i \in Blocks, NEW v, Adds(w, b, i, v), NEW g, NEW t
  PROVE  PutsOut(w, v, g, t)
<1>1. /\ w \in TelnetdWork /\ v \in TelnetdWork
      /\ \A x \in Blocks : w.linemem.text[x] <= w.made
      /\ \A x, y \in Blocks : x < y /\ w.s.lines[x] = 0 => w.s.lines[y] = 0
      /\ \A x \in Blocks : w.s.lines[x] # 0 => w.linemem.text[w.s.lines[x]] >= 1
  BY DEF ListOK, Adds
<1>2. /\ w.linemem.count[b] = 0 /\ w.s.lines[i] = 0 /\ \A j \in Blocks : w.s.lines[j] = 0 => i <= j
      /\ v.s.numsent = w.s.numsent /\ v.made = w.made + 1
  BY DEF Adds
<1>3. /\ \A j \in Blocks : v.s.lines[j] = IF j = i THEN b ELSE w.s.lines[j]
      /\ \A x \in Blocks : v.linemem.count[x] = IF x = b THEN 1 ELSE w.linemem.count[x]
      /\ \A x \in Blocks : v.linemem.text[x] = IF x = b THEN w.made + 1 ELSE w.linemem.text[x]
  BY <1>1 DEF Adds, TelnetdWork, TelnetdStates
<1>4. /\ w.made \in Nat /\ \A x \in Blocks : w.linemem.text[x] \in Nat /\ w.linemem.count[x] \in 0..1
      /\ \A j \in Blocks : w.s.lines[j] \in Blocks \cup {0}
      /\ Blocks \subseteq Nat /\ 0 \notin Blocks
  BY <1>1, TelnetdConsts DEF TelnetdWork, TelnetdStates
<1>5. \A j \in Blocks : (j < i <=> w.s.lines[j] # 0) /\ (v.s.lines[j] # 0 <=> j <= i)
  <2> TAKE j \in Blocks
  <2>1. w.s.lines[j] # 0 => ~(i < j) /\ j # i  BY <1>1, <1>2
  <2>2. i \in Nat /\ j \in Nat /\ b # 0  BY <1>4
  <2>3. j < i => w.s.lines[j] # 0  BY <1>2, <2>2
  <2>4. ~(i < j) /\ j # i => j < i  BY <2>2
  <2>5. v.s.lines[j] # 0 <=> j = i \/ w.s.lines[j] # 0  BY <1>3, <2>2
  <2>6. j <= i <=> j < i \/ j = i  BY <2>2
  <2> QED  BY <2>1, <2>3, <2>4, <2>5, <2>6
<1>6. ListOK(v)
  <2>1. \A x \in Blocks : v.linemem.text[x] <= v.made  BY <1>1, <1>2, <1>3, <1>4
  <2>2. \A x, y \in Blocks : x < y /\ v.s.lines[x] = 0 => v.s.lines[y] = 0
    BY <1>4, <1>5
  <2>3. ASSUME NEW x \in Blocks, v.s.lines[x] # 0 PROVE v.linemem.text[v.s.lines[x]] >= 1
    <3>1. CASE v.s.lines[x] = b  BY <1>3, <1>4, <3>1
    <3>2. CASE v.s.lines[x] # b
      <4>1. v.s.lines[x] = w.s.lines[x] /\ w.s.lines[x] \in Blocks  BY <1>3, <1>4, <2>3, <3>2
      <4> QED  BY <1>1, <1>3, <3>2, <4>1, <2>3
    <3> QED  BY <3>1, <3>2
  <2> QED  BY <1>1, <2>1, <2>2, <2>3 DEF ListOK
<1>7. ASSUME InOrder(w, g, t) PROVE InOrder(v, g, t)
  <2>1. /\ \A x, y \in Blocks : x < y /\ w.s.lines[y] # 0 => LineAt(w, x) < LineAt(w, y)
        /\ \A x \in Blocks : w.s.lines[x] # 0 => w.linemem.count[w.s.lines[x]] = 1
        /\ \A k \in DOMAIN g : /\ g[k] \in Nat /\ g[k] <= w.made
                              /\ \A x \in Blocks : w.s.lines[x] # 0 => g[k] < LineAt(w, x)
        /\ \A x \in DOMAIN t : x \in Blocks /\ w.s.lines[x] # 0 /\ t[x] = LineAt(w, x)
    BY <1>7 DEF InOrder
  <2>2. \A x \in Blocks : w.s.lines[x] # 0 =>
           /\ v.s.lines[x] = w.s.lines[x] /\ w.s.lines[x] \in Blocks /\ w.s.lines[x] # b
           /\ LineAt(v, x) = LineAt(w, x) /\ v.linemem.count[v.s.lines[x]] = 1
    <3> TAKE x \in Blocks
    <3> HAVE w.s.lines[x] # 0
    <3>1. w.s.lines[x] \in Blocks /\ w.s.lines[x] # b /\ x # i  BY <1>2, <1>4, <2>1
    <3> QED  BY <1>3, <2>1, <3>1 DEF LineAt
  <2>3. LineAt(v, i) = w.made + 1 /\ v.linemem.count[v.s.lines[i]] = 1 /\ v.s.lines[i] = b  BY <1>3 DEF LineAt
  <2>4. \A x \in Blocks : v.s.lines[x] # 0 => x = i \/ w.s.lines[x] # 0  BY <1>3
  <2>5. \A x \in Blocks : w.s.lines[x] # 0 => LineAt(w, x) \in Nat /\ LineAt(w, x) <= w.made
    BY <1>1, <1>4 DEF LineAt
  <2>6. ASSUME NEW x \in Blocks, NEW y \in Blocks, x < y, v.s.lines[y] # 0
        PROVE  LineAt(v, x) < LineAt(v, y)
    <3>4. x \in Nat /\ y \in Nat /\ i \in Nat  BY <1>4
    <3>5. y <= i  BY <1>5, <2>6
    <3>1. y <= i /\ x < i /\ w.s.lines[x] # 0
      <4>1. x < i  BY <2>6, <3>4, <3>5
      <4> QED  BY <1>5, <3>5, <4>1
    <3>2. CASE y = i  BY <1>4, <2>2, <2>3, <2>5, <3>1, <3>2
    <3>3. CASE y # i  BY <2>1, <2>2, <2>4, <2>6, <3>1, <3>3
    <3> QED  BY <3>2, <3>3
  <2>7. \A x \in Blocks : v.s.lines[x] # 0 => v.linemem.count[v.s.lines[x]] = 1
    BY <2>2, <2>3, <2>4
  <2>8. ASSUME NEW k \in DOMAIN g
        PROVE  /\ g[k] \in Nat /\ g[k] <= v.made
               /\ \A x \in Blocks : v.s.lines[x] # 0 => g[k] < LineAt(v, x)
    <3>1. g[k] \in Nat /\ g[k] <= w.made  BY <2>1
    <3>2. g[k] < w.made + 1 /\ g[k] <= w.made + 1
      BY <1>4, <3>1
    <3>3. ASSUME NEW x \in Blocks, v.s.lines[x] # 0 PROVE g[k] < LineAt(v, x)
      BY <2>1, <2>2, <2>3, <2>4, <3>2, <3>3
    <3> QED  BY <1>2, <3>1, <3>2, <3>3
  <2>9. \A x \in DOMAIN t : x \in Blocks /\ v.s.lines[x] # 0 /\ t[x] = LineAt(v, x)
    BY <1>4, <2>1, <2>2
  <2> QED  BY <2>6, <2>7, <2>8, <2>9 DEF InOrder
<1>8. ASSUME NoneLost(w) PROVE NoneLost(v)
  <2> SUFFICES ASSUME NEW x \in Blocks, v.linemem.count[x] = 1 PROVE \E j \in Blocks : v.s.lines[j] = x
    BY DEF NoneLost
  <2>1. CASE x = b  BY <1>3, <2>1
  <2>2. CASE x # b
    <3>1. w.linemem.count[x] = 1  BY <1>3, <2>2
    <3>2. PICK j \in Blocks : w.s.lines[j] = x  BY <1>8, <3>1 DEF NoneLost
    <3>3. j # i  BY <1>2, <1>4, <3>2
    <3> QED  BY <1>3, <3>2, <3>3
  <2> QED  BY <2>1, <2>2
<1>9. v.made >= w.made /\ \A j \in Blocks : w.s.lines[j] # 0 => v.s.lines[j] # 0
  BY <1>2, <1>3, <1>4
<1> QED  BY <1>2, <1>6, <1>7, <1>8, <1>9 DEF PutsOut

LEMMA SendlineKeeps ==
  ASSUME NEW w, ListOK(w), NEW g, NEW t
  PROVE  PutsOut(w, sendline(w), g, t)
<1>1. w \in TelnetdWork  BY DEF ListOK
<1>2. CASE sendline(w) = w  BY <1>2, PutsNone
<1>3. CASE \E b, i \in Blocks : Adds(w, b, i, sendline(w))
  <2>1. PICK v : v = sendline(w)  OBVIOUS
  <2>2. PICK b \in Blocks, i \in Blocks : Adds(w, b, i, v)  BY <1>3, <2>1
  <2> QED  BY <2>1, <2>2, AddsOrder
<1> QED  BY <1>1, <1>2, <1>3, SendlineIs

(* Some lines, one after the other. *)
OutRun(run, w, n) ==
  run[0] = w /\ (\A k \in 1..n : run[k] = sendline(run[k - 1])) /\ shell_output(w, n) = run[n]

LEMMA OutputRun ==
  ASSUME NEW w, NEW L \in Nat
  PROVE  \E run : OutRun(run, w, L)
<1> DEFINE Runs(f, n) == f = [i \in 0..n |-> IF i = 0 THEN w ELSE sendline(f[i - 1])]
           S == {n \in Nat : \E f : Runs(f, n)}
           run == CHOOSE f : Runs(f, L)
<1>1. 0 \in S
  <2>1. Runs([i \in 0..0 |-> w], 0)  OBVIOUS
  <2> QED  BY <2>1
<1>2. ASSUME NEW n \in Nat, n \in S PROVE n + 1 \in S
  <2>1. PICK f : Runs(f, n)  BY <1>2
  <2> DEFINE g == [i \in 0..n + 1 |-> IF i = n + 1 THEN sendline(f[n]) ELSE f[i]]
  <2>2. ASSUME NEW i \in 0..n + 1
        PROVE  g[i] = IF i = 0 THEN w ELSE sendline(g[i - 1])
    <3>1. CASE i = n + 1
      <4>1. n \in 0..n + 1 /\ n # n + 1 /\ i - 1 = n /\ i # 0  BY <3>1
      <4>2. g[n] = f[n] /\ g[n + 1] = sendline(f[n])  BY <4>1
      <4> HIDE DEF g
      <4> QED  BY <3>1, <4>1, <4>2
    <3>2. CASE i # n + 1
      <4>1. i \in 0..n /\ i - 1 # n + 1 /\ (i # 0 => i - 1 \in 0..n + 1)  BY <3>2
      <4>2. g[i] = f[i] /\ (i # 0 => g[i - 1] = f[i - 1])  BY <4>1, <3>2
      <4>3. f[i] = IF i = 0 THEN w ELSE sendline(f[i - 1])  BY <2>1, <4>1
      <4> HIDE DEF g
      <4> QED  BY <4>2, <4>3
    <3> QED  BY <3>1, <3>2
  <2>3. Runs(g, n + 1)  BY <2>2
  <2>4. \E h : Runs(h, n + 1)
    <3> HIDE DEF g, Runs
    <3> QED  BY <2>3
  <2> HIDE DEF Runs
  <2> QED  BY <2>4
<1>3. L \in S
  <2>1. \A n \in Nat : n \in S => n + 1 \in S  BY <1>2
  <2> HIDE DEF S
  <2>2. \A n \in Nat : n \in S  BY <1>1, <2>1, SetInduction
  <2> QED  BY <2>2
<1>4. Runs(run, L)
  <2>1. \E f : Runs(f, L)  BY <1>3
  <2> HIDE DEF Runs
  <2> QED  BY <2>1
<1>5. shell_output(w, L) = run[L]  BY DEF shell_output
<1> HIDE DEF run
<1>6. OutRun(run, w, L)  BY <1>4, <1>5 DEF OutRun
<1> QED  BY <1>6

LEMMA OutputKeeps ==
  ASSUME NEW w, ListOK(w), NEW n \in Nat, NEW g, NEW t
  PROVE  PutsOut(w, shell_output(w, n), g, t)
<1>1. PICK run : OutRun(run, w, n)  BY OutputRun
<1> DEFINE S == {k \in Nat : k <= n => PutsOut(w, run[k], g, t)}
<1>2. 0 \in S  BY <1>1, PutsNone DEF OutRun
<1>3. ASSUME NEW k \in Nat, k \in S PROVE k + 1 \in S
  <2> SUFFICES ASSUME k + 1 <= n PROVE PutsOut(w, run[k + 1], g, t)  OBVIOUS
  <2>1. k <= n /\ k + 1 \in 1..n /\ (k + 1) - 1 = k  OBVIOUS
  <2>2. PutsOut(w, run[k], g, t)  BY <1>3, <2>1
  <2>3. run[k + 1] = sendline(run[k])  BY <1>1, <2>1 DEF OutRun
  <2>4. ListOK(run[k])  BY <2>2 DEF PutsOut
  <2>5. PutsOut(run[k], run[k + 1], g, t)  BY <2>3, <2>4, SendlineKeeps
  <2>6. w \in TelnetdWork  BY DEF ListOK
  <2> QED  BY <2>2, <2>5, <2>6, PutsOutTwice
<1>4. n \in S
  <2>1. \A k \in Nat : k \in S => k + 1 \in S  BY <1>3
  <2> HIDE DEF S
  <2> QED  BY <1>2, <2>1, SetInduction
<1> QED  BY <1>1, <1>4 DEF OutRun

(* What the parser remembers is no line. *)
LEMMA SetsState ==
  ASSUME NEW w, ListOK(w), NEW st \in {"NORMAL", "IAC", "WILL", "CLOSE"}, NEW g, NEW t
  PROVE  PutsOut(w, [w EXCEPT !.s.state = st], g, t)
<1>1. w \in TelnetdWork /\ w.s \in TelnetdStates  BY DEF ListOK, TelnetdWork
<1>2. PICK q \in TelnetdStates : q = [w.s EXCEPT !.state = st]  BY <1>1 DEF TelnetdStates
<1>3. q.lines = w.s.lines /\ q.numsent = w.s.numsent  BY <1>1, <1>2 DEF TelnetdStates
<1>4. PICK v : v = [w EXCEPT !.s = q]  OBVIOUS
<1>5. v \in TelnetdWork /\ SameLines(w, v)  BY <1>1, <1>3, <1>4 DEF TelnetdWork, SameLines
<1>6. v = [w EXCEPT !.s.state = st]  BY <1>2, <1>4
<1> QED  BY <1>5, <1>6, PutsSame

LEMMA SetsBuffer ==
  ASSUME NEW w, ListOK(w), NEW p \in 0..LINELEN - 1, NEW f \in Chars, NEW g, NEW t
  PROVE  PutsOut(w, [w EXCEPT !.s.bufptr = p, !.s.first = f], g, t)
<1>1. w \in TelnetdWork /\ w.s \in TelnetdStates  BY DEF ListOK, TelnetdWork
<1>2. PICK q : q = [w.s EXCEPT !.bufptr = p, !.first = f]  OBVIOUS
<1>3. q \in TelnetdStates /\ q.lines = w.s.lines /\ q.numsent = w.s.numsent
  BY <1>1, <1>2 DEF TelnetdStates
<1>4. PICK v : v = [w EXCEPT !.s = q]  OBVIOUS
<1>5. v \in TelnetdWork /\ SameLines(w, v)  BY <1>1, <1>3, <1>4 DEF TelnetdWork, SameLines
<1>6. v = [w EXCEPT !.s.bufptr = p, !.s.first = f]  BY <1>2, <1>4
<1> QED  BY <1>5, <1>6, PutsSame

LEMMA InputKeeps ==
  ASSUME NEW w, ListOK(w), NEW cmd, NEW g, NEW t
  PROVE  PutsOut(w, shell_input(w, cmd), g, t)
<1>1. PICK v : v = (CASE cmd = "help" -> shell_output(w, HelpLines)
                      [] cmd = "exit" -> [w EXCEPT !.s.state = "CLOSE"]
                      [] OTHER        -> shell_output(w, 1))
  OBVIOUS
<1>2. PutsOut(w, v, g, t)
  <2>1. PutsOut(w, shell_output(w, HelpLines), g, t) /\ PutsOut(w, shell_output(w, 1), g, t)
    BY OutputKeeps, TelnetdConsts
  <2>2. PutsOut(w, [w EXCEPT !.s.state = "CLOSE"], g, t)  BY SetsState
  <2> QED  BY <1>1, <2>1, <2>2
<1>3. ListOK(v) /\ w \in TelnetdWork  BY <1>2 DEF PutsOut, ListOK
<1>4. PutsOut(v, sendline(v), g, t)  BY <1>3, SendlineKeeps
<1>5. shell_input(w, cmd) = sendline(v)  BY <1>1 DEF shell_input
<1> QED  BY <1>2, <1>3, <1>4, <1>5, PutsOutTwice

LEMMA GetCharKeeps ==
  ASSUME NEW w, ListOK(w), NEW c \in Chars, NEW g, NEW t
  PROVE  PutsOut(w, get_char(w, c), g, t)
<1>1. PICK first : first = IF w.s.bufptr = 0 THEN c ELSE w.s.first  OBVIOUS
<1>2. w \in TelnetdWork /\ w.s \in TelnetdStates  BY DEF ListOK, TelnetdWork
<1>3. first \in Chars /\ w.s.bufptr \in 0..LINELEN - 1  BY <1>1, <1>2 DEF TelnetdStates
<1>4. CASE c = "cr"
  <2>1. get_char(w, c) = w  BY <1>4 DEF get_char
  <2> QED  BY <2>1, PutsNone
<1>5. CASE c # "cr" /\ (c = "nl" \/ w.s.bufptr = LINELEN - 1)
  <2>1. PICK v : v = shell_input(w, first)  OBVIOUS
  <2>2. PutsOut(w, v, g, t)  BY <2>1, InputKeeps
  <2>3. ListOK(v)  BY <2>2 DEF PutsOut
  <2>4. 0 \in 0..LINELEN - 1  BY TelnetdConsts
  <2>5. PutsOut(v, [v EXCEPT !.s.bufptr = 0, !.s.first = first], g, t)
    BY <1>3, <2>3, <2>4, SetsBuffer
  <2>6. get_char(w, c) = [v EXCEPT !.s.bufptr = 0, !.s.first = first]
    BY <1>1, <1>5, <2>1 DEF get_char
  <2> QED  BY <1>2, <2>2, <2>5, <2>6, PutsOutTwice
<1>6. CASE c # "cr" /\ ~(c = "nl" \/ w.s.bufptr = LINELEN - 1)
  <2>1. PICK p : p = w.s.bufptr + 1  OBVIOUS
  <2>2. p \in 0..LINELEN - 1  BY <1>3, <1>6, <2>1, TelnetdConsts
  <2>3. get_char(w, c) = [w EXCEPT !.s.bufptr = p, !.s.first = first]
    BY <1>1, <1>6, <2>1 DEF get_char
  <2>4. PutsOut(w, [w EXCEPT !.s.bufptr = p, !.s.first = first], g, t)  BY <1>3, <2>2, SetsBuffer
  <2> QED  BY <2>3, <2>4
<1> QED  BY <1>4, <1>5, <1>6

LEMMA TakeCharKeeps ==
  ASSUME NEW w, ListOK(w), NEW c \in Chars, NEW g, NEW t
  PROVE  PutsOut(w, TakeChar(w, c), g, t)
<1>1. w \in TelnetdWork  BY DEF ListOK
<1>2. PutsOut(w, get_char(w, c), g, t)  BY GetCharKeeps
<1>3. PICK v : v = get_char(w, c)  OBVIOUS
<1>4. PICK u : u = sendline(w)  OBVIOUS
<1>5. PutsOut(w, u, g, t)  BY <1>4, SendlineKeeps
<1>6. PutsOut(w, [v EXCEPT !.s.state = "NORMAL"], g, t)
  <2>1. ListOK(v)  BY <1>2, <1>3 DEF PutsOut
  <2>2. PutsOut(v, [v EXCEPT !.s.state = "NORMAL"], g, t)  BY <2>1, SetsState
  <2> QED  BY <1>1, <1>2, <1>3, <2>2, PutsOutTwice
<1>7. PutsOut(w, [u EXCEPT !.s.state = "NORMAL"], g, t)
  <2>1. ListOK(u)  BY <1>5 DEF PutsOut
  <2>2. PutsOut(u, [u EXCEPT !.s.state = "NORMAL"], g, t)  BY <2>1, SetsState
  <2> QED  BY <1>1, <1>5, <2>2, PutsOutTwice
<1>8. PutsOut(w, [w EXCEPT !.s.state = "IAC"], g, t)  BY SetsState
<1>9. PICK st \in {"NORMAL", "IAC", "WILL", "CLOSE"} : st = IF c = "will" THEN "WILL" ELSE "NORMAL"
  OBVIOUS
<1>10. PutsOut(w, [w EXCEPT !.s.state = st], g, t)  BY SetsState
<1>11. PutsOut(w, w, g, t)  BY PutsNone
<1>12. TakeChar(w, c) \in {[w EXCEPT !.s.state = "IAC"], get_char(w, c), [v EXCEPT !.s.state = "NORMAL"],
                           [w EXCEPT !.s.state = st], [u EXCEPT !.s.state = "NORMAL"], w}
  BY <1>3, <1>4, <1>9 DEF TakeChar
<1> QED  BY <1>2, <1>6, <1>7, <1>8, <1>10, <1>11, <1>12

(* The characters of a segment, one after the other. *)
CharRun(run, w, chars) ==
  run[0] = w /\ (\A k \in 1..Len(chars) : run[k] = TakeChar(run[k - 1], chars[k]))
             /\ newdata(w, chars) = run[Len(chars)]

LEMMA CharsRun ==
  ASSUME NEW w, NEW chars, Len(chars) \in Nat
  PROVE  \E run : CharRun(run, w, chars)
<1> DEFINE L == Len(chars)
           Runs(f, n) == f = [i \in 0..n |-> IF i = 0 THEN w ELSE TakeChar(f[i - 1], chars[i])]
           S == {n \in Nat : \E f : Runs(f, n)}
           run == CHOOSE f : Runs(f, L)
<1>1. 0 \in S
  <2>1. Runs([i \in 0..0 |-> w], 0)  OBVIOUS
  <2> QED  BY <2>1
<1>2. ASSUME NEW n \in Nat, n \in S PROVE n + 1 \in S
  <2>1. PICK f : Runs(f, n)  BY <1>2
  <2> DEFINE g == [i \in 0..n + 1 |-> IF i = n + 1 THEN TakeChar(f[n], chars[n + 1]) ELSE f[i]]
  <2>2. ASSUME NEW i \in 0..n + 1
        PROVE  g[i] = IF i = 0 THEN w ELSE TakeChar(g[i - 1], chars[i])
    <3>1. CASE i = n + 1
      <4>1. n \in 0..n + 1 /\ n # n + 1 /\ i - 1 = n /\ i # 0  BY <3>1
      <4>2. g[n] = f[n] /\ g[n + 1] = TakeChar(f[n], chars[n + 1])  BY <4>1
      <4> HIDE DEF g
      <4> QED  BY <3>1, <4>1, <4>2
    <3>2. CASE i # n + 1
      <4>1. i \in 0..n /\ i - 1 # n + 1 /\ (i # 0 => i - 1 \in 0..n + 1)  BY <3>2
      <4>2. g[i] = f[i] /\ (i # 0 => g[i - 1] = f[i - 1])  BY <4>1, <3>2
      <4>3. f[i] = IF i = 0 THEN w ELSE TakeChar(f[i - 1], chars[i])  BY <2>1, <4>1
      <4> HIDE DEF g
      <4> QED  BY <4>2, <4>3
    <3> QED  BY <3>1, <3>2
  <2>3. Runs(g, n + 1)  BY <2>2
  <2>4. \E h : Runs(h, n + 1)
    <3> HIDE DEF g, Runs
    <3> QED  BY <2>3
  <2> HIDE DEF Runs
  <2> QED  BY <2>4
<1>3. L \in S
  <2>1. L \in Nat /\ \A n \in Nat : n \in S => n + 1 \in S  BY <1>2
  <2> HIDE DEF S, L
  <2>2. \A n \in Nat : n \in S  BY <1>1, <2>1, SetInduction
  <2> QED  BY <2>1, <2>2
<1>4. Runs(run, L)
  <2>1. \E f : Runs(f, L)  BY <1>3
  <2> HIDE DEF Runs
  <2> QED  BY <2>1
<1>5. newdata(w, chars) = run[L]  BY DEF newdata
<1> HIDE DEF run
<1>6. CharRun(run, w, chars)  BY <1>4, <1>5 DEF CharRun
<1> QED  BY <1>6

LEMMA NewdataKeeps ==
  ASSUME NEW w, ListOK(w), NEW chars \in Seq(STRING), NEW g, NEW t
  PROVE  PutsOut(w, newdata(w, chars), g, t)
<1>1. PICK n \in Nat : n = Len(chars)  OBVIOUS
<1>2. PICK run : CharRun(run, w, chars)  BY <1>1, CharsRun
<1> DEFINE S == {k \in Nat : k <= n => PutsOut(w, run[k], g, t)}
<1>3. 0 \in S  BY <1>2, PutsNone DEF CharRun
<1>4. ASSUME NEW k \in Nat, k \in S PROVE k + 1 \in S
  <2> SUFFICES ASSUME k + 1 <= n PROVE PutsOut(w, run[k + 1], g, t)  OBVIOUS
  <2>1. k <= n /\ k + 1 \in 1..n /\ (k + 1) - 1 = k  OBVIOUS
  <2>2. PutsOut(w, run[k], g, t)  BY <1>4, <2>1
  <2>3. run[k + 1] = TakeChar(run[k], chars[k + 1])  BY <1>1, <1>2, <2>1 DEF CharRun
  <2>4. ListOK(run[k])  BY <2>2 DEF PutsOut
  <2>5. chars[k + 1] \in Chars  BY <1>1, <2>1 DEF Chars
  <2>6. PutsOut(run[k], run[k + 1], g, t)  BY <2>3, <2>4, <2>5, TakeCharKeeps
  <2>7. w \in TelnetdWork  BY DEF ListOK
  <2> QED  BY <2>2, <2>6, <2>7, PutsOutTwice
<1>5. n \in S
  <2>1. \A k \in Nat : k \in S => k + 1 \in S  BY <1>4
  <2> HIDE DEF S
  <2> QED  BY <1>3, <2>1, SetInduction
<1> QED  BY <1>1, <1>2, <1>5 DEF CharRun

-------------------------------------------------------------------------------
(* The first n of s.lines hold lines, and they are all, or fill a segment. *)
Filled(w, n) ==
  /\ n \in 0..PerSegment /\ \A i \in 1..n : i \in Blocks /\ w.s.lines[i] # 0
  /\ n < PerSegment => n + 1 \notin Blocks \/ w.s.lines[n + 1] = 0

(* Lines are sent: numsent is all that changes. *)
CountsSent(w, v) ==
  /\ v \in TelnetdWork /\ v.s.lines = w.s.lines /\ v.linemem = w.linemem /\ v.made = w.made
  /\ v.s.state = w.s.state /\ Filled(v, v.s.numsent)

LEMMA TelnetdSends ==
  ASSUME NEW w \in TelnetdWork
  PROVE  CountsSent(w, senddata(w))
<1> DEFINE empty == {i \in Blocks : w.s.lines[i] = 0} \cup {NUMLINES + 1}
<1>1. /\ Blocks \subseteq Nat /\ NUMLINES \in Nat /\ PerSegment \in Nat /\ Blocks = 1..NUMLINES
  BY TelnetdConsts DEF Blocks
<1>2. empty \in SUBSET Nat /\ empty # {}  BY <1>1
<1>3. PICK m : m = Min(empty)  OBVIOUS
<1>4. m \in empty /\ \A k \in empty : m <= k
  <2> HIDE DEF empty
  <2> QED  BY <1>2, <1>3, MinOf
<1>5. m \in 1..NUMLINES + 1 /\ (m \in Blocks => w.s.lines[m] = 0) /\ (m \notin Blocks => m = NUMLINES + 1)
  BY <1>1, <1>4
<1>6. \A i \in Nat : 1 <= i /\ i < m => i \in Blocks /\ w.s.lines[i] # 0
  <2> SUFFICES ASSUME NEW i \in Nat, 1 <= i, i < m PROVE i \in Blocks /\ w.s.lines[i] # 0
    OBVIOUS
  <2>1. i \in Blocks  BY <1>1, <1>5
  <2>2. i \notin empty  BY <1>1, <1>4, <1>5
  <2> QED  BY <2>1, <2>2
<1>7. PICK used \in Nat : used = m - 1  BY <1>1, <1>5
<1>8. PICK n : n = Min({used, PerSegment})  OBVIOUS
<1>9. n \in {used, PerSegment} /\ n <= used /\ n <= PerSegment /\ n \in Nat
  <2>1. {used, PerSegment} \in SUBSET Nat /\ {used, PerSegment} # {}  BY <1>1
  <2>2. n \in {used, PerSegment} /\ \A k \in {used, PerSegment} : n <= k  BY <1>8, <2>1, MinOf
  <2> QED  BY <1>1, <2>2
<1>10. PICK v : v = senddata(w)  OBVIOUS
<1>11. v = [w EXCEPT !.s.numsent = n]  BY <1>3, <1>7, <1>8, <1>10 DEF senddata
<1>12. n \in 0..PerSegment  BY <1>1, <1>9
<1>13. PICK q : q = [w.s EXCEPT !.numsent = n]  OBVIOUS
<1>14. /\ q \in TelnetdStates /\ q.lines = w.s.lines /\ q.state = w.s.state /\ q.numsent = n
  BY <1>12, <1>13 DEF TelnetdWork, TelnetdStates
<1>15. v = [w EXCEPT !.s = q]  BY <1>11, <1>13
<1>16. v \in TelnetdWork /\ v.s = q /\ v.linemem = w.linemem /\ v.made = w.made
  BY <1>14, <1>15 DEF TelnetdWork
<1>17. \A i \in 1..n : i \in Blocks /\ w.s.lines[i] # 0
  <2>1. \A i \in 1..n : i \in Nat /\ 1 <= i /\ i < m  BY <1>1, <1>5, <1>7, <1>9
  <2> QED  BY <1>6, <2>1
<1>18. n < PerSegment => n + 1 \notin Blocks \/ w.s.lines[n + 1] = 0
  <2> SUFFICES ASSUME n < PerSegment, n + 1 \in Blocks PROVE w.s.lines[n + 1] = 0
    OBVIOUS
  <2>1. n = used /\ n + 1 = m  BY <1>1, <1>5, <1>7, <1>9
  <2> QED  BY <1>5, <2>1
<1> QED  BY <1>10, <1>12, <1>14, <1>16, <1>17, <1>18 DEF CountsSent, Filled

(* How many lines are sent next is determined by s.lines. *)
LEMMA FilledOnce ==
  ASSUME NEW w, NEW a, NEW b, Filled(w, a), Filled(w, b)
  PROVE  a = b
<1>1. a \in Nat /\ b \in Nat /\ a <= PerSegment /\ b <= PerSegment /\ PerSegment \in Nat
  BY TelnetdConsts DEF Filled
<1>2. ~(a < b)
  <2> SUFFICES ASSUME a < b PROVE FALSE  OBVIOUS
  <2>1. a < PerSegment /\ a + 1 \in 1..b  BY <1>1
  <2> QED  BY <2>1 DEF Filled
<1>3. ~(b < a)
  <2> SUFFICES ASSUME b < a PROVE FALSE  OBVIOUS
  <2>1. b < PerSegment /\ b + 1 \in 1..a  BY <1>1
  <2> QED  BY <2>1 DEF Filled
<1> QED  BY <1>1, <1>2, <1>3

LEMMA CountedKeeps ==
  ASSUME NEW w, NEW v, ListOK(w), CountsSent(w, v), NEW g, NEW t
  PROVE  /\ ListOK(v) /\ CanSend(v)
         /\ InOrder(w, g, t) => InOrder(v, g, t)
         /\ NoneLost(w) => NoneLost(v)
<1>1. v.s.lines = w.s.lines /\ v.linemem = w.linemem /\ v.made = w.made /\ v \in TelnetdWork
  BY DEF CountsSent
<1>2. ListOK(v)  BY <1>1 DEF ListOK
<1>3. CanSend(v)  BY DEF CountsSent, Filled, CanSend
<1>4. InOrder(w, g, t) => InOrder(v, g, t)  BY <1>1 DEF InOrder, LineAt
<1>5. NoneLost(w) => NoneLost(v)  BY <1>1 DEF NoneLost
<1> QED  BY <1>2, <1>3, <1>4, <1>5

-------------------------------------------------------------------------------
(* What acked does with n lines. *)
Acks(w, v) ==
  /\ v \in TelnetdWork /\ v.s.numsent = 0 /\ v.made = w.made /\ v.linemem.text = w.linemem.text
  /\ \A b \in Blocks : v.linemem.count[b] =
       IF \E i \in 1..w.s.numsent : w.s.lines[i] = b THEN 0 ELSE w.linemem.count[b]
  /\ \A i \in Blocks : v.s.lines[i] =
       IF i + w.s.numsent \in Blocks THEN w.s.lines[i + w.s.numsent] ELSE 0

LEMMA FreedIs ==
  ASSUME NEW w \in TelnetdWork, NEW B, NEW v, v = memb_free(w, B)
  PROVE  /\ v \in TelnetdWork /\ v.s = w.s /\ v.made = w.made /\ v.linemem.text = w.linemem.text
         /\ \A b \in Blocks : v.linemem.count[b] = IF b \in B THEN 0 ELSE w.linemem.count[b]
<1>1. PICK C : C = [b \in Blocks |-> IF b \in B THEN 0 ELSE w.linemem.count[b]]  OBVIOUS
<1>2. C \in [Blocks -> 0..1]  BY <1>1 DEF TelnetdWork
<1>3. PICK m : m = [w.linemem EXCEPT !.count = C]  OBVIOUS
<1>4. m \in [count : [Blocks -> 0..1], text : [Blocks -> Nat]] /\ m.count = C /\ m.text = w.linemem.text
  BY <1>2, <1>3 DEF TelnetdWork
<1>5. v = [w EXCEPT !.linemem = m]  BY <1>1, <1>3 DEF memb_free
<1>6. v \in TelnetdWork /\ v.s = w.s /\ v.made = w.made /\ v.linemem = m
  BY <1>4, <1>5 DEF TelnetdWork
<1> QED  BY <1>1, <1>4, <1>6

LEMMA TelnetdAcks ==
  ASSUME NEW w \in TelnetdWork
  PROVE  Acks(w, acked(w))
<1>1. PICK n \in Nat : n = w.s.numsent  BY DEF TelnetdWork, TelnetdStates
<1>2. PICK B : B = {w.s.lines[i] : i \in 1..n}  OBVIOUS
<1>3. PICK u : u = memb_free(w, B)  OBVIOUS
<1>4. /\ u \in TelnetdWork /\ u.s = w.s /\ u.made = w.made /\ u.linemem.text = w.linemem.text
      /\ \A b \in Blocks : u.linemem.count[b] = IF b \in B THEN 0 ELSE w.linemem.count[b]
  BY <1>3, FreedIs
<1>5. PICK L : L = [i \in Blocks |-> IF i + n \in Blocks THEN w.s.lines[i + n] ELSE 0]  OBVIOUS
<1>6. L \in [Blocks -> Blocks \cup {0}]
  <2>1. \A i \in Blocks : L[i] \in Blocks \cup {0}  BY <1>5 DEF TelnetdWork, TelnetdStates
  <2>2. L = [i \in Blocks |-> L[i]]  BY <1>5
  <2> QED  BY <2>1, <2>2
<1>7. PICK v : v = acked(w)  OBVIOUS
<1>8. PICK q : q = [u.s EXCEPT !.lines = L, !.numsent = 0]  OBVIOUS
<1>9. v = [u EXCEPT !.s = q]
  <2>1. v = [u EXCEPT !.s.lines = [i \in Blocks |-> IF i + n \in Blocks THEN u.s.lines[i + n] ELSE 0],
                      !.s.numsent = 0]
    BY <1>1, <1>2, <1>3, <1>7 DEF acked
  <2>2. v = [u EXCEPT !.s.lines = L, !.s.numsent = 0]  BY <1>4, <1>5, <2>1
  <2> QED  BY <1>8, <2>2
<1>10. q \in TelnetdStates /\ q.lines = L /\ q.numsent = 0
  <2>1. u.s \in TelnetdStates /\ 0 \in 0..PerSegment  BY <1>4, TelnetdConsts DEF TelnetdWork
  <2> QED  BY <1>6, <1>8, <2>1 DEF TelnetdStates
<1>11. v \in TelnetdWork /\ v.s = q /\ v.made = u.made /\ v.linemem = u.linemem
  BY <1>4, <1>9, <1>10 DEF TelnetdWork
<1>12. \A b \in Blocks : b \in B <=> \E i \in 1..n : w.s.lines[i] = b  BY <1>2
<1> QED  BY <1>1, <1>4, <1>5, <1>7, <1>10, <1>11, <1>12 DEF Acks

(* The lines sent were the client's: it has them, and those that are left  *)
(* come after them.                                                        *)
LEMMA AcksKeeps ==
  ASSUME NEW w, NEW v, ListOK(w), CanSend(w), Acks(w, v),
         NEW g \in Seq(Nat), NEW t \in Seq(Nat)
  PROVE  /\ ListOK(v)
         /\ InOrder(w, g, t) /\ Len(t) <= w.s.numsent => InOrder(v, g \o t, <<>>)
         /\ InOrder(w, g, t) /\ NoneLost(w) => NoneLost(v)
<1>1. PICK n \in Nat : n = w.s.numsent  BY DEF ListOK, TelnetdWork, TelnetdStates
<1>2. /\ w \in TelnetdWork /\ v \in TelnetdWork
      /\ \A x \in Blocks : w.linemem.text[x] <= w.made
      /\ \A x, y \in Blocks : x < y /\ w.s.lines[x] = 0 => w.s.lines[y] = 0
      /\ \A x \in Blocks : w.s.lines[x] # 0 => w.linemem.text[w.s.lines[x]] >= 1
  BY DEF ListOK, Acks
<1>3. /\ v.s.numsent = 0 /\ v.made = w.made /\ v.linemem.text = w.linemem.text
      /\ \A b \in Blocks : v.linemem.count[b] =
           IF \E i \in 1..n : w.s.lines[i] = b THEN 0 ELSE w.linemem.count[b]
      /\ \A i \in Blocks : v.s.lines[i] = IF i + n \in Blocks THEN w.s.lines[i + n] ELSE 0
  BY <1>1 DEF Acks
<1>4. Blocks \subseteq Nat /\ Blocks = 1..NUMLINES /\ NUMLINES \in Nat  BY TelnetdConsts DEF Blocks
<1>5. \A i \in Blocks : v.s.lines[i] # 0 => i + n \in Blocks /\ v.s.lines[i] = w.s.lines[i + n]
  BY <1>3
<1>6. ListOK(v)
  <2>1. \A x \in Blocks : v.linemem.text[x] <= v.made  BY <1>2, <1>3
  <2>2. ASSUME NEW x \in Blocks, NEW y \in Blocks, x < y, v.s.lines[x] = 0 PROVE v.s.lines[y] = 0
    <3>1. CASE y + n \notin Blocks  BY <1>3, <3>1
    <3>2. CASE y + n \in Blocks
      <4>1. x + n \in Blocks /\ x + n < y + n  BY <1>4, <2>2, <3>2
      <4>2. w.s.lines[x + n] = 0  BY <1>3, <2>2, <4>1
      <4>3. w.s.lines[y + n] = 0  BY <1>2, <3>2, <4>1, <4>2
      <4> QED  BY <1>3, <3>2, <4>3
    <3> QED  BY <3>1, <3>2
  <2>3. \A x \in Blocks : v.s.lines[x] # 0 => v.linemem.text[v.s.lines[x]] >= 1
    BY <1>2, <1>3, <1>5
  <2> QED  BY <1>2, <2>1, <2>2, <2>3 DEF ListOK
<1>7. \A i \in Blocks : v.s.lines[i] # 0 => LineAt(v, i) = LineAt(w, i + n)
  BY <1>3, <1>5 DEF LineAt
<1>8. \A i \in 1..n : i \in Blocks /\ w.s.lines[i] # 0  BY <1>1 DEF CanSend
<1>9. ASSUME InOrder(w, g, t)
      PROVE  \A i, j \in Blocks : i < j /\ w.s.lines[j] # 0 => LineAt(w, i) < LineAt(w, j)
  BY <1>9 DEF InOrder
<1>10. \A i \in Blocks : w.s.lines[i] # 0 => LineAt(w, i) \in Nat /\ LineAt(w, i) <= w.made /\ w.made \in Nat
                                            /\ w.s.lines[i] \in Blocks
  BY <1>2 DEF LineAt, TelnetdWork, TelnetdStates
<1>11. ASSUME InOrder(w, g, t), NEW i \in 1..n, NEW j \in Blocks, v.s.lines[j] # 0
       PROVE  w.s.lines[i] # v.s.lines[j]
  <2>1. i \in Blocks /\ j + n \in Blocks /\ i < j + n  BY <1>4, <1>5, <1>8, <1>11
  <2>2. w.s.lines[j + n] # 0 /\ v.s.lines[j] = w.s.lines[j + n]  BY <1>5, <1>11
  <2>3. LineAt(w, i) < LineAt(w, j + n)  BY <1>9, <1>11, <2>1, <2>2
  <2>4. w.s.lines[i] # 0  BY <1>8
  <2>5. LineAt(w, i) # LineAt(w, j + n)  BY <1>10, <2>1, <2>2, <2>3, <2>4
  <2> QED  BY <2>2, <2>5 DEF LineAt
<1>12. ASSUME InOrder(w, g, t), Len(t) <= n PROVE InOrder(v, g \o t, <<>>)
  <2>1. /\ \A x \in Blocks : w.s.lines[x] # 0 => w.linemem.count[w.s.lines[x]] = 1
        /\ \A k \in DOMAIN g : /\ g[k] \in Nat /\ g[k] <= w.made
                              /\ \A x \in Blocks : w.s.lines[x] # 0 => g[k] < LineAt(w, x)
        /\ \A x \in DOMAIN t : x \in Blocks /\ w.s.lines[x] # 0 /\ t[x] = LineAt(w, x)
    BY <1>12 DEF InOrder
  <2>2. ASSUME NEW i \in Blocks, NEW j \in Blocks, i < j, v.s.lines[j] # 0 PROVE LineAt(v, i) < LineAt(v, j)
    <3>1. j + n \in Blocks /\ w.s.lines[j + n] # 0  BY <1>5, <2>2
    <3>2. i + n \in Blocks /\ i + n < j + n  BY <1>4, <2>2, <3>1
    <3>3. v.s.lines[i] = w.s.lines[i + n]  BY <1>3, <3>2
    <3>4. LineAt(v, i) = LineAt(w, i + n)  BY <1>3, <3>3 DEF LineAt
    <3> QED  BY <1>7, <1>9, <1>12, <2>2, <3>1, <3>2, <3>4
  <2>3. ASSUME NEW i \in Blocks, v.s.lines[i] # 0 PROVE v.linemem.count[v.s.lines[i]] = 1
    <3>1. i + n \in Blocks /\ w.s.lines[i + n] # 0 /\ v.s.lines[i] = w.s.lines[i + n]  BY <1>5, <2>3
    <3>2. v.s.lines[i] \in Blocks  BY <1>10, <3>1
    <3>3. w.linemem.count[v.s.lines[i]] = 1  BY <2>1, <3>1
    <3>4. ~\E x \in 1..n : w.s.lines[x] = v.s.lines[i]  BY <1>11, <1>12, <2>3
    <3> QED  BY <1>3, <3>2, <3>3, <3>4
  <2>4. ASSUME NEW k \in DOMAIN (g \o t)
        PROVE  /\ (g \o t)[k] \in Nat /\ (g \o t)[k] <= v.made
               /\ \A i \in Blocks : v.s.lines[i] # 0 => (g \o t)[k] < LineAt(v, i)
    <3>1. k \in 1..Len(g) + Len(t) /\ Len(g) \in Nat /\ Len(t) \in Nat  OBVIOUS
    <3>2. CASE k <= Len(g)
      <4>1. k \in DOMAIN g /\ (g \o t)[k] = g[k]  BY <3>1, <3>2
      <4> QED  BY <1>3, <1>5, <1>7, <2>1, <4>1
    <3>3. CASE k > Len(g)
      <4>1. PICK x : x = k - Len(g)  OBVIOUS
      <4>2. x \in DOMAIN t /\ (g \o t)[k] = t[x] /\ x \in 1..n  BY <1>12, <3>1, <3>3, <4>1
      <4>3. t[x] = LineAt(w, x) /\ x \in Blocks /\ w.s.lines[x] # 0  BY <2>1, <4>2
      <4>4. t[x] \in Nat /\ t[x] <= v.made  BY <1>3, <1>10, <4>3
      <4>5. ASSUME NEW i \in Blocks, v.s.lines[i] # 0 PROVE t[x] < LineAt(v, i)
        <5>1. i + n \in Blocks /\ w.s.lines[i + n] # 0 /\ LineAt(v, i) = LineAt(w, i + n)
          BY <1>5, <1>7, <4>5
        <5>2. x < i + n  BY <1>4, <4>2, <4>5
        <5> QED  BY <1>9, <1>12, <4>3, <5>1, <5>2
      <4> QED  BY <4>2, <4>4, <4>5
    <3> QED  BY <3>1, <3>2, <3>3
  <2>5. DOMAIN <<>> = {}  OBVIOUS
  <2> QED  BY <2>2, <2>3, <2>4, <2>5 DEF InOrder
<1>13. ASSUME InOrder(w, g, t), NoneLost(w) PROVE NoneLost(v)
  <2> SUFFICES ASSUME NEW b \in Blocks, v.linemem.count[b] = 1 PROVE \E j \in Blocks : v.s.lines[j] = b
    BY DEF NoneLost
  <2>1. w.linemem.count[b] = 1 /\ ~\E x \in 1..n : w.s.lines[x] = b  BY <1>3
  <2>2. PICK i \in Blocks : w.s.lines[i] = b  BY <1>13, <2>1 DEF NoneLost
  <2>3. i \notin 1..n  BY <2>1, <2>2
  <2>4. PICK j : j = i - n  OBVIOUS
  <2>5. j \in Blocks /\ j + n = i  BY <1>4, <2>3, <2>4
  <2> QED  BY <1>3, <2>2, <2>5
<1> QED  BY <1>1, <1>6, <1>12, <1>13

-------------------------------------------------------------------------------
(* At an end, all blocks in s.lines are given back, and the list stays. *)
LEMMA ClosedKeeps ==
  ASSUME NEW w, ListOK(w), CanSend(w), NEW v, v = closed(w)
  PROVE  /\ ListOK(v) /\ CanSend(v) /\ v.s = w.s /\ v.made = w.made
         /\ NoneLost(w) => \A b \in Blocks : v.linemem.count[b] = 0
         /\ (\A b \in Blocks : w.linemem.count[b] = 0) => \A b \in Blocks : v.linemem.count[b] = 0
<1>1. PICK B : B = {w.s.lines[i] : i \in Blocks}  OBVIOUS
<1>2. w \in TelnetdWork /\ v = memb_free(w, B)  BY <1>1 DEF ListOK, closed
<1>3. /\ v \in TelnetdWork /\ v.s = w.s /\ v.made = w.made /\ v.linemem.text = w.linemem.text
      /\ \A b \in Blocks : v.linemem.count[b] = IF b \in B THEN 0 ELSE w.linemem.count[b]
  BY <1>2, FreedIs
<1>4. ListOK(v) /\ CanSend(v)  BY <1>3 DEF ListOK, CanSend
<1>5. ASSUME NoneLost(w), NEW b \in Blocks PROVE v.linemem.count[b] = 0
  <2>1. w.linemem.count[b] \in 0..1  BY <1>2 DEF TelnetdWork
  <2>2. w.linemem.count[b] = 1 => b \in B  BY <1>1, <1>5 DEF NoneLost
  <2> QED  BY <1>3, <2>1, <2>2
<1> QED  BY <1>3, <1>4, <1>5

-------------------------------------------------------------------------------
(* The connections.  A client is there from its SYN to the end of its      *)
(* connection.                                                             *)
TelnetConns ==
  [st : {"none", "open", "lastack", "closing", "over"}, transit : Seq(Nat), got : Seq(Nat)]

Alive(r) == r.st \in {"open", "lastack", "closing"}

Rising(q) == \A i, j \in 1..Len(q) : i < j => q[i] < q[j]

(* What telnetd keeps is for the client that got g and has t in transit;   *)
(* cr: new data came while lines were in transit.                          *)
ForClient(w, g, t, cr) ==
  /\ InOrder(w, g, t) /\ Len(t) <= w.s.numsent
  /\ ~cr /\ t # <<>> => Filled(w, Len(t)) /\ w.s.numsent = Len(t)

(* One client at a time; ig: an end was not looked at. *)
ServesOne(w, conns, cr, ig) ==
  /\ \A c, d \in Clients : Alive(conns[c]) /\ Alive(conns[d]) => c = d
  /\ \A c \in Clients : Rising(conns[c].got \o conns[c].transit)
  /\ \A c \in Clients : conns[c].st = "none" => conns[c].got = <<>> /\ conns[c].transit = <<>>
  /\ \A c \in Clients : conns[c].st = "open" => ForClient(w, conns[c].got, conns[c].transit, cr)
  /\ ~ig => /\ \A c \in Clients : conns[c].st \in {"open", "closing"} => NoneLost(w)
            /\ (\A c \in Clients : conns[c].st \notin {"open", "closing"}) =>
                 \A b \in Blocks : w.linemem.count[b] = 0

LinesKnown(r, n) == \A q \in {r.got, r.transit} : \A i \in DOMAIN q : q[i] \in 1..n

TelnetdInv ==
  /\ ListOK(Works) /\ CanSend(Works)
  /\ tcp \in [Clients -> TelnetConns] /\ \A c \in Clients : LinesKnown(tcp[c], made)
  /\ {crowded, mixed, ignored} \subseteq BOOLEAN
  /\ ~mixed => ServesOne(Works, tcp, crowded, ignored)

LEMMA RisingJoined ==
  ASSUME NEW w, ListOK(w), NEW g \in Seq(Nat), NEW t \in Seq(Nat), InOrder(w, g, t), Rising(g)
  PROVE  Rising(g \o t)
<1>1. /\ \A i, j \in Blocks : i < j /\ w.s.lines[j] # 0 => LineAt(w, i) < LineAt(w, j)
      /\ \A k \in DOMAIN g : \A i \in Blocks : w.s.lines[i] # 0 => g[k] < LineAt(w, i)
      /\ \A i \in DOMAIN t : i \in Blocks /\ w.s.lines[i] # 0 /\ t[i] = LineAt(w, i)
  BY DEF InOrder
<1>2. PICK q \in Seq(Nat) : q = g \o t
  <2>1. g \o t \in Seq(Nat)  BY ConcatProperties
  <2> QED  BY <2>1
<1>3. PICK n \in Nat : n = Len(g)  OBVIOUS
<1>4. Len(q) = n + Len(t) /\ Len(t) \in Nat  BY <1>2, <1>3
<1>5. SUFFICES ASSUME NEW i \in 1..Len(q), NEW j \in 1..Len(q), i < j PROVE q[i] < q[j]
  BY <1>2 DEF Rising
<1>6. CASE j <= n
  <2>1. i \in 1..n /\ j \in 1..n  BY <1>4, <1>5, <1>6
  <2>2. q[i] = g[i] /\ q[j] = g[j]  BY <1>2, <1>3, <2>1
  <2> QED  BY <1>3, <1>5, <2>1, <2>2 DEF Rising
<1>7. CASE j > n
  <2>1. PICK y : y = j - n  OBVIOUS
  <2>2. y \in 1..Len(t) /\ q[j] = t[y]  BY <1>2, <1>3, <1>4, <1>5, <1>7, <2>1
  <2>3. y \in DOMAIN t  BY <2>2
  <2>4. y \in Blocks /\ w.s.lines[y] # 0 /\ q[j] = LineAt(w, y)  BY <1>1, <2>2, <2>3
  <2>5. CASE i <= n
    <3>1. i \in DOMAIN g /\ q[i] = g[i]  BY <1>2, <1>3, <1>4, <2>5
    <3> QED  BY <1>1, <2>4, <3>1
  <2>6. CASE i > n
    <3>1. PICK x : x = i - n  OBVIOUS
    <3>2. x \in 1..Len(t) /\ q[i] = t[x] /\ x < y  BY <1>2, <1>3, <1>4, <1>5, <2>1, <2>6, <3>1
    <3>3. x \in DOMAIN t  BY <3>2
    <3>4. x \in Blocks /\ q[i] = LineAt(w, x)  BY <1>1, <3>2, <3>3
    <3> QED  BY <1>1, <2>4, <3>2, <3>4
  <2> QED  BY <1>4, <2>5, <2>6
<1> QED  BY <1>3, <1>4, <1>6, <1>7

LEMMA RisingFirst ==
  ASSUME NEW g \in Seq(Nat), NEW t \in Seq(Nat), Rising(g \o t)
  PROVE  Rising(g)
<1>1. \A i \in 1..Len(g) : i \in 1..Len(g \o t) /\ (g \o t)[i] = g[i]  OBVIOUS
<1> QED  BY <1>1 DEF Rising

(* What is sent, from a list that was just looked through by senddata. *)
LinesSent(w) == [i \in 1..w.s.numsent |-> w.linemem.text[w.s.lines[i]]]

LEMMA SentIs ==
  ASSUME NEW w \in TelnetdWork
  PROVE  [i \in 1..Min({w.s.numsent, PerSegment}) |-> w.linemem.text[w.s.lines[i]]] = LinesSent(w)
<1>1. PICK n \in Nat : n = w.s.numsent  BY DEF TelnetdWork, TelnetdStates
<1>2. n <= PerSegment /\ PerSegment \in Nat  BY <1>1, TelnetdConsts DEF TelnetdWork, TelnetdStates
<1>3. PICK m : m = Min({n, PerSegment})  OBVIOUS
<1>4. {n, PerSegment} \in SUBSET Nat /\ {n, PerSegment} # {}  BY <1>2
<1>5. m \in {n, PerSegment} /\ m <= n /\ m <= PerSegment  BY <1>3, <1>4, MinOf
<1>6. m = n  BY <1>2, <1>5
<1> QED  BY <1>1, <1>3, <1>6 DEF LinesSent

LEMMA LinesSentAre ==
  ASSUME NEW w, ListOK(w), Filled(w, w.s.numsent), NEW g, NEW cr
  PROVE  /\ LinesSent(w) \in Seq(Nat) /\ Len(LinesSent(w)) = w.s.numsent
         /\ \A i \in 1..w.s.numsent : LinesSent(w)[i] \in 1..w.made
         /\ InOrder(w, g, <<>>) => ForClient(w, g, LinesSent(w), cr)
<1>1. PICK n \in Nat : n = w.s.numsent  BY DEF ListOK, TelnetdWork, TelnetdStates
<1>2. PICK t : t = LinesSent(w)  OBVIOUS
<1>3. t = [i \in 1..n |-> LineAt(w, i)]  BY <1>1, <1>2 DEF LinesSent, LineAt
<1>4. \A i \in 1..n : i \in Blocks /\ w.s.lines[i] # 0  BY <1>1 DEF Filled
<1>5. ASSUME NEW i \in 1..n PROVE LineAt(w, i) \in 1..w.made
  <2>1. i \in Blocks /\ w.s.lines[i] # 0 /\ w.s.lines[i] \in Blocks  
    BY <1>4 DEF ListOK, TelnetdWork, TelnetdStates
  <2>2. LineAt(w, i) \in Nat /\ LineAt(w, i) >= 1 /\ LineAt(w, i) <= w.made /\ w.made \in Nat
    BY <2>1 DEF ListOK, TelnetdWork, LineAt
  <2> QED  BY <2>2
<1>6. w.made \in Nat  BY DEF ListOK, TelnetdWork
<1>7. t \in Seq(Nat) /\ Len(t) = n
  <2>1. \A i \in 1..n : LineAt(w, i) \in Nat  BY <1>5, <1>6
  <2> QED  BY <1>3, <2>1
<1>8. \A i \in 1..n : t[i] \in 1..w.made  BY <1>3, <1>5
<1>9. ASSUME InOrder(w, g, <<>>) PROVE ForClient(w, g, t, cr)
  <2>1. DOMAIN t = 1..n /\ \A i \in 1..n : t[i] = LineAt(w, i)  BY <1>3
  <2>2. InOrder(w, g, t)  BY <1>4, <1>9, <2>1 DEF InOrder
  <2>3. Filled(w, Len(t)) /\ w.s.numsent = Len(t)  BY <1>1, <1>7
  <2> QED  BY <1>1, <1>7, <2>2, <2>3 DEF ForClient
<1> QED  BY <1>1, <1>2, <1>7, <1>8, <1>9

(* What remains in transit does not exceed what was counted anew. *)
LEMMA StillCounted ==
  ASSUME NEW w, ListOK(w), Filled(w, w.s.numsent), NEW g, NEW t \in Seq(Nat), InOrder(w, g, t),
         Len(t) <= PerSegment
  PROVE  Len(t) <= w.s.numsent
<1>1. PICK n \in Nat : n = w.s.numsent  BY DEF ListOK, TelnetdWork, TelnetdStates
<1> SUFFICES ASSUME n < Len(t) PROVE FALSE  BY <1>1
<1>2. n < PerSegment /\ n + 1 \in DOMAIN t  BY <1>1, TelnetdConsts
<1>3. n + 1 \in Blocks /\ w.s.lines[n + 1] # 0  BY <1>2 DEF InOrder
<1> QED  BY <1>1, <1>2, <1>3 DEF Filled

-------------------------------------------------------------------------------
(* What telnetd_appcall does when it sends: from w and the client that got *)
(* g and has t in transit, to v and what that client then got and has.     *)
Served(w, v, g, t, g2, t2, cr, cr2) ==
  /\ ListOK(v) /\ CanSend(v) /\ v.made >= w.made /\ g2 \in Seq(Nat) /\ t2 \in Seq(Nat)
  /\ \A q \in {g2, t2} : \A i \in DOMAIN q : q[i] \in 1..v.made
  /\ ForClient(w, g, t, cr) /\ Rising(g \o t) => ForClient(v, g2, t2, cr2) /\ Rising(g2 \o t2)
  /\ ForClient(w, g, t, cr) /\ NoneLost(w) => NoneLost(v)

(* With an acknowledgement. *)
LEMMA ServedAcked ==
  ASSUME NEW w, ListOK(w), CanSend(w), NEW g \in Seq(Nat), NEW t \in Seq(Nat), NEW cr, NEW cr2,
         \A q \in {g, t} : \A i \in DOMAIN q : q[i] \in 1..w.made,
         NEW u, NEW x, NEW v, u = acked(w), PutsOut(u, x, g \o t, <<>>), v = senddata(x)
  PROVE  Served(w, v, g, t, g \o t, LinesSent(v), cr, cr2)
<1>1. w \in TelnetdWork /\ w.made \in Nat  BY DEF ListOK, TelnetdWork
<1>2. Acks(w, u)  BY <1>1, TelnetdAcks
<1>3. u.made = w.made /\ ListOK(u)  BY <1>2, AcksKeeps DEF Acks
<1>4. ListOK(x) /\ x.made >= u.made /\ x \in TelnetdWork  BY DEF PutsOut, ListOK
<1>5. CountsSent(x, v)  BY <1>4, TelnetdSends
<1>6. v.made = x.made /\ Filled(v, v.s.numsent)  BY <1>5 DEF CountsSent
<1>7. PICK g2 \in Seq(Nat) : g2 = g \o t
  <2>1. g \o t \in Seq(Nat)  BY ConcatProperties
  <2> QED  BY <2>1
<1>8. /\ ListOK(v) /\ CanSend(v) /\ (InOrder(x, g2, <<>>) => InOrder(v, g2, <<>>))
      /\ (NoneLost(x) => NoneLost(v))
  BY <1>4, <1>5, CountedKeeps
<1>9. v.made >= w.made /\ v.made \in Nat
  <2>1. v.made \in Nat /\ x.made \in Nat  BY <1>4, <1>8 DEF ListOK, TelnetdWork
  <2> QED  BY <1>1, <1>3, <1>4, <1>6, <2>1
<1>10. PICK t2 : t2 = LinesSent(v)  OBVIOUS
<1>11. /\ t2 \in Seq(Nat) /\ Len(t2) = v.s.numsent /\ \A i \in 1..v.s.numsent : t2[i] \in 1..v.made
       /\ InOrder(v, g2, <<>>) => ForClient(v, g2, t2, cr2)
  BY <1>6, <1>8, <1>10, LinesSentAre
<1>12. ASSUME NEW i \in DOMAIN g2 PROVE g2[i] \in 1..v.made
  <2>1. i \in 1..Len(g) + Len(t) /\ Len(g) \in Nat /\ Len(t) \in Nat  BY <1>7, <1>12
  <2>2. CASE i <= Len(g)
    <3>1. i \in DOMAIN g /\ g2[i] = g[i]  BY <1>7, <2>1, <2>2
    <3>2. g[i] \in 1..w.made  BY <3>1
    <3> QED  BY <1>1, <1>9, <3>1, <3>2
  <2>3. CASE i > Len(g)
    <3>1. PICK k : k = i - Len(g)  OBVIOUS
    <3>2. k \in DOMAIN t /\ g2[i] = t[k]  BY <1>7, <2>1, <2>3, <3>1
    <3>3. t[k] \in 1..w.made  BY <3>2
    <3> QED  BY <1>1, <1>9, <3>2, <3>3
  <2> QED  BY <2>1, <2>2, <2>3
<1>13. \A q \in {g2, t2} : \A i \in DOMAIN q : q[i] \in 1..v.made
  <2>1. DOMAIN t2 = 1..v.s.numsent  BY <1>11
  <2> QED  BY <1>11, <1>12, <2>1
<1>14. ASSUME ForClient(w, g, t, cr) PROVE InOrder(u, g2, <<>>) /\ (NoneLost(w) => NoneLost(u))
  BY <1>2, <1>7, <1>14, AcksKeeps DEF ForClient
<1>15. ASSUME ForClient(w, g, t, cr), Rising(g \o t) PROVE ForClient(v, g2, t2, cr2) /\ Rising(g2 \o t2)
  <2>1. InOrder(x, g2, <<>>)  BY <1>7, <1>14, <1>15 DEF PutsOut
  <2>2. ForClient(v, g2, t2, cr2)  BY <1>8, <1>11, <2>1
  <2>3. InOrder(v, g2, t2)  BY <2>2 DEF ForClient
  <2>4. Rising(g2)  BY <1>7, <1>15
  <2> QED  BY <1>8, <1>11, <2>2, <2>3, <2>4, RisingJoined
<1>16. ASSUME ForClient(w, g, t, cr), NoneLost(w) PROVE NoneLost(v)
  <2>1. NoneLost(x)  BY <1>14, <1>16 DEF PutsOut
  <2> QED  BY <1>8, <2>1
<1> QED  BY <1>7, <1>8, <1>9, <1>10, <1>11, <1>13, <1>15, <1>16 DEF Served

(* Without one, what is in transit stays so. *)
LEMMA ServedWaiting ==
  ASSUME NEW w, ListOK(w), CanSend(w), NEW g \in Seq(Nat), NEW t \in Seq(Nat), NEW cr, NEW cr2,
         \A q \in {g, t} : \A i \in DOMAIN q : q[i] \in 1..w.made,
         NEW x, NEW v, PutsOut(w, x, g, t), v = senddata(x),
         ~cr2 /\ t # <<>> => ~cr /\ x = w
  PROVE  Served(w, v, g, t, g, IF t = <<>> THEN LinesSent(v) ELSE t, cr, cr2)
<1>1. w \in TelnetdWork /\ w.made \in Nat  BY DEF ListOK, TelnetdWork
<1>4. ListOK(x) /\ x.made >= w.made /\ x \in TelnetdWork /\ x.s.numsent = w.s.numsent
  BY DEF PutsOut, ListOK
<1>5. CountsSent(x, v)  BY <1>4, TelnetdSends
<1>6. v.made = x.made /\ Filled(v, v.s.numsent) /\ v.s.lines = x.s.lines  BY <1>5 DEF CountsSent
<1>8. /\ ListOK(v) /\ CanSend(v) /\ (InOrder(x, g, t) => InOrder(v, g, t))
      /\ (NoneLost(x) => NoneLost(v))
  BY <1>4, <1>5, CountedKeeps
<1>9. v.made >= w.made /\ v.made \in Nat
  <2>1. v.made \in Nat /\ x.made \in Nat  BY <1>4, <1>8 DEF ListOK, TelnetdWork
  <2> QED  BY <1>1, <1>4, <1>6, <2>1
<1>10. PICK t2 : t2 = LinesSent(v)  OBVIOUS
<1>11. /\ t2 \in Seq(Nat) /\ Len(t2) = v.s.numsent /\ \A i \in 1..v.s.numsent : t2[i] \in 1..v.made
       /\ InOrder(v, g, <<>>) => ForClient(v, g, t2, cr2)
  BY <1>6, <1>8, <1>10, LinesSentAre
<1>12. \A q \in {g, t, t2} : \A i \in DOMAIN q : q[i] \in 1..v.made
  <2>1. DOMAIN t2 = 1..v.s.numsent  BY <1>11
  <2>2. \A q \in {g, t} : \A i \in DOMAIN q : q[i] \in 1..v.made  BY <1>1, <1>9
  <2> QED  BY <1>11, <2>1, <2>2
<1>13. ASSUME ForClient(w, g, t, cr) PROVE InOrder(v, g, t)
  BY <1>8, <1>13 DEF ForClient, PutsOut
<1>14. ASSUME ForClient(w, g, t, cr), NoneLost(w) PROVE NoneLost(v)
  BY <1>8, <1>14 DEF PutsOut
<1>15. CASE t = <<>>
  <2>1. ASSUME ForClient(w, g, t, cr), Rising(g \o t) PROVE ForClient(v, g, t2, cr2) /\ Rising(g \o t2)
    <3>1. ForClient(v, g, t2, cr2)  BY <1>11, <1>13, <1>15, <2>1
    <3>2. InOrder(v, g, t2)  BY <3>1 DEF ForClient
    <3>3. Rising(g)  BY <2>1, RisingFirst
    <3> QED  BY <1>8, <1>11, <3>1, <3>2, <3>3, RisingJoined
  <2> QED  BY <1>8, <1>9, <1>10, <1>11, <1>12, <1>14, <1>15, <2>1 DEF Served
<1>16. CASE t # <<>>
  <2>1. ASSUME ForClient(w, g, t, cr) PROVE ForClient(v, g, t, cr2)
    <3>1. InOrder(v, g, t)  BY <1>13, <2>1
    <3>2. Len(t) <= PerSegment
      <4>1. w.s.numsent \in 0..PerSegment  BY <1>1 DEF TelnetdWork, TelnetdStates
      <4>2. Len(t) <= w.s.numsent  BY <2>1 DEF ForClient
      <4> QED  BY <4>1, <4>2, TelnetdConsts
    <3>3. Len(t) <= v.s.numsent  BY <1>6, <1>8, <3>1, <3>2, StillCounted
    <3>4. ASSUME ~cr2 PROVE Filled(v, Len(t)) /\ v.s.numsent = Len(t)
      <4>1. ~cr /\ x = w  BY <1>16, <3>4
      <4>2. Filled(w, Len(t))  BY <1>16, <2>1, <4>1 DEF ForClient
      <4>3. Filled(v, Len(t))  BY <1>6, <4>1, <4>2 DEF Filled
      <4> QED  BY <1>6, <4>3, FilledOnce
    <3> QED  BY <3>1, <3>3, <3>4 DEF ForClient
  <2> QED  BY <1>8, <1>9, <1>12, <1>14, <1>16, <2>1 DEF Served
<1> QED  BY <1>15, <1>16

-------------------------------------------------------------------------------
LEMMA WorksIs ==
  ASSUME NEW v \in TelnetdWork, s' = v.s, linemem' = v.linemem, made' = v.made
  PROVE  Works' = v
BY DEF Works, TelnetdWork

(* Conn(c) is what client c has; the others stay as they are. *)
LEMMA OneChanges ==
  ASSUME TelnetdInv, NEW c \in Clients, NEW r \in TelnetConns, tcp' = [tcp EXCEPT ![c] = r]
  PROVE  /\ tcp' \in [Clients -> TelnetConns] /\ tcp'[c] = r
         /\ \A d \in Clients : d # c => tcp'[d] = tcp[d]
BY DEF TelnetdInv

LEMMA StillKnown ==
  ASSUME TelnetdInv, NEW c \in Clients, NEW r \in TelnetConns, tcp' = [tcp EXCEPT ![c] = r],
         made' \in Nat, made' >= made, LinesKnown(r, made')
  PROVE  \A d \in Clients : LinesKnown(tcp'[d], made')
<1> SUFFICES ASSUME NEW d \in Clients PROVE LinesKnown(tcp'[d], made')  OBVIOUS
<1>1. made \in Nat  BY DEF TelnetdInv, ListOK, TelnetdWork, Works
<1>2. CASE d = c  BY <1>2, OneChanges
<1>3. CASE d # c
  <2>1. LinesKnown(tcp[d], made) /\ tcp'[d] = tcp[d]  BY <1>3, OneChanges DEF TelnetdInv
  <2>2. \A n \in 1..made : n \in 1..made'  BY <1>1
  <2> QED  BY <2>1, <2>2 DEF LinesKnown
<1> QED  BY <1>2, <1>3

(* telnetd_appcall was called for an open connection, and sent. *)
LEMMA ServedStep ==
  ASSUME TelnetdInv, NEW c \in Clients, tcp[c].st = "open", NEW v, NEW g2, NEW t2,
         Served(Works, v, tcp[c].got, tcp[c].transit, g2, t2, crowded, crowded'),
         s' = v.s, linemem' = v.linemem, made' = v.made, crowded' \in BOOLEAN,
         tcp' = [tcp EXCEPT ![c] = [st |-> "open", transit |-> t2, got |-> g2]],
         mixed' = mixed, ignored' = ignored
  PROVE  TelnetdInv'
<1>1. v \in TelnetdWork /\ ListOK(v) /\ CanSend(v)  BY DEF Served, ListOK
<1>2. Works' = v  BY <1>1, WorksIs
<1>3. PICK r \in TelnetConns : r = [st |-> "open", transit |-> t2, got |-> g2]
  BY DEF Served, TelnetConns
<1>4. r.st = "open" /\ r.transit = t2 /\ r.got = g2  BY <1>3
<1>5. /\ tcp' \in [Clients -> TelnetConns] /\ tcp'[c] = r
      /\ \A d \in Clients : d # c => tcp'[d] = tcp[d]
  BY <1>3, OneChanges
<1>6. \A d \in Clients : LinesKnown(tcp'[d], made')
  <2>1. made' \in Nat /\ made' >= made  BY <1>1 DEF Served, TelnetdWork, Works
  <2>2. LinesKnown(r, made')  BY <1>4 DEF Served, LinesKnown
  <2> QED  BY <1>3, <2>1, <2>2, StillKnown
<1>7. ASSUME ~mixed PROVE ServesOne(v, tcp', crowded', ignored')
  <2>1. ServesOne(Works, tcp, crowded, ignored)  BY <1>7 DEF TelnetdInv
  <2>2. \A d \in Clients : Alive(tcp[d]) => d = c  BY <2>1 DEF ServesOne, Alive
  <2>3. ForClient(Works, tcp[c].got, tcp[c].transit, crowded) /\ Rising(tcp[c].got \o tcp[c].transit)
    BY <2>1 DEF ServesOne
  <2>4. ForClient(v, g2, t2, crowded') /\ Rising(g2 \o t2)  BY <2>3 DEF Served
  <2>5. ~ignored => NoneLost(v)
    <3> HAVE ~ignored
    <3>1. NoneLost(Works)  BY <2>1 DEF ServesOne
    <3> QED  BY <2>3, <3>1 DEF Served
  <2>6. \A d, e \in Clients : Alive(tcp'[d]) /\ Alive(tcp'[e]) => d = e  BY <1>5, <2>2
  <2>7. \A d \in Clients : Rising(tcp'[d].got \o tcp'[d].transit)
    BY <1>4, <1>5, <2>1, <2>4 DEF ServesOne
  <2>8. \A d \in Clients : tcp'[d].st = "none" => tcp'[d].got = <<>> /\ tcp'[d].transit = <<>>
    BY <1>4, <1>5, <2>1 DEF ServesOne
  <2>9. \A d \in Clients : tcp'[d].st = "open" => ForClient(v, tcp'[d].got, tcp'[d].transit, crowded')
    BY <1>4, <1>5, <2>2, <2>4 DEF Alive
  <2>10. tcp'[c].st \in {"open", "closing"}  BY <1>4, <1>5
  <2> QED  BY <2>5, <2>6, <2>7, <2>8, <2>9, <2>10 DEF ServesOne
<1>8. {crowded', mixed', ignored'} \subseteq BOOLEAN  BY DEF TelnetdInv
<1> QED  BY <1>1, <1>2, <1>5, <1>6, <1>7, <1>8 DEF TelnetdInv

Wants == {"rexmit", "newdata", "acked", "poll"}

LEMMA AppcallSends ==
  ASSUME TelnetdInv, NEW c \in Clients, tcp[c].st = "open", NEW ev, ev \cap Ends = {}, ev \cap Wants # {},
         NEW chars, "newdata" \in ev => chars \in Seq(STRING), telnetd_appcall(c, ev, chars, "open")
  PROVE  TelnetdInv'
<1>1. PICK g : g = tcp[c].got  OBVIOUS
<1>2. PICK t : t = tcp[c].transit  OBVIOUS
<1>3. PICK w : w = Works  OBVIOUS
<1>4. PICK u : u = IF "acked" \in ev THEN acked(w) ELSE w  OBVIOUS
<1>5. PICK x : x = IF "newdata" \in ev THEN newdata(u, chars) ELSE u  OBVIOUS
<1>6. PICK v : v = senddata(x)  OBVIOUS
<1>7. /\ s' = v.s /\ linemem' = v.linemem /\ made' = v.made /\ mixed' = mixed /\ ignored' = ignored
      /\ tcp' = [tcp EXCEPT ![c] = [Sent(tcp[c], v, ev) EXCEPT !.st = "open"]]
      /\ crowded' = (crowded \/ ("newdata" \in ev /\ "acked" \notin ev /\ t # <<>>))
  BY <1>2, <1>3, <1>4, <1>5, <1>6 DEF telnetd_appcall, Wants
<1>8. /\ tcp[c] \in TelnetConns /\ g \in Seq(Nat) /\ t \in Seq(Nat)
      /\ \A q \in {g, t} : \A i \in DOMAIN q : q[i] \in 1..w.made
      /\ ListOK(w) /\ CanSend(w)
  <2>1. w.made = made  BY <1>3 DEF Works
  <2> QED  BY <1>1, <1>2, <1>3, <2>1 DEF TelnetdInv, TelnetConns, LinesKnown
<1>9. ListOK(u)
  <2>1. ListOK(acked(w))
    <3>1. Acks(w, acked(w))  BY <1>8, TelnetdAcks DEF ListOK
    <3> QED  BY <1>8, <3>1, AcksKeeps
  <2> QED  BY <1>4, <1>8, <2>1
<1>10. \A k, l : PutsOut(u, x, k, l)
  <2> TAKE k, l
  <2>1. CASE "newdata" \in ev  BY <1>5, <1>9, <2>1, NewdataKeeps
  <2>2. CASE "newdata" \notin ev  BY <1>5, <1>9, <2>2, PutsNone
  <2> QED  BY <2>1, <2>2
<1>11. PICK t2 : t2 = IF t = <<>> \/ "acked" \in ev THEN LinesSent(v) ELSE t  OBVIOUS
<1>12. PICK g2 : g2 = IF "acked" \in ev THEN g \o t ELSE g  OBVIOUS
<1>13. Served(w, v, g, t, g2, t2, crowded, crowded')
  <2>1. CASE "acked" \in ev
    <3>1. PutsOut(u, x, g \o t, <<>>) /\ u = acked(w)  BY <1>4, <1>10, <2>1
    <3>2. Served(w, v, g, t, g \o t, LinesSent(v), crowded, crowded')
      BY <1>6, <1>8, <3>1, ServedAcked
    <3> QED  BY <1>11, <1>12, <2>1, <3>2
  <2>2. CASE "acked" \notin ev
    <3>1. PutsOut(w, x, g, t)  BY <1>4, <1>10, <2>2
    <3>2. ~crowded' /\ t # <<>> => ~crowded /\ x = w  BY <1>4, <1>5, <1>7, <2>2
    <3>3. Served(w, v, g, t, g, IF t = <<>> THEN LinesSent(v) ELSE t, crowded, crowded')
      BY <1>6, <1>8, <3>1, <3>2, ServedWaiting
    <3>4. g2 = g /\ t2 = IF t = <<>> THEN LinesSent(v) ELSE t  BY <1>11, <1>12, <2>2
    <3> QED  BY <3>3, <3>4
  <2> QED  BY <2>1, <2>2
<1>14. v \in TelnetdWork  BY <1>13 DEF Served, ListOK
<1>15. [Sent(tcp[c], v, ev) EXCEPT !.st = "open"] = [st |-> "open", transit |-> t2, got |-> g2]
  <2>1. [i \in 1..Min({v.s.numsent, PerSegment}) |-> v.linemem.text[v.s.lines[i]]] = LinesSent(v)
    BY <1>14, SentIs
  <2>2. Sent(tcp[c], v, ev) = [tcp[c] EXCEPT !.transit = t2, !.got = g2]
    <3>1. Sent(tcp[c], v, ev) =
            [tcp[c] EXCEPT !.transit = IF @ = <<>> \/ "acked" \in ev THEN LinesSent(v) ELSE @,
                           !.got = IF "acked" \in ev THEN tcp[c].got \o tcp[c].transit ELSE @]
      BY <2>1 DEF Sent
    <3>2. Sent(tcp[c], v, ev) =
            [tcp[c] EXCEPT !.transit = IF t = <<>> \/ "acked" \in ev THEN LinesSent(v) ELSE t,
                           !.got = IF "acked" \in ev THEN g \o t ELSE g]
      BY <1>1, <1>2, <1>8, <3>1 DEF TelnetConns
    <3> QED  BY <1>11, <1>12, <3>2
  <2> QED  BY <1>8, <2>2 DEF TelnetConns
<1>16. crowded' \in BOOLEAN  BY <1>7 DEF TelnetdInv
<1>17. tcp' = [tcp EXCEPT ![c] = [st |-> "open", transit |-> t2, got |-> g2]]  BY <1>7, <1>15
<1>18. Served(Works, v, tcp[c].got, tcp[c].transit, g2, t2, crowded, crowded')
  BY <1>1, <1>2, <1>3, <1>13
<1>19. s' = v.s /\ linemem' = v.linemem /\ made' = v.made /\ mixed' = mixed /\ ignored' = ignored
  BY <1>7
<1> QED  BY <1>16, <1>17, <1>18, <1>19, ServedStep

(* An end: whatever client it is of, nobody is left that has lines to get. *)
LEMMA AppcallEnds ==
  ASSUME TelnetdInv, NEW c \in Clients, Alive(tcp[c]), NEW e \in Ends,
         NEW st \in {"lastack", "over"}, telnetd_appcall(c, {e}, <<>>, st)
  PROVE  TelnetdInv'
<1>1. PICK w : w = Works  OBVIOUS
<1>2. PICK v : v = closed(w)  OBVIOUS
<1>3. {e} \cap Ends # {} /\ "acked" \notin {e} /\ "newdata" \notin {e} /\ {e} \cap Wants = {}
  BY DEF Ends, Wants
<1>4. /\ s' = v.s /\ linemem' = v.linemem /\ made' = v.made /\ mixed' = mixed /\ ignored' = ignored
      /\ tcp' = [tcp EXCEPT ![c] = [tcp[c] EXCEPT !.st = st]] /\ crowded' = crowded
  BY <1>1, <1>2, <1>3 DEF telnetd_appcall, Wants, TelnetdInv
<1>5. ListOK(w) /\ CanSend(w) /\ w.made = made  BY <1>1 DEF TelnetdInv, Works
<1>6. /\ ListOK(v) /\ CanSend(v) /\ v.s = w.s /\ v.made = w.made
      /\ NoneLost(w) => \A b \in Blocks : v.linemem.count[b] = 0
      /\ (\A b \in Blocks : w.linemem.count[b] = 0) => \A b \in Blocks : v.linemem.count[b] = 0
  BY <1>2, <1>5, ClosedKeeps
<1>7. Works' = v
  <2>1. v \in TelnetdWork  BY <1>6 DEF ListOK
  <2> QED  BY <1>4, <2>1, WorksIs
<1>8. PICK r : r = [tcp[c] EXCEPT !.st = st]  OBVIOUS
<1>9. r \in TelnetConns /\ r.st = st /\ r.transit = tcp[c].transit /\ r.got = tcp[c].got
  BY <1>8 DEF TelnetdInv, TelnetConns
<1>10. /\ tcp' \in [Clients -> TelnetConns] /\ tcp'[c] = r
       /\ \A d \in Clients : d # c => tcp'[d] = tcp[d]
  BY <1>4, <1>8, <1>9, OneChanges
<1>11. \A d \in Clients : LinesKnown(tcp'[d], made')
  BY <1>4, <1>5, <1>6, <1>9, <1>10 DEF TelnetdInv, LinesKnown
<1>12. ASSUME ~mixed PROVE ServesOne(v, tcp', crowded', ignored')
  <2>1. ServesOne(w, tcp, crowded, ignored)  BY <1>1, <1>12 DEF TelnetdInv
  <2>2. \A d \in Clients : Alive(tcp[d]) => d = c  BY <2>1 DEF ServesOne
  <2>3. \A d, k \in Clients : Alive(tcp'[d]) /\ Alive(tcp'[k]) => d = k  BY <1>10, <2>2
  <2>4. \A d \in Clients : Rising(tcp'[d].got \o tcp'[d].transit)  BY <1>9, <1>10, <2>1 DEF ServesOne
  <2>5. \A d \in Clients : tcp'[d].st = "none" => tcp'[d].got = <<>> /\ tcp'[d].transit = <<>>
    BY <1>9, <1>10, <2>1 DEF ServesOne
  <2>6. \A d \in Clients : tcp'[d].st \notin {"open", "closing"}  BY <1>9, <1>10, <2>2 DEF Alive
  <2>7. ~ignored => \A b \in Blocks : v.linemem.count[b] = 0
    <3> HAVE ~ignored
    <3>1. CASE tcp[c].st \in {"open", "closing"}  BY <1>6, <2>1, <3>1 DEF ServesOne
    <3>2. CASE tcp[c].st \notin {"open", "closing"}
      <4>1. \A d \in Clients : tcp[d].st \notin {"open", "closing"}  BY <2>2, <3>2 DEF Alive
      <4> QED  BY <1>6, <2>1, <4>1 DEF ServesOne
    <3> QED  BY <3>1, <3>2
  <2> QED  BY <1>4, <2>3, <2>4, <2>5, <2>6, <2>7 DEF ServesOne
<1>13. {crowded', mixed', ignored'} \subseteq BOOLEAN  BY <1>4 DEF TelnetdInv
<1> QED  BY <1>4, <1>6, <1>7, <1>10, <1>11, <1>12, <1>13 DEF TelnetdInv

(* In STATE_CLOSE: only what is told of the connection changes. *)
LEMMA ClosingKeeps ==
  ASSUME TelnetdInv, NEW c \in Clients, NEW ev, AppcallClosing(c, ev),
         tcp[c].st = "open" \/ (Alive(tcp[c]) /\ ev \cap Ends # {}), ev = {"rexmit"} => ev \cap Ends = {}
  PROVE  TelnetdInv'
<1>1. PICK w : w = Works  OBVIOUS
<1>2. PICK v : v = Works'  OBVIOUS
<1>3. ListOK(w) /\ CanSend(w)  BY <1>1 DEF TelnetdInv
<1>4. PICK q : q = [s EXCEPT !.state = "NORMAL"]  OBVIOUS
<1>5. s \in TelnetdStates /\ w \in TelnetdWork /\ w.s = s
  BY <1>1, <1>3 DEF ListOK, TelnetdWork, Works
<1>6. q \in TelnetdStates /\ q.lines = s.lines /\ q.numsent = s.numsent  BY <1>4, <1>5 DEF TelnetdStates
<1>7. v = [w EXCEPT !.s = q]  BY <1>1, <1>2, <1>4 DEF AppcallClosing, Works
<1>8. /\ v \in TelnetdWork /\ v.s.lines = w.s.lines /\ v.s.numsent = w.s.numsent
      /\ v.linemem = w.linemem /\ v.made = w.made
  BY <1>5, <1>6, <1>7 DEF TelnetdWork
<1>9. ListOK(v) /\ CanSend(v)  BY <1>3, <1>8 DEF ListOK, CanSend
<1>10. NoneLost(w) => NoneLost(v)  BY <1>8 DEF NoneLost
<1>11. ASSUME NEW g, NEW t, NEW cr PROVE ForClient(w, g, t, cr) => ForClient(v, g, t, cr)
  <2>1. InOrder(w, g, t) => InOrder(v, g, t)  BY <1>8 DEF InOrder, LineAt
  <2>2. \A n : Filled(w, n) => Filled(v, n)  BY <1>8 DEF Filled
  <2> QED  BY <1>8, <2>1, <2>2 DEF ForClient
<1>12. PICK st : st = IF ev = {"rexmit"} THEN tcp[c].st ELSE IF ev \cap Ends # {} THEN "over" ELSE "closing"
  OBVIOUS
<1>13. PICK t : t = IF ev = {"rexmit"} THEN tcp[c].transit ELSE <<>>  OBVIOUS
<1>14. tcp[c] \in TelnetConns /\ tcp \in [Clients -> TelnetConns]  BY DEF TelnetdInv
<1>15. PICK r : r = [tcp[c] EXCEPT !.st = st, !.transit = t]  OBVIOUS
<1>16. r \in TelnetConns /\ r.st = st /\ r.transit = t /\ r.got = tcp[c].got
  <2>1. t \in Seq(Nat)
    <3>1. <<>> \in Seq(Nat) /\ tcp[c].transit \in Seq(Nat)  BY <1>14 DEF TelnetConns
    <3> QED  BY <1>13, <3>1
  <2>2. st \in {"none", "open", "lastack", "closing", "over"}  BY <1>12, <1>14 DEF TelnetConns
  <2> QED  BY <1>14, <1>15, <2>1, <2>2 DEF TelnetConns
<1>17. tcp' = [tcp EXCEPT ![c] = r]
  <2>1. tcp' = [tcp EXCEPT ![c].st = st, ![c].transit = t]
    BY <1>12, <1>13, <1>14 DEF AppcallClosing, TelnetConns
  <2> QED  BY <1>14, <1>15, <2>1
<1>18. /\ tcp' \in [Clients -> TelnetConns] /\ tcp'[c] = r
       /\ \A d \in Clients : d # c => tcp'[d] = tcp[d]
  BY <1>16, <1>17, OneChanges
<1>19. /\ made' = made /\ mixed' = mixed /\ crowded' = crowded
       /\ ignored' = (ignored \/ ev \cap Ends # {})
  BY DEF AppcallClosing
<1>20. \A d \in Clients : LinesKnown(tcp'[d], made')
  <2>1. LinesKnown(r, made')
    <3>1. LinesKnown(tcp[c], made)  BY DEF TelnetdInv
    <3>2. DOMAIN <<>> = {}  OBVIOUS
    <3> QED  BY <1>13, <1>16, <1>19, <3>1, <3>2 DEF LinesKnown
  <2>2. made' \in Nat /\ made' >= made  BY <1>5, <1>19, <1>1 DEF TelnetdWork, Works
  <2> QED  BY <1>16, <1>17, <2>1, <2>2, StillKnown
<1>21. ASSUME ~mixed PROVE ServesOne(v, tcp', crowded', ignored')
  <2>1. ServesOne(w, tcp, crowded, ignored)  BY <1>1, <1>21 DEF TelnetdInv
  <2>2. Alive(tcp[c]) /\ \A d \in Clients : Alive(tcp[d]) => d = c  BY <2>1 DEF ServesOne, Alive
  <2>3. \A d, k \in Clients : Alive(tcp'[d]) /\ Alive(tcp'[k]) => d = k  BY <1>18, <2>2
  <2>4. Rising(r.got \o r.transit)
    <3>1. Rising(tcp[c].got \o tcp[c].transit)  BY <2>1 DEF ServesOne
    <3>2. CASE ev = {"rexmit"}  BY <1>13, <1>16, <3>1, <3>2
    <3>3. CASE ev # {"rexmit"}
      <4>1. Rising(tcp[c].got) /\ tcp[c].got \in Seq(Nat)  BY <1>14, <3>1, RisingFirst DEF TelnetConns
      <4>2. tcp[c].got \o <<>> = tcp[c].got  BY <4>1
      <4> QED  BY <1>13, <1>16, <3>3, <4>1, <4>2
    <3> QED  BY <3>2, <3>3
  <2>5. \A d \in Clients : Rising(tcp'[d].got \o tcp'[d].transit)  BY <1>18, <2>1, <2>4 DEF ServesOne
  <2>6. r.st # "none"  BY <1>12, <1>16, <2>2 DEF Alive
  <2>7. \A d \in Clients : tcp'[d].st = "none" => tcp'[d].got = <<>> /\ tcp'[d].transit = <<>>
    BY <1>18, <2>1, <2>6 DEF ServesOne
  <2>8. r.st = "open" => ForClient(v, r.got, r.transit, crowded)
    <3> HAVE r.st = "open"
    <3>1. st = "open" /\ ev = {"rexmit"} /\ tcp[c].st = "open" /\ t = tcp[c].transit  BY <1>12, <1>13, <1>16
    <3>2. ForClient(w, tcp[c].got, tcp[c].transit, crowded)  BY <2>1, <3>1 DEF ServesOne
    <3> QED  BY <1>11, <1>16, <3>1, <3>2
  <2>9. \A d \in Clients : tcp'[d].st = "open" => ForClient(v, tcp'[d].got, tcp'[d].transit, crowded')
    BY <1>18, <1>19, <2>2, <2>8 DEF Alive
  <2>10. ASSUME ~ignored' PROVE r.st \in {"open", "closing"} /\ NoneLost(v)
    <3>1. ~ignored /\ ev \cap Ends = {} /\ tcp[c].st = "open"  BY <1>19, <2>10
    <3>2. NoneLost(w)  BY <2>1, <3>1 DEF ServesOne
    <3>3. st \in {"open", "closing"}  BY <1>12, <3>1
    <3> QED  BY <1>10, <1>16, <3>2, <3>3
  <2> QED  BY <1>18, <2>3, <2>5, <2>7, <2>9, <2>10 DEF ServesOne
<1>22. {crowded', mixed', ignored'} \subseteq BOOLEAN  BY <1>19 DEF TelnetdInv
<1> QED  BY <1>2, <1>9, <1>18, <1>19, <1>20, <1>21, <1>22 DEF TelnetdInv

(* A new client gets the greeting, from an empty list. *)
LEMMA ConnectedKeeps ==
  ASSUME TelnetdInv, NEW c \in Clients, Connected(c)
  PROVE  TelnetdInv'
<1>1. PICK L : L = [i \in Blocks |-> 0]  OBVIOUS
<1>2. PICK w : w = [Works EXCEPT !.s.lines = L, !.s.bufptr = 0, !.s.state = "NORMAL"]  OBVIOUS
<1>3. PICK x : x = shell_start(w)  OBVIOUS
<1>4. PICK v : v = senddata(x)  OBVIOUS
<1>5. /\ tcp[c].st = "none" /\ \A d \in Clients : tcp[d].st # "open"
      /\ s' = v.s /\ linemem' = v.linemem /\ made' = v.made
      /\ tcp' = [tcp EXCEPT ![c] = [Sent(tcp[c], v, {}) EXCEPT !.st = "open"]]
      /\ mixed' = (mixed \/ \E d \in Clients : tcp[d].st \in {"lastack", "closing"})
      /\ crowded' = FALSE /\ ignored' = ignored
  BY <1>1, <1>2, <1>3, <1>4 DEF Connected
<1>6. Works \in TelnetdWork /\ s \in TelnetdStates /\ Works.s = s
  BY DEF TelnetdInv, ListOK, TelnetdWork, Works
<1>7. L \in [Blocks -> Blocks \cup {0}] /\ \A i \in Blocks : L[i] = 0  BY <1>1
<1>8. PICK q : q = [s EXCEPT !.lines = L, !.bufptr = 0, !.state = "NORMAL"]  OBVIOUS
<1>9. q \in TelnetdStates /\ q.lines = L
  <2>1. 0 \in 0..LINELEN - 1  BY TelnetdConsts
  <2> QED  BY <1>6, <1>7, <1>8, <2>1 DEF TelnetdStates
<1>10. w = [Works EXCEPT !.s = q]  BY <1>2, <1>6, <1>8
<1>11. w \in TelnetdWork /\ w.s.lines = L /\ w.linemem = linemem /\ w.made = made
  BY <1>6, <1>9, <1>10 DEF TelnetdWork, Works
<1>12. ListOK(w)
  <2>1. \A b \in Blocks : w.linemem.text[b] <= w.made  BY <1>11 DEF TelnetdInv, ListOK, Works
  <2> QED  BY <1>7, <1>11, <2>1 DEF ListOK
<1>13. InOrder(w, <<>>, <<>>)
  <2>1. DOMAIN <<>> = {}  OBVIOUS
  <2> QED  BY <1>7, <1>11, <2>1 DEF InOrder
<1>14. PutsOut(w, x, <<>>, <<>>)
  <2>1. 3 \in Nat  OBVIOUS
  <2> QED  BY <1>3, <1>12, <2>1, OutputKeeps DEF shell_start
<1>15. ListOK(x) /\ InOrder(x, <<>>, <<>>) /\ x.made >= w.made /\ (NoneLost(w) => NoneLost(x))
  BY <1>13, <1>14 DEF PutsOut
<1>16. CountsSent(x, v)  BY <1>4, <1>15, TelnetdSends DEF ListOK
<1>17. ListOK(v) /\ CanSend(v) /\ InOrder(v, <<>>, <<>>) /\ (NoneLost(x) => NoneLost(v))
  BY <1>15, <1>16, CountedKeeps
<1>18. v \in TelnetdWork /\ v.made >= made /\ v.made \in Nat /\ Filled(v, v.s.numsent)
  BY <1>11, <1>15, <1>16, <1>17 DEF CountsSent, ListOK, TelnetdWork
<1>19. Works' = v  BY <1>5, <1>18, WorksIs
<1>20. PICK t2 : t2 = LinesSent(v)  OBVIOUS
<1>21. /\ t2 \in Seq(Nat) /\ Len(t2) = v.s.numsent /\ \A i \in 1..v.s.numsent : t2[i] \in 1..v.made
       /\ ForClient(v, <<>>, t2, FALSE)
  BY <1>17, <1>18, <1>20, LinesSentAre
<1>22. tcp[c] \in TelnetConns /\ LinesKnown(tcp[c], made)  BY DEF TelnetdInv
<1>23. PICK t : t = IF tcp[c].transit = <<>> THEN t2 ELSE tcp[c].transit  OBVIOUS
<1>24. PICK r : r = [tcp[c] EXCEPT !.st = "open", !.transit = t]  OBVIOUS
<1>25. r \in TelnetConns /\ r.st = "open" /\ r.transit = t /\ r.got = tcp[c].got
  BY <1>21, <1>22, <1>23, <1>24 DEF TelnetConns
<1>26. tcp' = [tcp EXCEPT ![c] = r]
  <2>1. [i \in 1..Min({v.s.numsent, PerSegment}) |-> v.linemem.text[v.s.lines[i]]] = t2
    BY <1>18, <1>20, SentIs
  <2>2. "acked" \notin {}  OBVIOUS
  <2>3. Sent(tcp[c], v, {}) = [tcp[c] EXCEPT !.transit = t, !.got = tcp[c].got]
    <3>1. Sent(tcp[c], v, {}) = [tcp[c] EXCEPT !.transit = IF @ = <<>> \/ "acked" \in {} THEN t2 ELSE @,
                                              !.got = IF "acked" \in {} THEN tcp[c].got \o tcp[c].transit ELSE @]
      BY <2>1 DEF Sent
    <3> QED  BY <1>22, <1>23, <2>2, <3>1 DEF TelnetConns
  <2>4. [Sent(tcp[c], v, {}) EXCEPT !.st = "open"] = r  BY <1>22, <1>24, <2>3 DEF TelnetConns
  <2> QED  BY <1>5, <2>4
<1>27. /\ tcp' \in [Clients -> TelnetConns] /\ tcp'[c] = r
       /\ \A d \in Clients : d # c => tcp'[d] = tcp[d]
  BY <1>25, <1>26, OneChanges
<1>28. \A d \in Clients : LinesKnown(tcp'[d], made')
  <2>1. DOMAIN t2 = 1..v.s.numsent  BY <1>21
  <2>2. made \in Nat  BY <1>11 DEF TelnetdWork
  <2>3. \A n \in 1..made : n \in 1..v.made  BY <1>18, <2>2
  <2>4. \A q2 \in {r.got, r.transit} : \A i \in DOMAIN q2 : q2[i] \in 1..v.made
    <3>1. \A i \in DOMAIN tcp[c].got : tcp[c].got[i] \in 1..v.made  BY <1>22, <2>3 DEF LinesKnown
    <3>2. \A i \in DOMAIN tcp[c].transit : tcp[c].transit[i] \in 1..v.made  BY <1>22, <2>3 DEF LinesKnown
    <3>3. \A i \in DOMAIN t2 : t2[i] \in 1..v.made  BY <1>21, <2>1
    <3>4. t = t2 \/ t = tcp[c].transit  BY <1>23
    <3> QED  BY <1>25, <3>1, <3>2, <3>3, <3>4
  <2>5. LinesKnown(r, made')  BY <1>5, <2>4 DEF LinesKnown
  <2> QED  BY <1>5, <1>18, <1>25, <1>26, <2>5, StillKnown
<1>29. ASSUME ~mixed' PROVE ServesOne(v, tcp', crowded', ignored')
  <2>1. ~mixed /\ \A d \in Clients : ~Alive(tcp[d])  BY <1>5, <1>29 DEF Alive
  <2>2. ServesOne(Works, tcp, crowded, ignored)  BY <2>1 DEF TelnetdInv
  <2>3. tcp[c].got = <<>> /\ tcp[c].transit = <<>>  BY <1>5, <2>2 DEF ServesOne
  <2>4. r.got = <<>> /\ r.transit = t2  BY <1>23, <1>25, <2>3
  <2>5. ForClient(v, r.got, r.transit, crowded')  BY <1>5, <1>21, <2>4
  <2>6. Rising(r.got \o r.transit)
    <3>1. InOrder(v, <<>>, t2)  BY <1>21 DEF ForClient
    <3>2. Rising(<<>>) /\ <<>> \in Seq(Nat)  BY DEF Rising
    <3> QED  BY <1>17, <1>21, <2>4, <3>1, <3>2, RisingJoined
  <2>7. \A d, k \in Clients : Alive(tcp'[d]) /\ Alive(tcp'[k]) => d = k  BY <1>27, <2>1
  <2>8. \A d \in Clients : Rising(tcp'[d].got \o tcp'[d].transit)  BY <1>27, <2>2, <2>6 DEF ServesOne
  <2>9. \A d \in Clients : tcp'[d].st = "none" => tcp'[d].got = <<>> /\ tcp'[d].transit = <<>>
    BY <1>25, <1>27, <2>2 DEF ServesOne
  <2>10. \A d \in Clients : tcp'[d].st = "open" => ForClient(v, tcp'[d].got, tcp'[d].transit, crowded')
    BY <1>5, <1>27, <2>5
  <2>11. ~ignored => NoneLost(v)
    <3> HAVE ~ignored
    <3>1. \A d \in Clients : tcp[d].st \notin {"open", "closing"}  BY <2>1 DEF Alive
    <3>2. \A b \in Blocks : linemem.count[b] = 0  BY <2>2, <3>1 DEF ServesOne, Works
    <3>3. NoneLost(w)  BY <1>11, <3>2 DEF NoneLost
    <3> QED  BY <1>15, <1>17, <3>3
  <2>12. tcp'[c].st \in {"open", "closing"}  BY <1>25, <1>27
  <2> QED  BY <1>5, <2>7, <2>8, <2>9, <2>10, <2>11, <2>12 DEF ServesOne
<1>30. {crowded', mixed', ignored'} \subseteq BOOLEAN  BY <1>5 DEF TelnetdInv
<1> QED  BY <1>17, <1>19, <1>27, <1>28, <1>29, <1>30 DEF TelnetdInv

-------------------------------------------------------------------------------
LEMMA TelnetdInvInit == TelnetdInit => TelnetdInv
<1> SUFFICES ASSUME TelnetdInit PROVE TelnetdInv
  OBVIOUS
<1>1. PICK L : L = [i \in Blocks |-> 0]  OBVIOUS
<1>2. L \in [Blocks -> Blocks \cup {0}] /\ L \in [Blocks -> 0..1] /\ L \in [Blocks -> Nat]
      /\ \A i \in Blocks : L[i] = 0
  BY <1>1
<1>3. /\ s = [lines |-> L, numsent |-> 0, state |-> "NORMAL", bufptr |-> 0, first |-> "nl"]
      /\ linemem = [count |-> L, text |-> L] /\ made = 0
      /\ tcp = [c \in Clients |-> [st |-> "none", transit |-> <<>>, got |-> <<>>]]
      /\ crowded = FALSE /\ mixed = FALSE /\ ignored = FALSE
  BY <1>1 DEF TelnetdInit
<1>4. Works \in TelnetdWork /\ Works.s = s /\ Works.linemem = linemem /\ Works.made = 0
  <2>1. 0 \in 0..PerSegment /\ 0 \in 0..LINELEN - 1  BY TelnetdConsts
  <2>2. PICK first \in Chars : first = "nl"  BY DEF Chars
  <2>3. s = [lines |-> L, numsent |-> 0, state |-> "NORMAL", bufptr |-> 0, first |-> first]  BY <1>3, <2>2
  <2>4. s \in TelnetdStates  BY <1>2, <2>1, <2>3 DEF TelnetdStates
  <2> QED  BY <1>2, <1>3, <2>4 DEF TelnetdWork, Works
<1>5. ListOK(Works)  BY <1>2, <1>3, <1>4 DEF ListOK
<1>6. CanSend(Works)
  <2>1. Works.s.numsent = 0  BY <1>3, <1>4
  <2> QED  BY <2>1 DEF CanSend
<1>7. PICK r : r = [st |-> "none", transit |-> <<>>, got |-> <<>>]  OBVIOUS
<1>8. r \in TelnetConns /\ r.st = "none" /\ r.got = <<>> /\ r.transit = <<>>  BY <1>7 DEF TelnetConns
<1>9. tcp \in [Clients -> TelnetConns] /\ \A c \in Clients : tcp[c] = r  BY <1>3, <1>7, <1>8
<1>10. DOMAIN <<>> = {} /\ <<>> \o <<>> = <<>> /\ Len(<<>>) = 0  OBVIOUS
<1>11. \A c \in Clients : LinesKnown(tcp[c], made)  BY <1>8, <1>9, <1>10 DEF LinesKnown
<1>12. ServesOne(Works, tcp, crowded, ignored)
  <2>3. Rising(<<>> \o <<>>)
    <3>1. 1..Len(<<>> \o <<>>) = {}  OBVIOUS
    <3> QED  BY <3>1 DEF Rising
  <2>1. \A c \in Clients : Rising(tcp[c].got \o tcp[c].transit)  BY <1>8, <1>9, <2>3
  <2>2. \A b \in Blocks : Works.linemem.count[b] = 0  BY <1>2, <1>3, <1>4
  <2> QED  BY <1>8, <1>9, <2>1, <2>2 DEF ServesOne, Alive
<1>13. {crowded, mixed, ignored} \subseteq BOOLEAN  BY <1>3
<1> QED  BY <1>5, <1>6, <1>9, <1>11, <1>12, <1>13 DEF TelnetdInv

LEMMA TelnetdInvNext == TelnetdInv /\ [TelnetdNext]_telnetdVars => TelnetdInv'
<1> SUFFICES ASSUME TelnetdInv, [TelnetdNext]_telnetdVars PROVE TelnetdInv'
  OBVIOUS
<1>1. ASSUME NEW c \in Clients, Connected(c) PROVE TelnetdInv'  BY <1>1, ConnectedKeeps
<1>2. ASSUME NEW c \in Clients, Told(c) PROVE TelnetdInv'
  <2>1. tcp[c].st = "open"  BY <1>2 DEF Told
  <2> DEFINE Events == {{"acked"}, {"rexmit"}, {"poll"}, {"newdata"}, {"acked", "newdata"}}
  <2>2. \E ev \in Events : \E chars :
          Appcall(c, ev, chars, "open") /\ ("newdata" \in ev => chars \in Segments)
    <3>1. CASE \/ Appcall(c, {"acked"}, <<>>, "open") \/ Appcall(c, {"rexmit"}, <<>>, "open")
               \/ Appcall(c, {"poll"}, <<>>, "open")
      <4>1. "newdata" \notin {"acked"} /\ "newdata" \notin {"rexmit"} /\ "newdata" \notin {"poll"}  OBVIOUS
      <4> QED  BY <3>1, <4>1
    <3>2. CASE \E chars \in Segments : \/ Appcall(c, {"newdata"}, chars, "open")
                                       \/ Appcall(c, {"acked", "newdata"}, chars, "open")
      BY <3>2
    <3> QED  BY <1>2, <3>1, <3>2 DEF Told
  <2>3. PICK ev \in Events :
          \E chars : Appcall(c, ev, chars, "open") /\ ("newdata" \in ev => chars \in Segments)
    BY <2>2
  <2>4. PICK chars : Appcall(c, ev, chars, "open") /\ ("newdata" \in ev => chars \in Segments)
    BY <2>3
  <2>5. ev \cap Ends = {} /\ ev \cap Wants # {}  BY <2>4 DEF Ends, Wants
  <2>6. "newdata" \in ev => chars \in Seq(STRING)  BY <2>4, TelnetdAssumption
  <2>7. CASE AppcallClosing(c, ev)  BY <2>1, <2>5, <2>7, ClosingKeeps
  <2>8. CASE telnetd_appcall(c, ev, chars, "open")  BY <2>1, <2>5, <2>6, <2>8, AppcallSends
  <2> QED  BY <2>4, <2>7, <2>8 DEF Appcall
<1>3. ASSUME NEW c \in Clients, ToldOfEnd(c) PROVE TelnetdInv'
  <2>1. PICK e \in Ends, st \in {"lastack", "over"} : Alive(tcp[c]) /\ Appcall(c, {e}, <<>>, st)
    BY <1>3 DEF ToldOfEnd, Alive, Ends
  <2>2. {e} \cap Ends # {} /\ {e} # {"rexmit"}  BY <2>1 DEF Ends
  <2>3. CASE AppcallClosing(c, {e})  BY <2>1, <2>2, <2>3, ClosingKeeps
  <2>4. CASE telnetd_appcall(c, {e}, <<>>, st)  BY <2>1, <2>4, AppcallEnds
  <2> QED  BY <2>1, <2>3, <2>4 DEF Appcall
<1>4. CASE UNCHANGED telnetdVars
  BY <1>4 DEF telnetdVars, TelnetdInv, Works, ListOK, CanSend, TelnetdWork, TelnetdStates
<1> QED  BY <1>1, <1>2, <1>3, <1>4 DEF TelnetdNext

LEMMA TelnetdInvHolds == TelnetdSpec => []TelnetdInv
BY TelnetdInvInit, TelnetdInvNext, PTL DEF TelnetdSpec

LEMMA TelnetdInvTypes == TelnetdInv => TelnetdTypeOK
<1> SUFFICES ASSUME TelnetdInv PROVE TelnetdTypeOK
  OBVIOUS
<1>1. ListOK(Works) /\ Works.s = s /\ Works.linemem = linemem /\ Works.made = made
  BY DEF TelnetdInv, Works
<1>2. /\ s \in TelnetdStates /\ linemem.count \in [Blocks -> 0..1] /\ linemem.text \in [Blocks -> Nat]
      /\ made \in Nat /\ \A b \in Blocks : linemem.text[b] <= made
  BY <1>1 DEF ListOK, TelnetdWork
<1>3. linemem.text \in [Blocks -> 0..made]
  <2>1. \A b \in Blocks : linemem.text[b] \in 0..made  BY <1>2
  <2>2. linemem.text = [b \in Blocks |-> linemem.text[b]]  BY <1>2
  <2> QED  BY <2>1, <2>2
<1>4. ASSUME NEW c \in Clients
      PROVE  /\ tcp[c].st \in {"none", "open", "lastack", "closing", "over"}
             /\ Range(tcp[c].transit) \cup Range(tcp[c].got) \subseteq 1..made
  <2>1. tcp[c] \in TelnetConns /\ LinesKnown(tcp[c], made)  BY DEF TelnetdInv
  <2> QED  BY <2>1 DEF TelnetConns, LinesKnown, Range
<1> QED  BY <1>2, <1>3, <1>4 DEF TelnetdStates, TelnetdTypeOK

(* The types, for every number of blocks, lines and clients: what a client *)
(* has of s.lines is a line that was put out.                              *)
THEOREM TelnetdTypesHold == TelnetdSpec => []TelnetdTypeOK
BY TelnetdInvTypes, TelnetdInvHolds, PTL

LEMMA BlocksOwned == TelnetdInv => BlocksAreOwned
<1> SUFFICES ASSUME TelnetdInv, Open # {}, ~mixed, ~ignored
             PROVE  /\ \A i, j \in Blocks : i # j /\ s.lines[i] # 0 => s.lines[i] # s.lines[j]
                    /\ Kept = {b \in Blocks : linemem.count[b] = 1}
  BY DEF BlocksAreOwned
<1>1. PICK c \in Clients : tcp[c].st = "open"  BY DEF Open
<1>2. PICK w : w = Works  OBVIOUS
<1>3. ListOK(w) /\ w.s = s /\ w.linemem = linemem  BY <1>2 DEF TelnetdInv, Works
<1>4. ServesOne(w, tcp, crowded, ignored)  BY <1>2 DEF TelnetdInv
<1>5. InOrder(w, tcp[c].got, tcp[c].transit) /\ NoneLost(w)  BY <1>1, <1>4 DEF ServesOne, ForClient
<1>6. Blocks \subseteq Nat /\ 0 \notin Blocks /\ \A i \in Blocks : s.lines[i] \in Blocks \cup {0}
  BY <1>3, TelnetdConsts DEF ListOK, TelnetdWork, TelnetdStates
<1>7. \A i \in Blocks : s.lines[i] # 0 => LineAt(w, i) \in Nat
  BY <1>3, <1>6 DEF ListOK, TelnetdWork, LineAt
<1>8. ASSUME NEW i \in Blocks, NEW j \in Blocks, i < j, s.lines[j] # 0 PROVE s.lines[i] # s.lines[j]
  <2>1. LineAt(w, i) < LineAt(w, j)  BY <1>3, <1>5, <1>8 DEF InOrder
  <2>2. LineAt(w, i) # LineAt(w, j)  BY <1>7, <1>8, <2>1
  <2> QED  BY <1>3, <2>2 DEF LineAt
<1>9. \A i, j \in Blocks : i # j /\ s.lines[i] # 0 => s.lines[i] # s.lines[j]
  <2> SUFFICES ASSUME NEW i \in Blocks, NEW j \in Blocks, i # j, s.lines[i] # 0, s.lines[i] = s.lines[j]
               PROVE  FALSE
    OBVIOUS
  <2>1. i < j \/ j < i  BY <1>6
  <2> QED  BY <1>8, <2>1
<1>10. \A b \in Blocks : linemem.count[b] = 1 => b \in Kept  BY <1>3, <1>5, <1>6 DEF NoneLost, Kept
<1>11. \A b \in Kept : b \in Blocks /\ linemem.count[b] = 1  BY <1>3, <1>5, <1>6 DEF InOrder, Kept
<1> QED  BY <1>9, <1>10, <1>11

(* For every number of blocks, lines and clients, and characters in        *)
(* segments of every length: what the shell puts out reaches the client it *)
(* is for, line after line, each in a block of its own (telnetd.c,         *)
(* sendline, acked, senddata), with the exceptions of mixed, ignored and   *)
(* crowded.                                                                *)
THEOREM OutputInTurnHolds == TelnetdSpec => []OutputInTurn
<1>1. TelnetdInv => LinesInTurn
  <2> SUFFICES ASSUME TelnetdInv, ~mixed, NEW c \in Clients PROVE Rising(tcp[c].got \o tcp[c].transit)
    BY DEF LinesInTurn, Rising
  <2> QED  BY DEF TelnetdInv, ServesOne
<1>2. TelnetdInv => FreedAreSent
  <2> SUFFICES ASSUME TelnetdInv, NEW c \in Open, ~crowded, ~mixed, tcp[c].transit # <<>>
               PROVE  s.numsent = Len(tcp[c].transit)
    BY DEF FreedAreSent
  <2>1. c \in Clients /\ tcp[c].st = "open"  BY DEF Open
  <2>2. ForClient(Works, tcp[c].got, tcp[c].transit, crowded)  BY <2>1 DEF TelnetdInv, ServesOne
  <2> QED  BY <2>2 DEF ForClient, Works
<1> QED  BY <1>1, <1>2, BlocksOwned, TelnetdInvHolds, PTL DEF OutputInTurn

-------------------------------------------------------------------------------
(***************************************************************************)
(* Httpd: for every list of files, every request and every size of the     *)
(* line, the server is in one place; with a status header that fits in a   *)
(* segment, a client gets the parts of one page, in order and all of them. *)
(***************************************************************************)

Ids ==
  {<<Files[i].name, n>> : i \in DOMAIN Files, n \in Nat} \cup {<<<<"row">>, k>> : k \in Nat}
    \cup {<<<<"status">>, 200>>, <<<<"status">>, 404>>, <<<<"type">>, 0>>}

Pieces == [op : {"send", "generate"}, id : Ids, len : {1, HeaderParts}]

Segs == {Chunk(p, n) : p \in Pieces, n \in Nat} \cup {NoChunk}

Socks ==
  [state : {"NONE", "ACKED", "DATA_SENT"}, sendptr : Nat, sendlen : Nat, busy : BOOLEAN,
   line : Seq(STRING), unread : Seq(STRING), seg : Segs, out : BOOLEAN]

FileNames == Seq(STRING) \cup {Index}

(* Where the threads are; the answer begins when the path has been read. *)
HttpdStates ==
  [at : {"get", "path", "headers"}, state : {"WAITING", "OUTPUT"}, filename : FileNames,
   piece : Nat, timer : Nat, sin : Socks, sout : Socks]

HttpdConns ==
  [st : {"none", "open", "closed", "aborted", "timedout", "gone"}, flight : SUBSET Segs,
   unacked : BOOLEAN, heard : BOOLEAN, nrtx : Nat, got : Seq(Segs)]

(* A sock in the middle of a piece. *)
InPiece(r) == r.busy /\ r.state = "DATA_SENT" /\ r.sendlen > 0

HttpdStateTypes ==
  /\ hs \in HttpdStates /\ web \in HttpdConns /\ uipbuf \in Segs
  /\ Len(hs.sin.line) <= Room /\ web.nrtx <= UIP_MAXRTX
  /\ hs.timer <= IDLE_MAX /\ (web.st = "open" => hs.timer < IDLE_MAX)
  /\ (hs.state = "OUTPUT" <=> hs.at = "headers")
  /\ web.st # "open" => ~web.unacked /\ web.flight = {}
  /\ hs.state = "OUTPUT" =>
       hs.piece \in 1..Len(Page(hs.filename)) /\ (web.st = "open" => InPiece(hs.sout) /\ ~hs.sout.out)
  /\ hs.state = "WAITING" =>
       /\ hs.sout = NewSock /\ hs.piece = 1
       /\ ~web.unacked /\ ~web.heard /\ web.got = <<>> /\ web.flight = {}

HttpdTypes == HttpdStateTypes /\ request \in Seq(STRING)

(* A segment that may be the i-th of the page. *)
Fits(c, pieces, i) == c = Chunk(pieces[i], 1) \/ pieces[i].op = "generate"

(* The client has the pieces before the one that is being sent, and this   *)
(* one if it has heard it; on the way are copies of this one only.         *)
GotOK(pieces, conn) ==
  /\ Len(conn.got) <= Len(pieces) /\ \A i \in DOMAIN conn.got : Fits(conn.got[i], pieces, i)
  /\ conn.st = "closed" => Len(conn.got) = Len(pieces)

SendingOK(pieces, state, conn) ==
  /\ state.sout.sendptr = 1 /\ state.sout.sendlen = 1 /\ conn.unacked
  /\ Len(conn.got) = IF conn.heard THEN state.piece ELSE state.piece - 1
  /\ \A c \in conn.flight : Fits(c, pieces, state.piece)

HttpdStream ==
  hs.state = "OUTPUT" =>
    /\ GotOK(Page(hs.filename), web)
    /\ web.st = "open" => SendingOK(Page(hs.filename), hs, web)

LEMMA HttpdConsts ==
  /\ HeaderParts \in Nat /\ HeaderParts > 0 /\ Room \in Nat /\ Room > 0
  /\ IDLE_MAX \in Nat /\ IDLE_MAX > 0 /\ UIP_MAXRTX \in Nat /\ UIP_MAXRTX > 0
BY HttpdAssumption

(* f[n] is the concatenation of the first n of some sequences. *)
Flattens(f, q) ==
  f[1] = q[1] /\ (\A i \in 2..Len(q) : f[i] = f[i - 1] \o q[i]) /\ FlattenSeq(q) = f[Len(q)]

LEMMA FlattenRun ==
  ASSUME NEW q, Len(q) \in Nat, Len(q) > 0
  PROVE  \E f : Flattens(f, q)
<1> DEFINE L == Len(q)
           Runs(f, n) == f = [i \in 1..n |-> IF i = 1 THEN q[i] ELSE f[i - 1] \o q[i]]
           S == {n \in Nat : \E f : Runs(f, n)}
           run == CHOOSE f : Runs(f, L)
<1>1. 0 \in S
  <2>1. Runs([i \in 1..0 |-> q], 0)  OBVIOUS
  <2> QED  BY <2>1
<1>2. ASSUME NEW n \in Nat, n \in S PROVE n + 1 \in S
  <2>1. PICK f : Runs(f, n)  BY <1>2
  <2> DEFINE g == [i \in 1..n + 1 |-> IF i = 1 THEN q[1] ELSE IF i = n + 1 THEN f[n] \o q[n + 1] ELSE f[i]]
  <2>2. ASSUME NEW i \in 1..n + 1
        PROVE  g[i] = IF i = 1 THEN q[i] ELSE g[i - 1] \o q[i]
    <3>1. CASE i = 1
      <4>1. g[i] = q[1]  BY <3>1
      <4> HIDE DEF g
      <4> QED  BY <3>1, <4>1
    <3>2. CASE i # 1 /\ i = n + 1
      <4>1. n \in 1..n + 1 /\ n \in 1..n /\ n # n + 1 /\ i - 1 = n  BY <3>2
      <4>2. f[n] = IF n = 1 THEN q[n] ELSE f[n - 1] \o q[n]  BY <2>1, <4>1
      <4>3. g[n] = IF n = 1 THEN q[1] ELSE f[n]  BY <4>1
      <4>4. g[i] = f[n] \o q[n + 1]  BY <3>2
      <4> HIDE DEF g
      <4> QED  BY <3>2, <4>1, <4>2, <4>3, <4>4
    <3>3. CASE i # 1 /\ i # n + 1
      <4>1. i \in 1..n /\ i - 1 # n + 1 /\ i - 1 \in 1..n + 1 /\ i - 1 \in 1..n /\ 1 \in 1..n  BY <3>3
      <4>2. g[i] = f[i] /\ g[i - 1] = IF i - 1 = 1 THEN q[1] ELSE f[i - 1]  BY <4>1, <3>3
      <4>3. f[i] = f[i - 1] \o q[i]  BY <2>1, <3>3, <4>1
      <4>4. i - 1 = 1 => f[i - 1] = q[1]  BY <2>1, <4>1
      <4> HIDE DEF g
      <4> QED  BY <3>3, <4>2, <4>3, <4>4
    <3> QED  BY <3>1, <3>2, <3>3
  <2>3. Runs(g, n + 1)  BY <2>2
  <2>4. \E h : Runs(h, n + 1)
    <3> HIDE DEF g, Runs
    <3> QED  BY <2>3
  <2> HIDE DEF Runs
  <2> QED  BY <2>4
<1>3. L \in S
  <2>1. L \in Nat /\ \A n \in Nat : n \in S => n + 1 \in S  BY <1>2
  <2> HIDE DEF S, L
  <2>2. \A n \in Nat : n \in S  BY <1>1, <2>1, SetInduction
  <2> QED  BY <2>1, <2>2
<1>4. Runs(run, L)
  <2>1. \E f : Runs(f, L)  BY <1>3
  <2> HIDE DEF Runs
  <2> QED  BY <2>1
<1>5. FlattenSeq(q) = run[L]  BY DEF FlattenSeq
<1> HIDE DEF run
<1>6. run[1] = q[1]  BY <1>4
<1>7. ASSUME NEW i \in 2..L PROVE run[i] = run[i - 1] \o q[i]
  <2>1. i \in 1..L /\ i # 1  OBVIOUS
  <2>2. run[i] = IF i = 1 THEN q[i] ELSE run[i - 1] \o q[i]  BY <1>4, <2>1
  <2> QED  BY <2>1, <2>2
<1>8. Flattens(run, q)  BY <1>5, <1>6, <1>7 DEF Flattens
<1> QED  BY <1>8

LEMMA FlattenTyped ==
  ASSUME NEW T, NEW q \in Seq(Seq(T))
  PROVE  FlattenSeq(q) \in Seq(T)
<1>1. CASE Len(q) = 0
  <2>1. q = <<>>  BY <1>1
  <2>2. <<>> \in Seq(T)  OBVIOUS
  <2> QED  BY <1>1, <2>1, <2>2 DEF FlattenSeq
<1>2. CASE Len(q) # 0
  <2>1. Len(q) \in Nat /\ Len(q) > 0 /\ \A i \in 1..Len(q) : q[i] \in Seq(T)  BY <1>2
  <2>2. PICK f : Flattens(f, q)  BY <2>1, FlattenRun
  <2> DEFINE S == {n \in Nat : n + 1 <= Len(q) => f[n + 1] \in Seq(T)}
  <2>3. 0 \in S  BY <2>1, <2>2 DEF Flattens
  <2>4. ASSUME NEW n \in Nat, n \in S PROVE n + 1 \in S
    <3> SUFFICES ASSUME n + 1 + 1 <= Len(q) PROVE f[n + 1 + 1] \in Seq(T)  OBVIOUS
    <3>1. n + 2 \in 2..Len(q) /\ n + 2 - 1 = n + 1 /\ n + 1 <= Len(q) /\ n + 1 + 1 = n + 2
      BY <2>1
    <3>2. f[n + 2] = f[n + 1] \o q[n + 2]
      <4>1. PICK i \in 2..Len(q) : i = n + 2 /\ i - 1 = n + 1  BY <3>1
      <4>2. f[i] = f[i - 1] \o q[i]  BY <2>2 DEF Flattens
      <4> QED  BY <4>1, <4>2
    <3>3. f[n + 1] \in Seq(T) /\ q[n + 2] \in Seq(T)  BY <2>1, <2>4, <3>1
    <3>4. f[n + 1] \o q[n + 2] \in Seq(T)  BY <3>3, ConcatProperties
    <3> QED  BY <3>1, <3>2, <3>4
  <2>5. Len(q) - 1 \in S
    <3>1. \A n \in Nat : n \in S => n + 1 \in S  BY <2>4
    <3>2. Len(q) - 1 \in Nat  BY <2>1
    <3> HIDE DEF S
    <3> QED  BY <2>3, <3>1, <3>2, SetInduction
  <2>6. Len(q) - 1 + 1 = Len(q)  BY <2>1
  <2> QED  BY <2>1, <2>2, <2>5, <2>6 DEF Flattens
<1> QED  BY <1>1, <1>2

(* Concatenated sequences of one element each are the sequence of these.   *)
LEMMA FlattenOnes ==
  ASSUME NEW T, NEW e \in Seq(T), NEW q \in Seq(Seq(T)), Len(q) = Len(e),
         \A i \in 1..Len(e) : Len(q[i]) = 1 /\ q[i][1] = e[i]
  PROVE  FlattenSeq(q) = e
<1>1. CASE Len(q) = 0
  <2>1. q = <<>>  BY <1>1
  <2>2. e = <<>>
    <3>1. Len(e) = 0  BY <1>1
    <3> HIDE <1>1
    <3> QED  BY <3>1, EmptySeq
  <2> QED  BY <1>1, <2>1, <2>2 DEF FlattenSeq
<1>2. CASE Len(q) # 0
  <2>1. Len(q) \in Nat /\ Len(q) > 0 /\ \A i \in 1..Len(q) : q[i] \in Seq(T) /\ e[i] \in T  BY <1>2
  <2>2. PICK f : Flattens(f, q)  BY <2>1, FlattenRun
  <2> DEFINE First(n) ==
               f[n] \in Seq(T) /\ Len(f[n]) = n /\ \A i \in 1..n : f[n][i] = e[i]
             S == {n \in Nat : n + 1 <= Len(q) => First(n + 1)}
  <2>3. 0 \in S
    <3>1. 1 \in 1..Len(q) /\ 1 \in 1..Len(e)  BY <2>1
    <3>2. f[1] = q[1]  BY <2>2 DEF Flattens
    <3>3. f[1] \in Seq(T) /\ Len(f[1]) = 1 /\ f[1][1] = e[1]  BY <2>1, <3>1, <3>2
    <3>4. First(1)  BY <3>3
    <3> HIDE DEF First
    <3> QED  BY <3>4
  <2>4. ASSUME NEW n \in Nat, n \in S PROVE n + 1 \in S
    <3> SUFFICES ASSUME n + 1 + 1 <= Len(q) PROVE First(n + 1 + 1)
      <4> HIDE DEF First
      <4> QED  OBVIOUS
    <3>1. n + 2 \in 2..Len(q) /\ n + 2 - 1 = n + 1 /\ n + 1 <= Len(q) /\ n + 1 + 1 = n + 2
          /\ n + 2 \in 1..Len(q)
      BY <2>1
    <3>2. f[n + 2] = f[n + 1] \o q[n + 2]
      <4>1. PICK i \in 2..Len(q) : i = n + 2 /\ i - 1 = n + 1  BY <3>1
      <4>2. f[i] = f[i - 1] \o q[i]  BY <2>2 DEF Flattens
      <4> QED  BY <4>1, <4>2
    <3>3. First(n + 1)
      <4> HIDE DEF First
      <4> QED  BY <2>4, <3>1
    <3>4. PICK a \in Seq(T) : a = f[n + 1]  BY <3>3
    <3>5. PICK b \in Seq(T) : b = q[n + 2]  BY <2>1, <3>1
    <3>6. Len(b) = 1 /\ b[1] = e[n + 2]  BY <3>1, <3>5
    <3>7. Len(a) = n + 1 /\ \A i \in 1..n + 1 : a[i] = e[i]  BY <3>3, <3>4
    <3>8. /\ a \o b \in Seq(T) /\ Len(a \o b) = Len(a) + Len(b)
          /\ \A i \in 1..Len(a) + Len(b) : (a \o b)[i] = IF i <= Len(a) THEN a[i] ELSE b[i - Len(a)]
      BY ConcatProperties
    <3>9. PICK c \in Seq(T) : c = a \o b  BY <3>8
    <3>10. Len(c) = n + 2 /\ \A i \in 1..n + 2 : c[i] = IF i <= n + 1 THEN a[i] ELSE b[i - (n + 1)]
      BY <3>6, <3>7, <3>8, <3>9
    <3>11. ASSUME NEW i \in 1..n + 2 PROVE c[i] = e[i]
      <4>1. CASE i <= n + 1  BY <3>7, <3>10, <4>1
      <4>2. CASE ~(i <= n + 1)
        <5>1. i = n + 2 /\ i - (n + 1) = 1  BY <4>2
        <5> QED  BY <3>6, <3>10, <4>2, <5>1
      <4> QED  BY <4>1, <4>2
    <3>12. f[n + 2] = c  BY <3>2, <3>4, <3>5, <3>9
    <3>13. First(n + 2)  BY <3>10, <3>11, <3>12
    <3> HIDE DEF First
    <3> QED  BY <3>1, <3>13
  <2>5. Len(q) - 1 \in S
    <3>1. \A n \in Nat : n \in S => n + 1 \in S  BY <2>4
    <3>2. Len(q) - 1 \in Nat  BY <2>1
    <3> HIDE DEF S
    <3> QED  BY <2>3, <3>1, <3>2, SetInduction
  <2>6. Len(q) - 1 + 1 = Len(q)  BY <2>1
  <2>7. First(Len(q))
    <3> HIDE DEF First
    <3> QED  BY <2>1, <2>5, <2>6
  <2>8. FlattenSeq(q) = f[Len(q)]  BY <2>2 DEF Flattens
  <2> QED  BY <2>7, <2>8, SeqEqual
<1> QED  BY <1>1, <1>2

LEMMA HttpMinOf ==
  ASSUME NEW M \in SUBSET Nat, M # {}
  PROVE  Min(M) \in M /\ \A k \in M : Min(M) <= k
BY LeastNatural DEF Min

LEMMA MaxOf ==
  ASSUME NEW n \in Nat, NEW M \in SUBSET (1..n), M # {}
  PROVE  Max(M) \in M
<1> DEFINE D == {n - i : i \in M}
<1>1. D \in SUBSET Nat /\ D # {}
  <2>1. \A i \in M : i \in 1..n /\ n - i \in Nat  OBVIOUS
  <2>2. PICK i \in M : TRUE  OBVIOUS
  <2>3. n - i \in D  OBVIOUS
  <2>4. ASSUME NEW d \in D PROVE d \in Nat  BY <2>1
  <2> HIDE DEF D
  <2> QED  BY <2>3, <2>4
<1>2. PICK d \in D : \A k \in D : d <= k
  <2> HIDE DEF D
  <2> QED  BY <1>1, LeastNatural
<1>3. PICK m \in M : d = n - m  BY <1>2
<1>4. ASSUME NEW i \in M PROVE m >= i
  <2>1. n - i \in D /\ n - m <= n - i  BY <1>2, <1>3
  <2> QED  BY <2>1
<1>5. \E x \in M : \A y \in M : x >= y  BY <1>4
<1> QED  BY <1>5 DEF Max

LEMMA FilesTyped ==
  /\ Len(Files) \in Nat /\ DOMAIN Files = 1..Len(Files)
  /\ \A i \in 1..Len(Files) :
       /\ Files[i].name \in Seq(STRING) /\ Files[i].script \in BOOLEAN /\ Files[i].parts \in Seq(Parts)
<1> DEFINE Kind == [name : Seq(STRING), script : BOOLEAN, parts : Seq(Parts)]
<1>1. Files \in Seq(Kind)  BY HttpdAssumption
<1>2. Len(Files) \in Nat /\ DOMAIN Files = 1..Len(Files) /\ \A i \in 1..Len(Files) : Files[i] \in Kind
  <2> HIDE DEF Kind
  <2> QED  BY <1>1
<1> QED  BY <1>2

LEMMA PieceTyped ==
  ASSUME NEW op \in {"send", "generate"}, NEW id \in Ids, NEW len \in {1, HeaderParts}
  PROVE  Piece(op, id, len) \in Pieces
BY DEF Piece, Pieces

LEMMA SendFileTyped ==
  ASSUME NEW i \in 1..Len(Files)
  PROVE  send_file(i) \in Seq(Pieces)
<1>1. PICK f \in Seq(Parts) : f = Files[i].parts  BY FilesTyped
<1>2. Len(f) \in Nat /\ DOMAIN f = 1..Len(f)  BY <1>1
<1>3. ASSUME NEW n \in 1..Len(f) PROVE Piece("generate", <<Files[i].name, n>>, 1) \in Pieces
  <2>1. <<Files[i].name, n>> \in Ids  BY <1>2, FilesTyped DEF Ids
  <2> QED  BY <2>1, PieceTyped
<1>4. send_file(i) = [n \in 1..Len(f) |-> Piece("generate", <<Files[i].name, n>>, 1)]
  BY <1>1, <1>2 DEF send_file
<1> QED  BY <1>2, <1>3, <1>4

LEMMA OpenFinds ==
  ASSUME NEW f, httpd_fs_open(f) # {}
  PROVE  Min(httpd_fs_open(f)) \in 1..Len(Files)
<1>1. httpd_fs_open(f) \in SUBSET (1..Len(Files))  BY FilesTyped DEF httpd_fs_open
<1>2. httpd_fs_open(f) \in SUBSET Nat  BY <1>1, FilesTyped
<1> QED  BY <1>1, <1>2, HttpMinOf

LEMMA NotFoundThere == Min(httpd_fs_open(NotFound)) \in 1..Len(Files)
<1>1. PICK i \in 1..Len(Files) : Files[i].name = NotFound  BY HttpdAssumption, FilesTyped
<1>2. PICK f \in Seq(STRING) : f = NotFound  BY <1>1, FilesTyped
<1>3. Len(f) \in Nat  BY <1>2
<1>4. httpd_fs_strcmp(f, f)
  <2>1. Len(f) + 1 \in 1..Len(f) + 1 /\ \A j \in 1..(Len(f) + 1) - 1 : j <= Len(f)  BY <1>3
  <2> QED  BY <2>1 DEF httpd_fs_strcmp
<1>5. i \in httpd_fs_open(NotFound)  BY <1>1, <1>2, <1>4, FilesTyped DEF httpd_fs_open
<1> QED  BY <1>5, OpenFinds

LEMMA HeadersTyped ==
  ASSUME NEW status \in {200, 404}
  PROVE  send_headers(status) \in Seq(Pieces) /\ Len(send_headers(status)) = 2
<1>1. <<<<"status">>, status>> \in Ids /\ <<<<"type">>, 0>> \in Ids  BY DEF Ids
<1>2. PICK a \in Pieces : a = Piece("send", <<<<"status">>, status>>, HeaderParts)  BY <1>1, PieceTyped
<1>3. PICK b \in Pieces : b = Piece("send", <<<<"type">>, 0>>, 1)  BY <1>1, PieceTyped
<1>4. send_headers(status) = <<a, b>>  BY <1>2, <1>3 DEF send_headers
<1> QED  BY <1>4

LEMMA ScriptTyped ==
  ASSUME NEW i \in 1..Len(Files)
  PROVE  handle_script(i) \in Seq(Pieces)
<1>1. PICK f \in Seq(Parts) : f = Files[i].parts  BY FilesTyped
<1>2. Len(f) \in Nat /\ DOMAIN f = 1..Len(f) /\ \A n \in 1..Len(f) : f[n] \in Parts  BY <1>1
<1> DEFINE ps(n) == CASE f[n].is = "text"    -> <<Piece("send", <<Files[i].name, n>>, 1)>>
                      [] f[n].is = "include" -> send_file(Min(httpd_fs_open(f[n].of)))
                      [] f[n].is = "call"    -> [k \in 1..f[n].rows |-> Piece("generate", <<<<"row">>, k>>, 1)]
           q == [n \in 1..Len(f) |-> ps(n)]
<1>3. ASSUME NEW n \in 1..Len(f) PROVE ps(n) \in Seq(Pieces)
  <2>1. \/ f[n].is = "text"
        \/ f[n].is = "include"
        \/ f[n].is = "call" /\ f[n].rows \in Nat
    BY <1>2 DEF Parts
  <2>2. CASE f[n].is = "text"
    <3>1. <<Files[i].name, n>> \in Ids  BY <1>2, FilesTyped DEF Ids
    <3>2. PICK p \in Pieces : p = Piece("send", <<Files[i].name, n>>, 1)  BY <3>1, PieceTyped
    <3>3. ps(n) = <<p>>  BY <2>2, <3>2
    <3>4. <<p>> \in Seq(Pieces)  OBVIOUS
    <3> HIDE DEF ps
    <3> QED  BY <3>3, <3>4
  <2>3. CASE f[n].is = "include"
    <3>1. httpd_fs_open(f[n].of) # {}  BY <1>1, <1>2, <2>3, IncludesAssumption, FilesTyped
    <3>2. Min(httpd_fs_open(f[n].of)) \in 1..Len(Files)  BY <3>1, OpenFinds
    <3>3. ps(n) = send_file(Min(httpd_fs_open(f[n].of)))  BY <2>3
    <3> HIDE DEF ps
    <3> QED  BY <3>2, <3>3, SendFileTyped
  <2>4. CASE f[n].is = "call" /\ f[n].rows \in Nat
    <3>1. PICK m \in Nat : m = f[n].rows  BY <2>4
    <3>2. ASSUME NEW k \in 1..m PROVE Piece("generate", <<<<"row">>, k>>, 1) \in Pieces
      <4>1. <<<<"row">>, k>> \in Ids  BY <3>1 DEF Ids
      <4> QED  BY <4>1, PieceTyped
    <3>3. ps(n) = [k \in 1..m |-> Piece("generate", <<<<"row">>, k>>, 1)]  BY <2>4, <3>1
    <3>4. [k \in 1..m |-> Piece("generate", <<<<"row">>, k>>, 1)] \in Seq(Pieces)  BY <3>2
    <3> HIDE DEF ps
    <3> QED  BY <3>3, <3>4
  <2> QED  BY <2>1, <2>2, <2>3, <2>4
<1>4. q \in Seq(Seq(Pieces))
  <2> HIDE DEF ps
  <2> QED  BY <1>2, <1>3
<1>5. handle_script(i) = FlattenSeq(q)  BY <1>1, <1>2 DEF handle_script
<1> HIDE DEF q
<1> QED  BY <1>4, <1>5, FlattenTyped

(* A page: its headers, and what is sent of a file. *)
PageOK(p) == p \in Seq(Pieces) /\ Len(p) >= 2

LEMMA PageTyped == ASSUME NEW name PROVE PageOK(Page(name))
<1>1. ASSUME NEW h \in Seq(Pieces), NEW b \in Seq(Pieces), Len(h) = 2 PROVE PageOK(h \o b)
  <2>1. h \o b \in Seq(Pieces) /\ Len(h \o b) = Len(h) + Len(b)  BY ConcatProperties
  <2>2. Len(b) \in Nat  OBVIOUS
  <2>3. Len(h \o b) >= 2  BY <1>1, <2>1, <2>2
  <2> QED  BY <2>1, <2>3 DEF PageOK
<1>2. PageOK(NoPage)
  <2>1. send_file(Min(httpd_fs_open(NotFound))) \in Seq(Pieces)  BY NotFoundThere, SendFileTyped
  <2> QED  BY <1>1, <2>1, HeadersTyped DEF NoPage
<1>3. ASSUME NEW i \in 1..Len(Files) PROVE PageOK(Pages[i])
  <2>1. Pages[i] = send_headers(200) \o (IF Files[i].script THEN handle_script(i) ELSE send_file(i))
    BY FilesTyped DEF Pages
  <2>2. (IF Files[i].script THEN handle_script(i) ELSE send_file(i)) \in Seq(Pieces)
    BY ScriptTyped, SendFileTyped
  <2>3. PICK b \in Seq(Pieces) : b = IF Files[i].script THEN handle_script(i) ELSE send_file(i)  BY <2>2
  <2>4. PICK h \in Seq(Pieces) : h = send_headers(200) /\ Len(h) = 2  BY HeadersTyped
  <2> QED  BY <1>1, <2>1, <2>3, <2>4
<1>4. CASE httpd_fs_open(name) = {}  BY <1>2, <1>4 DEF Page
<1>5. CASE httpd_fs_open(name) # {}
  <2>1. Page(name) = Pages[Min(httpd_fs_open(name))]  BY <1>5 DEF Page
  <2> QED  BY <1>3, <1>5, <2>1, OpenFinds
<1> QED  BY <1>4, <1>5

(* With headers that fit in a segment, a page has a segment for each piece. *)
LEMMA ChunksAre ==
  ASSUME HeaderParts = 1, NEW p \in Seq(Pieces)
  PROVE  Chunks(p) = [i \in 1..Len(p) |-> Chunk(p[i], 1)]
<1>1. Len(p) \in Nat /\ DOMAIN p = 1..Len(p) /\ \A i \in 1..Len(p) : p[i] \in Pieces /\ p[i].len = 1
  <2>1. Len(p) \in Nat /\ DOMAIN p = 1..Len(p) /\ \A i \in 1..Len(p) : p[i] \in Pieces  OBVIOUS
  <2>2. \A x \in Pieces : x.len = 1  BY DEF Pieces
  <2> QED  BY <2>1, <2>2
<1> DEFINE e == [i \in 1..Len(p) |-> Chunk(p[i], 1)]
           q == [i \in 1..Len(p) |-> [n \in 1..p[i].len |-> Chunk(p[i], n)]]
<1>2. e \in Seq(Segs) /\ Len(e) = Len(p)  BY <1>1 DEF Segs
<1>3. ASSUME NEW i \in 1..Len(p)
      PROVE  q[i] \in Seq(Segs) /\ Len(q[i]) = 1 /\ q[i][1] = e[i]
  <2>1. q[i] = [n \in 1..1 |-> Chunk(p[i], n)]  BY <1>1
  <2>2. \A n \in 1..1 : Chunk(p[i], n) \in Segs  BY <1>1 DEF Segs
  <2>3. e[i] = Chunk(p[i], 1)  OBVIOUS
  <2> HIDE DEF q, e
  <2> QED  BY <2>1, <2>2, <2>3
<1>4. q \in Seq(Seq(Segs)) /\ Len(q) = Len(e)
  <2>1. Len(q) = Len(p)  BY <1>1
  <2> HIDE DEF e
  <2> QED  BY <1>1, <1>2, <1>3
<1>5. Chunks(p) = FlattenSeq(q)  BY <1>1 DEF Chunks
<1>6. \A i \in 1..Len(e) : Len(q[i]) = 1 /\ q[i][1] = e[i]
  <2> HIDE DEF q, e
  <2> QED  BY <1>2, <1>3
<1>7. Chunks(p) = e
  <2> HIDE DEF q, e
  <2> QED  BY <1>2, <1>4, <1>5, <1>6, FlattenOnes
<1> QED  BY <1>7

(* What a call works on, with what it sends and whether it ends. *)
HttpdWork ==
  [at : {"get", "path", "headers"}, state : {"WAITING", "OUTPUT"}, filename : FileNames,
   piece : Nat, timer : Nat, sin : Socks, sout : Socks, seg : Segs, ends : {"none", "close", "abort"}]

LEMMA ReadtoTyped ==
  ASSUME NEW r \in Socks, NEW data \in Seq(STRING), NEW marker
  PROVE  /\ psock_readto(r, data, marker, Room) \in Socks
         /\ Len(psock_readto(r, data, marker, Room).line) <= Room
<1> DEFINE ends == {i \in DOMAIN data : data[i] = marker}
           n    == IF ends = {} THEN Len(data) ELSE Min(ends)
           line == (IF r.busy THEN r.line ELSE <<>>) \o SubSeq(data, 1, n)
<1>1. Len(data) \in Nat /\ DOMAIN data = 1..Len(data) /\ \A i \in 1..Len(data) : data[i] \in STRING
  OBVIOUS
<1>2. n \in 0..Len(data)
  <2>1. ends \in SUBSET Nat /\ ends \subseteq 1..Len(data)  BY <1>1
  <2>2. ends # {} => Min(ends) \in 1..Len(data)
    <3> HIDE DEF ends
    <3> QED  BY <2>1, HttpMinOf
  <2> HIDE DEF ends
  <2> QED  BY <1>1, <2>2
<1>3. ASSUME NEW i \in Nat, i > 0, NEW j \in 0..Len(data) PROVE SubSeq(data, i, j) \in Seq(STRING)
  <2>1. ASSUME NEW k \in i..j PROVE data[k] \in STRING
    <3>1. k \in 1..Len(data)  BY <1>1, <1>3
    <3> QED  BY <1>1, <3>1
  <2>2. i \in Int /\ j \in Int  OBVIOUS
  <2> QED  BY <2>1, <2>2, SubSeqProperties
<1>4. line \in Seq(STRING)
  <2>1. PICK a \in Seq(STRING) : a = IF r.busy THEN r.line ELSE <<>>
    <3>1. r.line \in Seq(STRING)  BY DEF Socks
    <3>2. <<>> \in Seq(STRING)  OBVIOUS
    <3> QED  BY <3>1, <3>2
  <2> HIDE DEF n
  <2>2. PICK b \in Seq(STRING) : b = SubSeq(data, 1, n)
    <3>1. 1 \in Nat /\ 1 > 0  OBVIOUS
    <3>2. SubSeq(data, 1, n) \in Seq(STRING)  BY <1>2, <1>3, <3>1
    <3> QED  BY <3>2
  <2>3. a \o b \in Seq(STRING)  BY ConcatProperties
  <2> QED  BY <2>1, <2>2, <2>3
<1> HIDE DEF n, line
<1>5. PICK q \in Seq(STRING) : q = line  BY <1>4
<1>6. PICK m \in Nat : m = Min({Room, Len(q)}) /\ m <= Room /\ m <= Len(q)
  <2>1. {Room, Len(q)} \in SUBSET Nat /\ {Room, Len(q)} # {}  BY HttpdConsts
  <2> QED  BY <2>1, HttpMinOf
<1>7. SubSeq(q, 1, m) \in Seq(STRING) /\ Len(SubSeq(q, 1, m)) <= Room
  <2>1. \A k \in 1..m : q[k] \in STRING  BY <1>6
  <2>2. SubSeq(q, 1, m) \in Seq(STRING) /\ Len(SubSeq(q, 1, m)) = IF 1 <= m THEN m - 1 + 1 ELSE 0
    BY <2>1, SubSeqProperties
  <2>3. PICK k \in Nat : k = Len(SubSeq(q, 1, m))  BY <2>2
  <2>4. k <= m  BY <2>2, <2>3
  <2>5. k <= Room
    <3> HIDE <2>2, <2>3
    <3> QED  BY <1>6, <2>4, HttpdConsts
  <2> QED  BY <2>2, <2>3, <2>5
<1>8. PICK l \in Seq(STRING) : l = SubSeq(q, 1, m) /\ Len(l) <= Room  BY <1>7
<1>9. PICK u \in Seq(STRING) : u = SubSeq(data, n + 1, Len(data))
  <2>1. n + 1 \in Nat /\ n + 1 > 0 /\ Len(data) \in 0..Len(data)  BY <1>1, <1>2
  <2>2. SubSeq(data, n + 1, Len(data)) \in Seq(STRING)  BY <1>3, <2>1
  <2> QED  BY <2>2
<1>10. psock_readto(r, data, marker, Room) =
         [r EXCEPT !.line = l, !.busy = ends = {}, !.unread = u]
  BY <1>5, <1>6, <1>8, <1>9 DEF psock_readto, n, line
<1>11. PICK b \in BOOLEAN : b = (ends = {})  OBVIOUS
<1>12. [r EXCEPT !.line = l, !.busy = b, !.unread = u] \in Socks
       /\ [r EXCEPT !.line = l, !.busy = b, !.unread = u].line = l
  BY DEF Socks
<1> QED  BY <1>8, <1>10, <1>11, <1>12

(* What the input thread leaves: it does not touch the output's sock, and  *)
(* ends the connection only before there is an answer.                     *)
InputOK(c) ==
  c \in HttpdWork /\ Len(c.sin.line) <= Room /\ (c.state = "OUTPUT" <=> c.at = "headers")

Reads(c, d) ==
  /\ InputOK(d) /\ d.piece = c.piece /\ d.timer = c.timer /\ d.sout = c.sout /\ d.seg = c.seg
  /\ d.ends = c.ends \/ (d.ends = "close" /\ d.state = "WAITING")
  /\ c.state = "OUTPUT" => d.state = "OUTPUT" /\ d.filename = c.filename

LEMMA ReadsSin ==
  ASSUME NEW c, InputOK(c), NEW v \in Socks, Len(v.line) <= Room
  PROVE  Reads(c, [c EXCEPT !.sin = v])
<1>1. c \in HttpdWork  BY DEF InputOK
<1>2. PICK d : d = [c EXCEPT !.sin = v]  OBVIOUS
<1>3. d \in HttpdWork /\ d.sin = v /\ d.piece = c.piece /\ d.timer = c.timer /\ d.sout = c.sout
      /\ d.seg = c.seg /\ d.ends = c.ends /\ d.state = c.state /\ d.filename = c.filename /\ d.at = c.at
  BY <1>1, <1>2 DEF HttpdWork
<1> QED  BY <1>2, <1>3 DEF Reads, InputOK

LEMMA ReadsTwice ==
  ASSUME NEW c, NEW d, NEW e, Reads(c, d), Reads(d, e), d.ends = c.ends
  PROVE  Reads(c, e)
BY DEF Reads

LEMMA LastWords ==
  ASSUME NEW data \in Seq(STRING)
  PROVE  LET ends == {i \in DOMAIN data : data[i] = "nl"}
         IN  (IF ends = {} THEN data ELSE SubSeq(data, Max(ends) + 1, Len(data))) \in Seq(STRING)
<1> DEFINE ends == {i \in DOMAIN data : data[i] = "nl"}
<1>1. Len(data) \in Nat /\ DOMAIN data = 1..Len(data) /\ \A i \in 1..Len(data) : data[i] \in STRING
  OBVIOUS
<1>2. CASE ends # {}
  <2>1. ends \in SUBSET (1..Len(data))  BY <1>1
  <2>2. Max(ends) \in 1..Len(data)
    <3> HIDE DEF ends
    <3> QED  BY <1>1, <1>2, <2>1, MaxOf
  <2> HIDE DEF ends
  <2>3. PICK m \in 1..Len(data) : m = Max(ends)  BY <2>2
  <2>4. \A k \in m + 1..Len(data) : data[k] \in STRING  BY <1>1
  <2>5. SubSeq(data, m + 1, Len(data)) \in Seq(STRING)  BY <1>1, <2>4, SubSeqProperties
  <2> USE DEF ends
  <2> QED  BY <1>2, <2>3, <2>5
<1> QED  BY <1>2

LEMMA HeadersReads ==
  ASSUME NEW c, InputOK(c), NEW data \in Seq(STRING)
  PROVE  Reads(c, ReadHeaders(c, data))
<1> DEFINE ends == {i \in DOMAIN data : data[i] = "nl"}
           last == IF ends = {} THEN data ELSE SubSeq(data, Max(ends) + 1, Len(data))
<1>1. last \in Seq(STRING)  BY LastWords
<1>2. PICK b \in BOOLEAN : b = (c.sin.busy /\ ends = {})
  <2>1. (c.sin.busy /\ ends = {}) \in BOOLEAN  OBVIOUS
  <2> QED  BY <2>1
<1>3. PICK r \in Socks : r = [c.sin EXCEPT !.busy = b]
  <2>1. c.sin \in Socks  BY DEF InputOK, HttpdWork
  <2>2. [c.sin EXCEPT !.busy = b] \in Socks  BY <2>1 DEF Socks
  <2> QED  BY <2>2
<1>4. PICK v \in Socks : v = psock_readto(r, last, "nl", Room) /\ Len(v.line) <= Room
  BY <1>1, ReadtoTyped
<1>5. ReadHeaders(c, data) =
        [c EXCEPT !.sin = psock_readto([c.sin EXCEPT !.busy = @ /\ ends = {}], last, "nl", Room)]
  BY DEF ReadHeaders
<1> HIDE DEF ends, last
<1>6. [c.sin EXCEPT !.busy = @ /\ ends = {}] = r  BY <1>2, <1>3
<1>7. ReadHeaders(c, data) = [c EXCEPT !.sin = v]  BY <1>4, <1>5, <1>6
<1> QED  BY <1>4, <1>7, ReadsSin

LEMMA FrontTyped == ASSUME NEW l \in Seq(STRING) PROVE Front(l) \in Seq(STRING)
<1>1. Len(l) \in Nat /\ \A i \in 1..Len(l) - 1 : l[i] \in STRING  OBVIOUS
<1>2. SubSeq(l, 1, Len(l) - 1) \in Seq(STRING)  BY <1>1, SubSeqProperties
<1> QED  BY <1>2 DEF Front

LEMMA PathReads ==
  ASSUME NEW c, InputOK(c), c.at = "path", NEW data \in Seq(STRING)
  PROVE  Reads(c, ReadPath(c, data))
<1>1. c \in HttpdWork /\ c.sin \in Socks /\ c.state = "WAITING"  BY DEF InputOK, HttpdWork
<1>2. PICK r \in Socks : r = psock_readto(c.sin, data, "sp", Room) /\ Len(r.line) <= Room
  BY <1>1, ReadtoTyped
<1>3. PICK d : d = [c EXCEPT !.sin = r]  OBVIOUS
<1>4. /\ d \in HttpdWork /\ d.sin = r /\ d.piece = c.piece /\ d.timer = c.timer /\ d.sout = c.sout
      /\ d.seg = c.seg /\ d.ends = c.ends /\ d.state = "WAITING" /\ d.at = "path"
  BY <1>1, <1>3 DEF HttpdWork
<1>5. PICK name \in FileNames : name = IF r.line[2] = "sp" THEN Index ELSE Front(r.line)
  <2>1. r.line \in Seq(STRING)  BY DEF Socks
  <2> QED  BY <2>1, FrontTyped DEF FileNames
<1>6. r.busy \in BOOLEAN /\ r.unread \in Seq(STRING)  BY DEF Socks
<1>7. CASE r.busy
  <2>1. ReadPath(c, data) = d  BY <1>2, <1>3, <1>7 DEF ReadPath
  <2> QED  BY <1>1, <1>2, <1>3, <2>1, ReadsSin
<1>8. CASE ~r.busy /\ r.line[1] = "/"
  <2>1. PICK e : e = [d EXCEPT !.at = "headers", !.filename = name, !.state = "OUTPUT"]  OBVIOUS
  <2>2. /\ e \in HttpdWork /\ e.sin = r /\ e.piece = c.piece /\ e.timer = c.timer /\ e.sout = c.sout
        /\ e.seg = c.seg /\ e.ends = c.ends /\ e.state = "OUTPUT" /\ e.at = "headers"
    BY <1>4, <2>1 DEF HttpdWork
  <2>3. ReadPath(c, data) = ReadHeaders(e, r.unread)  BY <1>2, <1>3, <1>5, <1>8, <2>1 DEF ReadPath
  <2>4. InputOK(e) /\ Reads(c, e)  BY <1>1, <1>2, <2>2 DEF InputOK, Reads
  <2>5. Reads(e, ReadHeaders(e, r.unread))  BY <1>6, <2>4, HeadersReads
  <2> QED  BY <2>2, <2>3, <2>4, <2>5, ReadsTwice
<1>9. CASE ~r.busy /\ r.line[1] # "/"
  <2>1. PICK e : e = [d EXCEPT !.at = "get", !.ends = "close"]  OBVIOUS
  <2>2. /\ e \in HttpdWork /\ e.sin = r /\ e.piece = c.piece /\ e.timer = c.timer /\ e.sout = c.sout
        /\ e.seg = c.seg /\ e.ends = "close" /\ e.state = "WAITING" /\ e.at = "get"
    BY <1>4, <2>1 DEF HttpdWork
  <2>3. ReadPath(c, data) = e  BY <1>2, <1>3, <1>9, <2>1 DEF ReadPath
  <2> QED  BY <1>1, <1>2, <2>2, <2>3 DEF InputOK, Reads
<1> QED  BY <1>6, <1>7, <1>8, <1>9

LEMMA MethodReads ==
  ASSUME NEW c, InputOK(c), c.at = "get", NEW data \in Seq(STRING)
  PROVE  Reads(c, ReadMethod(c, data))
<1>1. c \in HttpdWork /\ c.sin \in Socks /\ c.state = "WAITING"  BY DEF InputOK, HttpdWork
<1>2. PICK r \in Socks : r = psock_readto(c.sin, data, "sp", Room) /\ Len(r.line) <= Room
  BY <1>1, ReadtoTyped
<1>3. PICK d : d = [c EXCEPT !.sin = r]  OBVIOUS
<1>4. /\ d \in HttpdWork /\ d.sin = r /\ d.piece = c.piece /\ d.timer = c.timer /\ d.sout = c.sout
      /\ d.seg = c.seg /\ d.ends = c.ends /\ d.state = "WAITING" /\ d.at = "get"
  BY <1>1, <1>3 DEF HttpdWork
<1>5. r.busy \in BOOLEAN /\ r.unread \in Seq(STRING)  BY DEF Socks
<1>6. CASE r.busy
  <2>1. ReadMethod(c, data) = d  BY <1>2, <1>3, <1>6 DEF ReadMethod
  <2> QED  BY <1>1, <1>2, <1>3, <2>1, ReadsSin
<1>7. CASE ~r.busy /\ r.line = <<"GET", "sp">>
  <2>1. PICK e : e = [d EXCEPT !.at = "path"]  OBVIOUS
  <2>2. /\ e \in HttpdWork /\ e.sin = r /\ e.piece = c.piece /\ e.timer = c.timer /\ e.sout = c.sout
        /\ e.seg = c.seg /\ e.ends = c.ends /\ e.state = "WAITING" /\ e.at = "path"
    BY <1>4, <2>1 DEF HttpdWork
  <2>3. ReadMethod(c, data) = ReadPath(e, r.unread)  BY <1>2, <1>3, <1>7, <2>1 DEF ReadMethod
  <2>4. InputOK(e) /\ Reads(c, e)  BY <1>1, <1>2, <2>2 DEF InputOK, Reads
  <2>5. Reads(e, ReadPath(e, r.unread))  BY <1>5, <2>2, <2>4, PathReads
  <2> QED  BY <2>2, <2>3, <2>4, <2>5, ReadsTwice
<1>8. CASE ~r.busy /\ r.line # <<"GET", "sp">>
  <2>1. PICK e : e = [d EXCEPT !.ends = "close"]  OBVIOUS
  <2>2. /\ e \in HttpdWork /\ e.sin = r /\ e.piece = c.piece /\ e.timer = c.timer /\ e.sout = c.sout
        /\ e.seg = c.seg /\ e.ends = "close" /\ e.state = "WAITING" /\ e.at = "get"
    BY <1>4, <2>1 DEF HttpdWork
  <2>3. ReadMethod(c, data) = e  BY <1>2, <1>3, <1>8, <2>1 DEF ReadMethod
  <2> QED  BY <1>1, <1>2, <2>2, <2>3 DEF InputOK, Reads
<1> QED  BY <1>5, <1>6, <1>7, <1>8

LEMMA InputReads ==
  ASSUME NEW c, InputOK(c), NEW data \in Seq(STRING)
  PROVE  Reads(c, handle_input(c, data))
<1>1. c.at \in {"get", "path", "headers"}  BY DEF InputOK, HttpdWork
<1>2. CASE c.at = "get"
  <2>1. handle_input(c, data) = ReadMethod(c, data)  BY <1>2 DEF handle_input
  <2> QED  BY <1>2, <2>1, MethodReads
<1>3. CASE c.at = "path"
  <2>1. handle_input(c, data) = ReadPath(c, data)  BY <1>3 DEF handle_input
  <2> QED  BY <1>3, <2>1, PathReads
<1>4. CASE c.at = "headers"
  <2>1. handle_input(c, data) = ReadHeaders(c, data)  BY <1>4 DEF handle_input
  <2> QED  BY <2>1, HeadersReads
<1> QED  BY <1>1, <1>2, <1>3, <1>4

LEMMA PieceFacts ==
  ASSUME NEW p \in Pieces
  PROVE  p.len \in Nat /\ p.len > 0 /\ \A n \in Nat : Chunk(p, n) \in Segs
BY HttpdConsts DEF Pieces, Segs

(* send_data, to a sock that has something to send. *)
LEMMA SendDataIs ==
  ASSUME NEW r \in Socks, NEW ev, NEW p \in Pieces, r.sendlen > 0
  PROVE  LET v == send_data(r, ev, p)
         IN  /\ v \in Socks /\ v.busy = r.busy /\ v.sendptr = r.sendptr /\ v.sendlen = r.sendlen
             /\ SendsData(r, ev) => /\ v.state = "DATA_SENT" /\ v.out
                                    /\ v.seg = IF p.op = "generate" THEN r.seg ELSE Chunk(p, r.sendptr)
             /\ ~SendsData(r, ev) => v = r
<1>1. r.sendlen \in Nat /\ r.sendlen # 0 /\ r.sendptr \in Nat /\ r.seg \in Segs  BY DEF Socks
<1>2. CASE SendsData(r, ev)
  <2>1. PICK g \in Segs : g = IF p.op = "generate" THEN r.seg ELSE Chunk(p, r.sendptr)
    BY <1>1, PieceFacts
  <2>2. send_data(r, ev, p) = [r EXCEPT !.state = "DATA_SENT", !.out = TRUE, !.seg = g]
    BY <1>1, <1>2, <2>1 DEF send_data
  <2>3. PICK v : v = [r EXCEPT !.state = "DATA_SENT", !.out = TRUE, !.seg = g]  OBVIOUS
  <2>4. /\ v \in Socks /\ v.busy = r.busy /\ v.sendptr = r.sendptr /\ v.sendlen = r.sendlen
        /\ v.state = "DATA_SENT" /\ v.out /\ v.seg = g
    BY <2>3 DEF Socks
  <2> QED  BY <1>2, <2>1, <2>2, <2>3, <2>4
<1>3. CASE ~SendsData(r, ev)
  <2>1. send_data(r, ev, p) = r  BY <1>3 DEF send_data
  <2> QED  BY <1>3, <2>1
<1> QED  BY <1>2, <1>3

(* One turn of the loop, when what was sent is taken for acknowledged. *)
Turn(r, ev, p) == send_data(data_acked(r, ev), ev, p)

LEMMA TurnIs ==
  ASSUME NEW r \in Socks, NEW ev, NEW p \in Pieces, InPiece(r), "acked" \in ev
  PROVE  LET v == Turn(r, ev, p)
         IN  /\ v \in Socks /\ v.busy = r.busy /\ v.state = "DATA_SENT" /\ v.sendlen = r.sendlen - 1
             /\ v.out \in BOOLEAN
<1>1. r.sendlen \in Nat /\ r.sendlen > 0 /\ r.sendptr \in Nat /\ r.state = "DATA_SENT"
      /\ r.sendlen - 1 \in Nat /\ r.sendptr + 1 \in Nat
  BY DEF Socks, InPiece
<1>2. PICK q : q = [r EXCEPT !.sendptr = r.sendptr + 1, !.sendlen = r.sendlen - 1, !.state = "ACKED"]
  OBVIOUS
<1>3. data_acked(r, ev) = q  BY <1>1, <1>2 DEF data_acked, DataAcked
<1>4. q \in Socks /\ q.busy = r.busy /\ q.state = "ACKED" /\ q.sendlen = r.sendlen - 1
  BY <1>1, <1>2 DEF Socks
<1>5. SendsData(q, ev)  BY <1>4 DEF SendsData
<1>6. CASE q.sendlen > 0
  <2>1. PICK v : v = send_data(q, ev, p)  OBVIOUS
  <2>2. v \in Socks /\ v.busy = q.busy /\ v.state = "DATA_SENT" /\ v.sendlen = q.sendlen
    BY <1>4, <1>5, <1>6, <2>1, SendDataIs
  <2>3. v.out \in BOOLEAN  BY <2>2 DEF Socks
  <2> QED  BY <1>3, <1>4, <2>1, <2>2, <2>3 DEF Turn
<1>7. CASE ~(q.sendlen > 0)
  <2>1. q.sendlen = 0  BY <1>1, <1>4, <1>7
  <2>2. send_data(q, ev, p) = [q EXCEPT !.state = "DATA_SENT"]  BY <1>5, <2>1 DEF send_data
  <2>3. PICK v : v = [q EXCEPT !.state = "DATA_SENT"]  OBVIOUS
  <2>4. /\ v \in Socks /\ v.busy = q.busy /\ v.state = "DATA_SENT" /\ v.sendlen = q.sendlen
        /\ v.out \in BOOLEAN
    BY <1>4, <2>3 DEF Socks
  <2> QED  BY <1>3, <1>4, <2>2, <2>3, <2>4 DEF Turn
<1> QED  BY <1>6, <1>7

TurnRun(f, r, ev, p) ==
  /\ f[0] = r /\ \A n \in 1..r.sendlen : f[n] = Turn(f[n - 1], ev, p)
  /\ DataAcked(r, ev) => WaitSent(r, ev, p) = [f[r.sendlen] EXCEPT !.state = "NONE", !.busy = FALSE]

LEMMA TurnsRun ==
  ASSUME NEW r, NEW ev, NEW p, r.sendlen \in Nat
  PROVE  \E f : TurnRun(f, r, ev, p)
<1> DEFINE L == r.sendlen
           Runs(f, n) == f = [i \in 0..n |-> IF i = 0 THEN r ELSE Turn(f[i - 1], ev, p)]
           S == {n \in Nat : \E f : Runs(f, n)}
           run == CHOOSE f : Runs(f, L)
<1>1. 0 \in S
  <2>1. Runs([i \in 0..0 |-> r], 0)  OBVIOUS
  <2> QED  BY <2>1
<1>2. ASSUME NEW n \in Nat, n \in S PROVE n + 1 \in S
  <2>1. PICK f : Runs(f, n)  BY <1>2
  <2> DEFINE g == [i \in 0..n + 1 |-> IF i = n + 1 THEN Turn(f[n], ev, p) ELSE f[i]]
  <2>2. ASSUME NEW i \in 0..n + 1
        PROVE  g[i] = IF i = 0 THEN r ELSE Turn(g[i - 1], ev, p)
    <3>1. CASE i = n + 1
      <4>1. n \in 0..n + 1 /\ n # n + 1 /\ i - 1 = n /\ i # 0  BY <3>1
      <4>2. g[n] = f[n] /\ g[n + 1] = Turn(f[n], ev, p)  BY <4>1
      <4> HIDE DEF g
      <4> QED  BY <3>1, <4>1, <4>2
    <3>2. CASE i # n + 1
      <4>1. i \in 0..n /\ i - 1 # n + 1 /\ (i # 0 => i - 1 \in 0..n + 1)  BY <3>2
      <4>2. g[i] = f[i] /\ (i # 0 => g[i - 1] = f[i - 1])  BY <4>1, <3>2
      <4>3. f[i] = IF i = 0 THEN r ELSE Turn(f[i - 1], ev, p)  BY <2>1, <4>1
      <4> HIDE DEF g
      <4> QED  BY <4>2, <4>3
    <3> QED  BY <3>1, <3>2
  <2>3. Runs(g, n + 1)  BY <2>2
  <2>4. \E h : Runs(h, n + 1)
    <3> HIDE DEF g, Runs
    <3> QED  BY <2>3
  <2> HIDE DEF Runs
  <2> QED  BY <2>4
<1>3. L \in S
  <2>1. L \in Nat /\ \A n \in Nat : n \in S => n + 1 \in S  BY <1>2
  <2> HIDE DEF S, L
  <2>2. \A n \in Nat : n \in S  BY <1>1, <2>1, SetInduction
  <2> QED  BY <2>1, <2>2
<1>4. Runs(run, L)
  <2>1. \E f : Runs(f, L)  BY <1>3
  <2> HIDE DEF Runs
  <2> QED  BY <2>1
<1>5. WaitSent(r, ev, p) =
        IF DataAcked(r, ev) THEN [run[L] EXCEPT !.state = "NONE", !.busy = FALSE]
        ELSE send_data(r, ev, p)
  BY DEF WaitSent, Turn
<1> HIDE DEF run
<1>6. TurnRun(run, r, ev, p)  BY <1>4, <1>5 DEF TurnRun
<1> QED  BY <1>6

(* The loop, when what was sent is acknowledged, is left. *)
LEMMA AckedWait ==
  ASSUME NEW r \in Socks, NEW ev, NEW p \in Pieces, InPiece(r), "acked" \in ev
  PROVE  WaitSent(r, ev, p) \in Socks /\ ~WaitSent(r, ev, p).busy
<1>1. r.sendlen \in Nat /\ r.busy /\ DataAcked(r, ev)  BY DEF Socks, InPiece, DataAcked
<1>2. PICK L \in Nat : L = r.sendlen  BY <1>1
<1>3. PICK f : TurnRun(f, r, ev, p)  BY <1>1, TurnsRun
<1> DEFINE At(n) == f[n] \in Socks /\ f[n].state = "DATA_SENT" /\ f[n].busy /\ f[n].sendlen = L - n
           S == {n \in Nat : n <= L => At(n)}
<1>4. 0 \in S  BY <1>1, <1>2, <1>3 DEF TurnRun, InPiece
<1>5. ASSUME NEW n \in Nat, n \in S PROVE n + 1 \in S
  <2> SUFFICES ASSUME n + 1 <= L PROVE At(n + 1)  OBVIOUS
  <2>1. n <= L /\ n + 1 \in 1..L /\ (n + 1) - 1 = n /\ L - n > 0 /\ L - (n + 1) = L - n - 1  OBVIOUS
  <2>2. f[n] \in Socks /\ f[n].state = "DATA_SENT" /\ f[n].busy /\ f[n].sendlen = L - n  BY <1>5, <2>1
  <2>3. f[n + 1] = Turn(f[n], ev, p)  BY <1>2, <1>3, <2>1 DEF TurnRun
  <2>4. InPiece(f[n])  BY <2>1, <2>2 DEF InPiece
  <2>5. /\ f[n + 1] \in Socks /\ f[n + 1].busy = f[n].busy /\ f[n + 1].state = "DATA_SENT"
        /\ f[n + 1].sendlen = f[n].sendlen - 1
    <3>1. PICK q \in Socks : q = f[n]  BY <2>2
    <3>2. PICK v : v = Turn(q, ev, p)  OBVIOUS
    <3>3. v \in Socks /\ v.busy = q.busy /\ v.state = "DATA_SENT" /\ v.sendlen = q.sendlen - 1
      BY <2>4, <3>1, <3>2, TurnIs
    <3>4. f[n + 1] = v  BY <2>3, <3>1, <3>2
    <3> QED  BY <3>1, <3>3, <3>4
  <2> QED  BY <2>1, <2>2, <2>5
<1>6. L \in S
  <2>1. \A n \in Nat : n \in S => n + 1 \in S  BY <1>5
  <2> HIDE DEF S
  <2> QED  BY <1>4, <2>1, SetInduction
<1>7. f[L] \in Socks  BY <1>6
<1>8. WaitSent(r, ev, p) = [f[L] EXCEPT !.state = "NONE", !.busy = FALSE]  BY <1>1, <1>2, <1>3 DEF TurnRun
<1>9. PICK q \in Socks : q = f[L]  BY <1>7
<1>10. [q EXCEPT !.state = "NONE", !.busy = FALSE] \in Socks
       /\ ~[q EXCEPT !.state = "NONE", !.busy = FALSE].busy
  BY DEF Socks
<1> QED  BY <1>8, <1>9, <1>10

(* A sock that begins a piece; one that goes on with it, and may send it   *)
(* again; and one that is done with it.                                    *)
Begun(v, p) ==
  InPiece(v) /\ v.sendptr = 1 /\ v.sendlen = p.len /\ v.out /\ v.seg = Chunk(p, 1)

GoesOnWith(r, v, p) ==
  /\ InPiece(v) /\ v.sendptr = r.sendptr /\ v.sendlen = r.sendlen
  /\ ~r.out /\ v.out => v.seg = Chunk(p, r.sendptr) \/ p.op = "generate"

SendEffect(r, ev, p, v) ==
  /\ v \in Socks
  /\ ~r.busy => Begun(v, p)
  /\ InPiece(r) /\ "acked" \notin ev => GoesOnWith(r, v, p)
  /\ InPiece(r) /\ "acked" \in ev => ~v.busy

LEMMA PsockSends ==
  ASSUME NEW r \in Socks, NEW ev, NEW p \in Pieces, r.busy => InPiece(r)
  PROVE  SendEffect(r, ev, p, psock_send(r, ev, p))
<1>1. p.len \in Nat /\ p.len # 0 /\ p.len > 0 /\ Chunk(p, 1) \in Segs  BY PieceFacts
<1>2. r.busy \in BOOLEAN /\ r.seg \in Segs  BY DEF Socks
<1>3. CASE ~r.busy
  <2>1. PICK g \in Segs : g = IF p.op = "generate" THEN Chunk(p, 1) ELSE r.seg  BY <1>1, <1>2
  <2>2. PICK b : b = [r EXCEPT !.busy = TRUE, !.sendptr = 1, !.sendlen = p.len, !.state = "NONE", !.seg = g]
    OBVIOUS
  <2>3. /\ b \in Socks /\ b.busy /\ b.sendptr = 1 /\ b.sendlen = p.len /\ b.state = "NONE" /\ b.seg = g
    BY <1>1, <2>2 DEF Socks
  <2>4. psock_send(r, ev, p) = WaitSent(b, ev, p)  BY <1>1, <1>3, <2>1, <2>2 DEF psock_send
  <2>5. WaitSent(b, ev, p) = send_data(b, ev, p)  BY <2>3 DEF WaitSent, DataAcked
  <2>6. SendsData(b, ev) /\ b.sendlen > 0  BY <1>1, <2>3 DEF SendsData
  <2>7. PICK v : v = send_data(b, ev, p)  OBVIOUS
  <2>8. /\ v \in Socks /\ v.busy = b.busy /\ v.sendptr = b.sendptr /\ v.sendlen = b.sendlen
        /\ v.state = "DATA_SENT" /\ v.out
        /\ v.seg = IF p.op = "generate" THEN b.seg ELSE Chunk(p, b.sendptr)
    BY <2>3, <2>6, <2>7, SendDataIs
  <2>9. v.seg = Chunk(p, 1)  BY <2>1, <2>3, <2>8
  <2>10. Begun(v, p)  BY <1>1, <2>3, <2>8, <2>9 DEF Begun, InPiece
  <2>11. ~InPiece(r)  BY <1>3 DEF InPiece
  <2> QED  BY <2>4, <2>5, <2>7, <2>8, <2>10, <2>11 DEF SendEffect
<1>4. CASE r.busy
  <2>1. InPiece(r) /\ r.sendlen > 0 /\ r.state = "DATA_SENT"  BY <1>4 DEF InPiece
  <2>2. psock_send(r, ev, p) = WaitSent(r, ev, p)  BY <1>1, <1>4 DEF psock_send
  <2>3. CASE "acked" \in ev
    <3>1. WaitSent(r, ev, p) \in Socks /\ ~WaitSent(r, ev, p).busy  BY <2>1, <2>3, AckedWait
    <3> QED  BY <1>4, <2>2, <2>3, <3>1 DEF SendEffect
  <2>4. CASE "acked" \notin ev
    <3>1. WaitSent(r, ev, p) = send_data(r, ev, p)  BY <2>4 DEF WaitSent, DataAcked
    <3>2. PICK v : v = send_data(r, ev, p)  OBVIOUS
    <3>3. /\ v \in Socks /\ v.busy = r.busy /\ v.sendptr = r.sendptr /\ v.sendlen = r.sendlen
          /\ SendsData(r, ev) => /\ v.state = "DATA_SENT" /\ v.out
                                 /\ v.seg = IF p.op = "generate" THEN r.seg ELSE Chunk(p, r.sendptr)
          /\ ~SendsData(r, ev) => v = r
      BY <2>1, <3>2, SendDataIs
    <3>4. v.state = "DATA_SENT" /\ (~r.out /\ v.out => v.seg = Chunk(p, r.sendptr) \/ p.op = "generate")
      BY <2>1, <3>3
    <3>5. GoesOnWith(r, v, p)  BY <1>4, <2>1, <3>3, <3>4 DEF GoesOnWith, InPiece
    <3> QED  BY <1>4, <2>2, <2>4, <3>1, <3>2, <3>3, <3>5 DEF SendEffect
  <2> QED  BY <2>3, <2>4
<1> QED  BY <1>2, <1>3, <1>4

(* A piece is sent, or waited for: the rest of the work stays.             *)
SameWork(c, d) ==
  /\ d \in HttpdWork /\ d.at = c.at /\ d.state = c.state /\ d.filename = c.filename
  /\ d.timer = c.timer /\ d.sin = c.sin

PieceEffect(c, ev, p, d) ==
  /\ SameWork(c, d) /\ d.ends = c.ends /\ d.seg = d.sout.seg
  /\ ~c.sout.busy => d.piece = c.piece /\ Begun(d.sout, p)
  /\ InPiece(c.sout) /\ "acked" \notin ev => d.piece = c.piece /\ GoesOnWith(c.sout, d.sout, p)
  /\ InPiece(c.sout) /\ "acked" \in ev => d.piece = c.piece + 1 /\ ~d.sout.busy

LEMMA PieceSent ==
  ASSUME NEW c \in HttpdWork, NEW ev, NEW p \in Pieces, c.sout.busy => InPiece(c.sout)
  PROVE  PieceEffect(c, ev, p, SendPiece(c, ev, p))
<1>1. c.sout \in Socks /\ c.seg \in Segs /\ c.piece \in Nat /\ c.piece + 1 \in Nat
  <2>1. c.sout \in Socks /\ c.seg \in Segs /\ c.piece \in Nat  BY DEF HttpdWork
  <2> QED  BY <2>1
<1>2. PICK r : r = [c.sout EXCEPT !.seg = c.seg]  OBVIOUS
<1>3. /\ r \in Socks /\ r.busy = c.sout.busy /\ r.state = c.sout.state /\ r.sendptr = c.sout.sendptr
      /\ r.sendlen = c.sout.sendlen /\ r.out = c.sout.out
  BY <1>1, <1>2 DEF Socks
<1>4. InPiece(r) <=> InPiece(c.sout)  BY <1>3 DEF InPiece
<1>5. PICK v : v = psock_send(r, ev, p)  OBVIOUS
<1>6. SendEffect(r, ev, p, v)  BY <1>3, <1>4, <1>5, PsockSends
<1>7. v \in Socks /\ v.seg \in Segs /\ v.busy \in BOOLEAN  BY <1>6 DEF SendEffect, Socks
<1>8. PICK n \in Nat : n = IF v.busy THEN c.piece ELSE c.piece + 1  BY <1>1
<1>9. SendPiece(c, ev, p) = [c EXCEPT !.sout = v, !.seg = v.seg, !.piece = n]
  BY <1>2, <1>5, <1>8 DEF SendPiece
<1>10. PICK d : d = [c EXCEPT !.sout = v, !.seg = v.seg, !.piece = n]  OBVIOUS
<1>11. /\ d \in HttpdWork /\ d.at = c.at /\ d.state = c.state /\ d.filename = c.filename
       /\ d.timer = c.timer /\ d.sin = c.sin /\ d.ends = c.ends /\ d.sout = v /\ d.seg = v.seg /\ d.piece = n
  BY <1>7, <1>10 DEF HttpdWork
<1>12. ~c.sout.busy => d.piece = c.piece /\ Begun(d.sout, p)
  BY <1>3, <1>6, <1>8, <1>11 DEF SendEffect, Begun, InPiece
<1>13. InPiece(c.sout) /\ "acked" \notin ev => d.piece = c.piece /\ GoesOnWith(c.sout, d.sout, p)
  BY <1>3, <1>4, <1>6, <1>8, <1>11 DEF SendEffect, GoesOnWith, InPiece
<1>14. InPiece(c.sout) /\ "acked" \in ev => d.piece = c.piece + 1 /\ ~d.sout.busy
  BY <1>4, <1>6, <1>8, <1>11 DEF SendEffect
<1>15. PieceEffect(c, ev, p, d)  BY <1>11, <1>12, <1>13, <1>14 DEF PieceEffect, SameWork
<1> QED  BY <1>9, <1>10, <1>15

(* What the output threads leave: they go on with their piece, begin one,  *)
(* or are done with the page.                                              *)
OutputEffect(c, ev, pieces, e) ==
  /\ SameWork(c, e) /\ e.piece \in 1..Len(pieces)
  /\ \/ /\ e.ends = "close" /\ InPiece(c.sout) /\ "acked" \in ev /\ c.piece = Len(pieces)
     \/ /\ e.ends = c.ends /\ e.seg = e.sout.seg /\ InPiece(e.sout)
        /\ \/ ~c.sout.busy /\ e.piece = c.piece /\ Begun(e.sout, pieces[e.piece])
           \/ /\ InPiece(c.sout) /\ "acked" \notin ev
              /\ e.piece = c.piece /\ GoesOnWith(c.sout, e.sout, pieces[e.piece])
           \/ /\ InPiece(c.sout) /\ "acked" \in ev
              /\ e.piece = c.piece + 1 /\ Begun(e.sout, pieces[e.piece])

LEMMA OutputIs ==
  ASSUME NEW c \in HttpdWork, NEW ev, NEW pieces, pieces = Page(c.filename),
         c.piece \in 1..Len(pieces), c.sout.busy => InPiece(c.sout)
  PROVE  OutputEffect(c, ev, pieces, handle_output(c, ev))
<1>1. pieces \in Seq(Pieces) /\ Len(pieces) \in Nat /\ Len(pieces) >= 1
  <2>1. PageOK(pieces)  BY PageTyped
  <2> QED  BY <2>1 DEF PageOK
<1>2. PICK L \in Nat : L = Len(pieces) /\ L >= 1  BY <1>1
<1>3. PICK k \in 1..L : k = c.piece  BY <1>2
<1>4. pieces[k] \in Pieces  BY <1>1, <1>2, <1>3
<1>5. PICK d : d = SendPiece(c, ev, pieces[k])  OBVIOUS
<1>6. PieceEffect(c, ev, pieces[k], d)  BY <1>4, <1>5, PieceSent
<1>7. /\ SameWork(c, d) /\ d \in HttpdWork /\ d.ends = c.ends /\ d.seg = d.sout.seg /\ d.piece \in Nat
      /\ d.sout \in Socks /\ c.sout.busy \in BOOLEAN /\ d.sout.busy \in BOOLEAN
  BY <1>6 DEF PieceEffect, SameWork, HttpdWork, Socks
<1>8. handle_output(c, ev) =
        CASE d.sout.busy -> d
          [] ~d.sout.busy /\ d.piece <= L -> SendPiece(d, ev, pieces[d.piece])
          [] ~d.sout.busy /\ d.piece > L  -> [d EXCEPT !.piece = 1, !.ends = "close"]
  BY <1>2, <1>3, <1>5 DEF handle_output
<1>9. CASE ~(InPiece(c.sout) /\ "acked" \in ev)
  <2>1. /\ d.piece = k
        /\ \/ ~c.sout.busy /\ Begun(d.sout, pieces[k])
           \/ InPiece(c.sout) /\ "acked" \notin ev /\ GoesOnWith(c.sout, d.sout, pieces[k])
    BY <1>3, <1>6, <1>7, <1>9 DEF PieceEffect
  <2>2. InPiece(d.sout)  BY <2>1 DEF Begun, GoesOnWith
  <2>3. d.sout.busy  BY <2>2 DEF InPiece
  <2>4. handle_output(c, ev) = d  BY <1>8, <2>3
  <2> QED  BY <1>2, <1>3, <1>7, <2>1, <2>2, <2>4 DEF OutputEffect
<1>10. CASE InPiece(c.sout) /\ "acked" \in ev
  <2>1. d.piece = k + 1 /\ ~d.sout.busy  BY <1>3, <1>6, <1>10 DEF PieceEffect
  <2>2. CASE k = L
    <3>1. d.piece > L /\ ~(d.piece <= L)  BY <1>7, <2>1, <2>2
    <3>2. PICK e : e = [d EXCEPT !.piece = 1, !.ends = "close"]  OBVIOUS
    <3>3. e \in HttpdWork /\ e.at = d.at /\ e.state = d.state /\ e.filename = d.filename
          /\ e.timer = d.timer /\ e.sin = d.sin /\ e.piece = 1 /\ e.ends = "close"
      BY <1>7, <3>2 DEF HttpdWork
    <3>4. handle_output(c, ev) = e  BY <1>8, <2>1, <3>1, <3>2
    <3>5. SameWork(c, e)  BY <1>7, <3>3 DEF SameWork
    <3>6. 1 \in 1..Len(pieces)  BY <1>2
    <3> QED  BY <1>2, <1>3, <1>10, <2>2, <3>3, <3>4, <3>5, <3>6 DEF OutputEffect
  <2>3. CASE k # L
    <3>1. k + 1 \in 1..L /\ ~(k + 1 > L) /\ k + 1 <= L  BY <2>3
    <3>2. PICK m \in 1..L : m = k + 1 /\ m <= L /\ ~(m > L)  BY <3>1
    <3>3. pieces[m] \in Pieces /\ d.piece = m  BY <1>1, <1>2, <2>1, <3>2
    <3>4. PICK e : e = SendPiece(d, ev, pieces[m])  OBVIOUS
    <3>5. handle_output(c, ev) = e  BY <1>8, <2>1, <3>2, <3>3, <3>4
    <3>6. PieceEffect(d, ev, pieces[m], e)  BY <1>7, <2>1, <3>3, <3>4, PieceSent
    <3>7. e.piece = m /\ Begun(e.sout, pieces[m]) /\ SameWork(d, e) /\ e.ends = d.ends /\ e.seg = e.sout.seg
      BY <2>1, <3>3, <3>6 DEF PieceEffect
    <3>8. SameWork(c, e)  BY <1>7, <3>7 DEF SameWork
    <3>9. InPiece(e.sout)  BY <3>7 DEF Begun
    <3> QED  BY <1>2, <1>3, <1>7, <1>10, <3>2, <3>5, <3>7, <3>8, <3>9 DEF OutputEffect
  <2> QED  BY <2>2, <2>3
<1> QED  BY <1>9, <1>10

LEMMA NewSockTyped == NewSock \in Socks /\ NoChunk \in Segs /\ ~NewSock.busy /\ NewSock.line = <<>>
<1>1. NoChunk \in Segs  BY DEF Segs
<1>2. <<>> \in Seq(STRING)  OBVIOUS
<1> QED  BY <1>1, <1>2 DEF NewSock, Socks

(* What a call begins with, when there is an answer under way and when     *)
(* there is none.                                                          *)
CallOK(c, ev) ==
  /\ InputOK(c) /\ c.ends \in {"none", "abort"} /\ web \in HttpdConns
  /\ c.timer <= IDLE_MAX /\ (c.ends = "none" => c.timer < IDLE_MAX)
  /\ "rexmit" \in ev => web.nrtx < UIP_MAXRTX
  /\ web.nrtx <= UIP_MAXRTX
  /\ c.state = "OUTPUT" =>
       web.st = "open" /\ c.piece \in 1..Len(Page(c.filename)) /\ InPiece(c.sout) /\ ~c.sout.out
  /\ c.state = "WAITING" =>
       /\ c.sout = NewSock /\ c.piece = 1 /\ ~web.unacked /\ web.flight = {}
       /\ web.st = "open" => ~web.heard /\ web.got = <<>>

(* There is no answer yet, or the output threads have had their turn.      *)
NoAnswer(c, e) ==
  c.state = "WAITING" /\ e.state = "WAITING" /\ e.sout = NewSock /\ e.piece = 1

AnswersWith(c, ev, d, e) ==
  /\ d.state = "OUTPUT" /\ d.ends = c.ends /\ d.sout = c.sout /\ d.piece = c.piece
  /\ c.state = "OUTPUT" => d.filename = c.filename
  /\ OutputEffect(d, ev, Page(d.filename), e)

CallEffect(c, ev, e) ==
  /\ InputOK(e) /\ e.timer = c.timer
  /\ e.ends = c.ends \/ e.ends = "close"
  /\ NoAnswer(c, e) \/ \E d : AnswersWith(c, ev, d, e)

LEMMA CallIsEffect ==
  ASSUME NEW c, NEW ev, CallOK(c, ev), NEW words \in Seq(STRING), handle_connection(c, ev, words)
  PROVE  \E e : CallEffect(c, ev, e) /\ Answered(e, ev)
<1>1. PICK d : d = handle_input(c, words)  OBVIOUS
<1>2. PICK e : e = (IF d.state = "OUTPUT" THEN handle_output(d, ev) ELSE d) /\ Answered(e, ev)
  BY <1>1 DEF handle_connection
<1>3. InputOK(c)  BY DEF CallOK
<1>4. Reads(c, d)  BY <1>1, <1>3, InputReads
<1>5. InputOK(d) /\ d \in HttpdWork /\ d.state \in {"WAITING", "OUTPUT"} /\ c.state \in {"WAITING", "OUTPUT"}
  BY <1>3, <1>4 DEF Reads, InputOK, HttpdWork
<1>6. CASE d.state = "OUTPUT"
  <2>1. d.ends = c.ends /\ d.sout = c.sout /\ d.piece = c.piece /\ d.timer = c.timer
        /\ (c.state = "OUTPUT" => d.filename = c.filename)
    BY <1>4, <1>6 DEF Reads
  <2>2. PICK pieces : pieces = Page(d.filename)  OBVIOUS
  <2>3. PageOK(pieces)  BY <2>2, PageTyped
  <2>4. d.piece \in 1..Len(pieces)
    <3>1. CASE c.state = "OUTPUT"  BY <2>1, <2>2, <3>1 DEF CallOK
    <3>2. CASE c.state = "WAITING"
      <4>1. d.piece = 1  BY <2>1, <3>2 DEF CallOK
      <4>2. Len(pieces) \in Nat /\ Len(pieces) >= 1  BY <2>3 DEF PageOK
      <4> QED  BY <4>1, <4>2
    <3> QED  BY <1>5, <3>1, <3>2
  <2>5. d.sout.busy => InPiece(d.sout)
    <3>1. CASE c.state = "OUTPUT"  BY <2>1, <3>1 DEF CallOK
    <3>2. CASE c.state = "WAITING"  BY <2>1, <3>2, NewSockTyped DEF CallOK
    <3> QED  BY <1>5, <3>1, <3>2
  <2>6. OutputEffect(d, ev, pieces, e)  BY <1>2, <1>5, <1>6, <2>2, <2>4, <2>5, OutputIs
  <2>7. SameWork(d, e) /\ (e.ends = d.ends \/ e.ends = "close")  BY <2>6 DEF OutputEffect
  <2>8. InputOK(e) /\ e.timer = c.timer  BY <1>5, <2>1, <2>7 DEF SameWork, InputOK
  <2>9. AnswersWith(c, ev, d, e)  BY <1>6, <2>1, <2>2, <2>6 DEF AnswersWith
  <2>10. CallEffect(c, ev, e)  BY <2>1, <2>7, <2>8, <2>9 DEF CallEffect
  <2> QED  BY <1>2, <2>10
<1>7. CASE d.state # "OUTPUT"
  <2>1. e = d /\ e.state = "WAITING" /\ c.state = "WAITING"  BY <1>2, <1>4, <1>5, <1>7 DEF Reads
  <2>2. e.sout = NewSock /\ e.piece = 1 /\ e.timer = c.timer /\ (e.ends = c.ends \/ e.ends = "close")
    BY <1>4, <2>1 DEF Reads, CallOK
  <2>3. CallEffect(c, ev, e)  BY <1>5, <2>1, <2>2 DEF CallEffect, NoAnswer
  <2> QED  BY <1>2, <2>3
<1> QED  BY <1>6, <1>7

(* The state and the connection after the call.                            *)
Left(e, ev) ==
  /\ hs' \in HttpdStates /\ web' \in HttpdConns /\ uipbuf' = e.seg
  /\ hs'.at = e.at /\ hs'.state = e.state /\ hs'.filename = e.filename /\ hs'.piece = e.piece
  /\ hs'.timer = e.timer /\ hs'.sin.line = e.sin.line
  /\ hs'.sout = [e.sout EXCEPT !.seg = NoChunk, !.out = FALSE]
  /\ web'.st = (IF e.ends = "none" THEN "open" ELSE IF e.ends = "close" THEN "closed" ELSE "aborted")
  /\ web'.got = (IF web.st = "open" THEN web.got ELSE <<>>)
  /\ web'.nrtx = (IF "rexmit" \in ev THEN web.nrtx + 1 ELSE 0)
  /\ web'.heard = (web.st = "open" /\ "acked" \notin ev /\ web.heard)
  /\ web'.unacked = (e.ends = "none" /\ (e.sout.out \/ (web.unacked /\ "acked" \notin ev)))
  /\ web'.flight = IF e.ends # "none" THEN {}
                   ELSE (IF "acked" \in ev THEN {} ELSE web.flight)
                          \cup (IF e.sout.out THEN {e.seg} ELSE {})

LEMMA AnsweredLeft ==
  ASSUME NEW e \in HttpdWork, NEW ev, web \in HttpdConns, Answered(e, ev)
  PROVE  Left(e, ev)
<1>1. /\ e.at \in {"get", "path", "headers"} /\ e.state \in {"WAITING", "OUTPUT"}
      /\ e.filename \in FileNames /\ e.piece \in Nat /\ e.timer \in Nat /\ e.sin \in Socks
      /\ e.sout \in Socks /\ e.seg \in Segs /\ e.ends \in {"none", "close", "abort"}
  BY DEF HttpdWork
<1>2. e.sout.out \in BOOLEAN  BY <1>1 DEF Socks
<1>3. /\ web.got \in Seq(Segs) /\ web.nrtx \in Nat /\ web.heard \in BOOLEAN /\ web.unacked \in BOOLEAN
      /\ web.flight \in SUBSET Segs
  BY DEF HttpdConns
<1>4. PICK i \in Socks : i = [e.sin EXCEPT !.unread = <<>>] /\ i.line = e.sin.line
  <2>1. <<>> \in Seq(STRING)  OBVIOUS
  <2>2. PICK r \in Socks : r = e.sin  BY <1>1
  <2>3. [r EXCEPT !.unread = <<>>] \in Socks /\ [r EXCEPT !.unread = <<>>].line = r.line
    BY <2>1 DEF Socks
  <2> QED  BY <2>2, <2>3
<1>5. PICK o \in Socks : o = [e.sout EXCEPT !.seg = NoChunk, !.out = FALSE]
  <2>1. PICK r \in Socks : r = e.sout  BY <1>1
  <2>2. [r EXCEPT !.seg = NoChunk, !.out = FALSE] \in Socks  BY NewSockTyped DEF Socks
  <2> QED  BY <2>1, <2>2
<1>6. hs' = [at |-> e.at, state |-> e.state, filename |-> e.filename, piece |-> e.piece,
             timer |-> e.timer, sin |-> i, sout |-> o]
  BY <1>4, <1>5 DEF Answered
<1>7. /\ hs' \in HttpdStates /\ hs'.at = e.at /\ hs'.state = e.state /\ hs'.filename = e.filename
      /\ hs'.piece = e.piece /\ hs'.timer = e.timer /\ hs'.sin = i /\ hs'.sout = o
  BY <1>1, <1>6 DEF HttpdStates
<1>8. PICK st \in {"open", "closed", "aborted"} :
         st = IF e.ends = "none" THEN "open" ELSE IF e.ends = "close" THEN "closed" ELSE "aborted"
  OBVIOUS
<1>9. PICK g \in Seq(Segs) : g = IF web.st = "open" THEN web.got ELSE <<>>
  <2>1. <<>> \in Seq(Segs)  OBVIOUS
  <2> QED  BY <1>3, <2>1
<1>10. PICK n \in Nat : n = IF "rexmit" \in ev THEN web.nrtx + 1 ELSE 0
  <2>1. web.nrtx + 1 \in Nat  BY <1>3
  <2> QED  BY <2>1
<1>11. PICK h \in BOOLEAN : h = (web.st = "open" /\ "acked" \notin ev /\ web.heard)  OBVIOUS
<1>12. PICK u \in BOOLEAN : u = (e.ends = "none" /\ (e.sout.out \/ (web.unacked /\ "acked" \notin ev)))  OBVIOUS
<1>13. PICK l \in SUBSET Segs :
         l = IF e.ends # "none" THEN {}
             ELSE (IF "acked" \in ev THEN {} ELSE web.flight) \cup (IF e.sout.out THEN {e.seg} ELSE {})
  BY <1>1, <1>3
<1>14. web' = [st |-> st, got |-> g, nrtx |-> n, heard |-> h, unacked |-> u, flight |-> l]
  <2>1. st = CASE e.ends = "close" -> "closed" [] e.ends = "abort" -> "aborted" [] e.ends = "none" -> "open"
    BY <1>1, <1>8
  <2> QED  BY <1>9, <1>10, <1>11, <1>12, <1>13, <2>1 DEF Answered
<1>15. /\ web' \in HttpdConns /\ web'.st = st /\ web'.got = g /\ web'.nrtx = n /\ web'.heard = h
       /\ web'.unacked = u /\ web'.flight = l
  BY <1>14 DEF HttpdConns
<1>16. uipbuf' = e.seg  BY DEF Answered
<1> QED
  BY <1>4, <1>5, <1>7, <1>8, <1>9, <1>10, <1>11, <1>12, <1>13, <1>15, <1>16 DEF Left

LEMMA CallTypes ==
  ASSUME NEW c, NEW ev, CallOK(c, ev), NEW e, CallEffect(c, ev, e), Left(e, ev)
  PROVE  HttpdStateTypes'
<1>1. e \in HttpdWork /\ Len(e.sin.line) <= Room /\ (e.state = "OUTPUT" <=> e.at = "headers")
      /\ e.timer = c.timer /\ e.ends \in {"none", "close", "abort"} /\ e.seg \in Segs
  BY DEF CallEffect, InputOK, HttpdWork
<1>2. /\ hs' \in HttpdStates /\ web' \in HttpdConns /\ uipbuf' \in Segs /\ Len(hs'.sin.line) <= Room
      /\ (hs'.state = "OUTPUT" <=> hs'.at = "headers")
  BY <1>1 DEF Left
<1>3. web'.nrtx <= UIP_MAXRTX
  <2>1. web.nrtx \in Nat  BY DEF CallOK, HttpdConns
  <2>2. CASE "rexmit" \in ev
    <3>1. web'.nrtx = web.nrtx + 1 /\ web.nrtx < UIP_MAXRTX  BY <2>2 DEF Left, CallOK
    <3> QED  BY <2>1, <3>1, HttpdConsts
  <2>3. CASE "rexmit" \notin ev
    <3>1. web'.nrtx = 0  BY <2>3 DEF Left
    <3> QED  BY <3>1, HttpdConsts
  <2> QED  BY <2>2, <2>3
<1>4. hs'.timer <= IDLE_MAX /\ (web'.st = "open" => hs'.timer < IDLE_MAX)
  <2>1. hs'.timer = c.timer /\ c.timer <= IDLE_MAX  BY <1>1 DEF Left, CallOK
  <2>2. web'.st = "open" => e.ends = "none"  BY <1>1 DEF Left
  <2>3. e.ends = "none" => c.ends = "none"  BY DEF CallEffect
  <2> QED  BY <2>1, <2>2, <2>3 DEF CallOK
<1>5. web'.st # "open" => ~web'.unacked /\ web'.flight = {}  BY DEF Left
<1>6. CASE NoAnswer(c, e)
  <2>1. e.sout = NewSock /\ e.piece = 1 /\ e.state = "WAITING" /\ c.state = "WAITING" /\ ~e.sout.out
    BY <1>6 DEF NoAnswer, NewSock
  <2>2. hs'.sout = NewSock
    <3>1. [NewSock EXCEPT !.seg = NoChunk, !.out = FALSE] = NewSock
      <4>1. PICK r \in Socks : r = NewSock  BY NewSockTyped
      <4>2. r.seg = NoChunk /\ r.out = FALSE  BY <4>1 DEF NewSock
      <4>3. [r EXCEPT !.seg = NoChunk, !.out = FALSE] = r  BY <4>2 DEF Socks
      <4> QED  BY <4>1, <4>3
    <3> QED  BY <2>1, <3>1 DEF Left
  <2>3. ~web'.unacked /\ ~web'.heard /\ web'.got = <<>> /\ web'.flight = {}  BY <2>1 DEF Left, CallOK
  <2>4. hs'.state = "WAITING" /\ hs'.piece = 1  BY <2>1 DEF Left
  <2> QED  BY <1>2, <1>3, <1>4, <1>5, <2>2, <2>3, <2>4 DEF HttpdStateTypes
<1>7. ASSUME NEW d, AnswersWith(c, ev, d, e) PROVE HttpdStateTypes'
  <2>1. OutputEffect(d, ev, Page(d.filename), e) /\ d.state = "OUTPUT" /\ d.ends = c.ends
    BY <1>7 DEF AnswersWith
  <2>2. e.state = "OUTPUT" /\ e.filename = d.filename /\ e.piece \in 1..Len(Page(d.filename))
    BY <2>1 DEF OutputEffect, SameWork
  <2>3. hs'.state = "OUTPUT" /\ hs'.piece \in 1..Len(Page(hs'.filename))  BY <2>2 DEF Left
  <2>4. web'.st = "open" => InPiece(e.sout)
    <3>1. web'.st = "open" => e.ends = "none"  BY <1>1 DEF Left
    <3> QED  BY <2>1, <3>1 DEF OutputEffect
  <2>5. InPiece(e.sout) => InPiece(hs'.sout)
    <3>1. PICK r \in Socks : r = e.sout  BY <1>1 DEF HttpdWork
    <3>2. PICK o : o = [r EXCEPT !.seg = NoChunk, !.out = FALSE]  OBVIOUS
    <3>3. o.busy = r.busy /\ o.state = r.state /\ o.sendlen = r.sendlen  BY <3>2 DEF Socks
    <3>4. hs'.sout = o  BY <3>1, <3>2 DEF Left
    <3> QED  BY <3>1, <3>3, <3>4 DEF InPiece
  <2>6. ~hs'.sout.out
    <3>1. PICK r \in Socks : r = e.sout  BY <1>1 DEF HttpdWork
    <3>2. ~[r EXCEPT !.seg = NoChunk, !.out = FALSE].out  BY DEF Socks
    <3> QED  BY <3>1, <3>2 DEF Left
  <2> QED  BY <1>2, <1>3, <1>4, <1>5, <2>3, <2>4, <2>5, <2>6 DEF HttpdStateTypes
<1> QED  BY <1>6, <1>7 DEF CallEffect

(* What a call works on agrees with a state.                               *)
SameBut(c, d) ==
  /\ d.at = c.at /\ d.state = c.state /\ d.filename = c.filename /\ d.piece = c.piece
  /\ d.sin = c.sin /\ d.sout = c.sout

WorksOn(c, state) ==
  c \in HttpdWork /\ SameBut(state, c) /\ c.timer = state.timer /\ c.ends = "none"

LEMMA WorkOf ==
  ASSUME NEW state \in HttpdStates, uipbuf \in Segs, NEW words
  PROVE  WorksOn(Work(state, words), state)
<1>1. /\ state.at \in {"get", "path", "headers"} /\ state.state \in {"WAITING", "OUTPUT"}
      /\ state.filename \in FileNames /\ state.piece \in Nat /\ state.timer \in Nat
      /\ state.sin \in Socks /\ state.sout \in Socks
  BY DEF HttpdStates
<1>2. PICK g \in Segs : g = IF words = <<>> THEN uipbuf ELSE NoChunk
  BY NewSockTyped
<1>3. PICK c : c = Work(state, words)  OBVIOUS
<1>4. c = [at |-> state.at, state |-> state.state, filename |-> state.filename, piece |-> state.piece,
           timer |-> state.timer, sin |-> state.sin, sout |-> state.sout, seg |-> g, ends |-> "none"]
  BY <1>2, <1>3 DEF Work
<1>5. c \in HttpdWork  BY <1>1, <1>4 DEF HttpdWork
<1>6. SameBut(state, c) /\ c.timer = state.timer /\ c.ends = "none"  BY <1>4 DEF SameBut
<1> QED  BY <1>3, <1>5, <1>6 DEF WorksOn

TimedOK(c, d) ==
  /\ d \in HttpdWork /\ SameBut(c, d) /\ d.ends \in {"none", "abort"} /\ d.timer <= IDLE_MAX
  /\ d.ends = "none" => d.timer < IDLE_MAX

LEMMA TimedIs ==
  ASSUME NEW c \in HttpdWork, c.ends = "none", c.timer < IDLE_MAX, NEW ev
  PROVE  TimedOK(c, Timed(c, ev))
<1>1. c.timer \in Nat  BY DEF HttpdWork
<1>2. IDLE_MAX \in Nat /\ IDLE_MAX > 0  BY HttpdConsts
<1>3. CASE "poll" \in ev
  <2>1. PICK k \in Nat : k = c.timer  BY <1>1
  <2>2. k < IDLE_MAX  BY <2>1
  <2>3. k + 1 \in Nat /\ k + 1 <= IDLE_MAX  BY <1>1, <1>2, <2>2
  <2>4. PICK t \in Nat : t = k + 1  BY <2>3
  <2>5. PICK x \in {"none", "abort"} : x = IF t >= IDLE_MAX THEN "abort" ELSE "none"  OBVIOUS
  <2>6. Timed(c, ev) = [c EXCEPT !.timer = t, !.ends = x]
    BY <1>3, <2>1, <2>4, <2>5 DEF Timed
  <2>7. PICK d : d = [c EXCEPT !.timer = t, !.ends = x]  OBVIOUS
  <2>8. d \in HttpdWork /\ SameBut(c, d) /\ d.ends = x /\ d.timer = t  BY <2>7 DEF HttpdWork, SameBut
  <2>9. x = "none" => t < IDLE_MAX
    <3>1. x = "none" => ~(t >= IDLE_MAX)  BY <2>5
    <3>2. ~(t >= IDLE_MAX) => t < IDLE_MAX  BY <1>1, <1>2
    <3> QED  BY <3>1, <3>2
  <2>10. t <= IDLE_MAX  BY <2>3, <2>4
  <2>11. TimedOK(c, d)  BY <2>8, <2>9, <2>10 DEF TimedOK
  <2> QED  BY <2>6, <2>7, <2>11
<1>4. CASE "poll" \notin ev
  <2>1. Timed(c, ev) = [c EXCEPT !.timer = 0]  BY <1>4 DEF Timed
  <2>2. PICK d : d = [c EXCEPT !.timer = 0]  OBVIOUS
  <2>3. d \in HttpdWork /\ SameBut(c, d) /\ d.ends = "none" /\ d.timer = 0  BY <2>2 DEF HttpdWork, SameBut
  <2>4. 0 <= IDLE_MAX /\ 0 < IDLE_MAX  BY <1>1, <1>2
  <2>5. TimedOK(c, d)  BY <2>3, <2>4 DEF TimedOK
  <2> QED  BY <2>1, <2>2, <2>5
<1> QED  BY <1>3, <1>4

(* A call with what uIP tells, on an open connection.                      *)
AppCall(c, ev) ==
  CallOK(c, ev) /\ SameBut(hs, c)

LEMMA HttpdCallOK ==
  ASSUME HttpdStateTypes, web.st = "open", NEW ev, "rexmit" \in ev => web.nrtx < UIP_MAXRTX, NEW words,
         httpd_appcall(ev, words)
  PROVE  \E c : AppCall(c, ev) /\ handle_connection(c, ev, words)
<1>1. PICK b : b = Work(hs, words)  OBVIOUS
<1>2. b \in HttpdWork /\ SameBut(hs, b) /\ b.timer = hs.timer /\ b.ends = "none"
  <2>1. hs \in HttpdStates /\ uipbuf \in Segs  BY DEF HttpdStateTypes
  <2> QED  BY <1>1, <2>1, WorkOf DEF WorksOn
<1>3. b.timer < IDLE_MAX  BY <1>2 DEF HttpdStateTypes
<1>4. PICK c : c = Timed(b, ev)  OBVIOUS
<1>5. /\ c \in HttpdWork /\ SameBut(b, c) /\ c.ends \in {"none", "abort"} /\ c.timer <= IDLE_MAX
      /\ c.ends = "none" => c.timer < IDLE_MAX
  BY <1>2, <1>3, <1>4, TimedIs DEF TimedOK
<1>6. SameBut(hs, c)  BY <1>2, <1>5 DEF SameBut
<1>7. InputOK(c)  BY <1>5, <1>6 DEF InputOK, SameBut, HttpdStateTypes
<1>8. web \in HttpdConns /\ web.nrtx <= UIP_MAXRTX  BY DEF HttpdStateTypes
<1>9. c.state = "OUTPUT" => c.piece \in 1..Len(Page(c.filename)) /\ InPiece(c.sout) /\ ~c.sout.out
  BY <1>6 DEF SameBut, HttpdStateTypes
<1>10. c.state = "WAITING" =>
          /\ c.sout = NewSock /\ c.piece = 1 /\ ~web.unacked /\ web.flight = {}
          /\ ~web.heard /\ web.got = <<>>
  BY <1>6 DEF SameBut, HttpdStateTypes
<1>11. CallOK(c, ev)  BY <1>5, <1>7, <1>8, <1>9, <1>10 DEF CallOK
<1>12. handle_connection(c, ev, words)  BY <1>1, <1>4 DEF httpd_appcall
<1> QED  BY <1>6, <1>11, <1>12 DEF AppCall

(* A new connection, when there is none.                                   *)
LEMMA StartTyped == HttpdStart \in HttpdStates
<1>1. <<>> \in Seq(STRING)  OBVIOUS
<1> QED  BY <1>1, NewSockTyped DEF HttpdStart, HttpdStates, FileNames

LEMMA ConnectOK ==
  ASSUME HttpdStateTypes, web.st # "open"
  PROVE  CallOK(Work(HttpdStart, <<>>), {}) /\ Work(HttpdStart, <<>>).state = "WAITING"
<1>1. PICK c : c = Work(HttpdStart, <<>>)  OBVIOUS
<1>2. /\ c \in HttpdWork /\ c.at = "get" /\ c.state = "WAITING" /\ c.piece = 1 /\ c.timer = 0
      /\ c.sin = NewSock /\ c.sout = NewSock /\ c.ends = "none"
  <2>1. uipbuf \in Segs  BY DEF HttpdStateTypes
  <2>2. WorksOn(c, HttpdStart)  BY <1>1, <2>1, StartTyped, WorkOf
  <2> QED  BY <2>2 DEF WorksOn, SameBut, HttpdStart
<1>3. Len(c.sin.line) <= Room
  <2>1. c.sin.line = <<>>  BY <1>2, NewSockTyped
  <2>2. Len(<<>>) = 0  OBVIOUS
  <2> QED  BY <2>1, <2>2, HttpdConsts
<1>4. InputOK(c)  BY <1>2, <1>3 DEF InputOK
<1>5. web \in HttpdConns /\ web.nrtx <= UIP_MAXRTX /\ ~web.unacked /\ web.flight = {}
  BY DEF HttpdStateTypes
<1>6. c.timer <= IDLE_MAX /\ c.timer < IDLE_MAX  BY <1>2, HttpdConsts
<1>7. CallOK(c, {})  BY <1>2, <1>4, <1>5, <1>6 DEF CallOK
<1> QED  BY <1>1, <1>2, <1>7

(* Every call is one of these.                                             *)
LEMMA CallKeeps ==
  ASSUME NEW c, NEW ev, CallOK(c, ev), NEW words \in Seq(STRING), handle_connection(c, ev, words)
  PROVE  HttpdStateTypes' /\ \E e : CallEffect(c, ev, e) /\ Left(e, ev)
<1>1. PICK e : CallEffect(c, ev, e) /\ Answered(e, ev)  BY CallIsEffect
<1>2. e \in HttpdWork  BY <1>1 DEF CallEffect, InputOK
<1>3. web \in HttpdConns  BY DEF CallOK
<1>4. Left(e, ev)  BY <1>1, <1>2, <1>3, AnsweredLeft
<1> QED  BY <1>1, <1>4, CallTypes

(* What a step is: a call on the open connection with what uIP may tell,   *)
(* the call for a new connection, or something that leaves the state.      *)
HttpdMayTell(ev) ==
  ("rexmit" \in ev => web.nrtx < UIP_MAXRTX) /\ ("acked" \in ev => web.heard)

Called ==
  web.st = "open" /\ \E c, ev, e : AppCall(c, ev) /\ HttpdMayTell(ev) /\ CallEffect(c, ev, e) /\ Left(e, ev)

Accepted ==
  web.st # "open" /\ \E c, e : CallOK(c, {}) /\ c.state = "WAITING" /\ CallEffect(c, {}, e) /\ Left(e, {})

Ended ==
  /\ UNCHANGED hs /\ web.st = "open"
  /\ \E st \in {"gone", "timedout"} : web' = [web EXCEPT !.st = st, !.unacked = FALSE, !.flight = {}]

HttpdStepIs == Called \/ Accepted \/ Arrives \/ Ended \/ UNCHANGED <<hs, web>>

HttpdKeeps == HttpdStateTypes' /\ HttpdStepIs

LEMMA HttpdCallSteps ==
  ASSUME HttpdTypes, web.st = "open", NEW ev, HttpdMayTell(ev), NEW words \in Seq(STRING),
         httpd_appcall(ev, words)
  PROVE  HttpdKeeps
<1>1. HttpdStateTypes /\ ("rexmit" \in ev => web.nrtx < UIP_MAXRTX)  BY DEF HttpdTypes, HttpdMayTell
<1>2. PICK c : AppCall(c, ev) /\ handle_connection(c, ev, words)  BY <1>1, HttpdCallOK
<1>3. CallOK(c, ev)  BY <1>2 DEF AppCall
<1>4. HttpdStateTypes' /\ \E e : CallEffect(c, ev, e) /\ Left(e, ev)  BY <1>2, <1>3, CallKeeps
<1> QED  BY <1>2, <1>4 DEF HttpdKeeps, HttpdStepIs, Called

LEMMA ConnectSteps ==
  ASSUME HttpdTypes, web.st # "open", handle_connection(Work(HttpdStart, <<>>), {}, <<>>)
  PROVE  HttpdKeeps
<1>1. HttpdStateTypes  BY DEF HttpdTypes
<1>2. PICK c : c = Work(HttpdStart, <<>>)  OBVIOUS
<1>3. CallOK(c, {}) /\ c.state = "WAITING"  BY <1>1, <1>2, ConnectOK
<1>4. <<>> \in Seq(STRING)  OBVIOUS
<1>5. handle_connection(c, {}, <<>>)  BY <1>2
<1>6. HttpdStateTypes' /\ \E e : CallEffect(c, {}, e) /\ Left(e, {})  BY <1>3, <1>4, <1>5, CallKeeps
<1> QED  BY <1>3, <1>6 DEF HttpdKeeps, HttpdStepIs, Accepted

LEMMA EndedKeeps ==
  ASSUME HttpdTypes, Ended, uipbuf' = uipbuf
  PROVE  HttpdKeeps
<1>1. PICK st \in {"gone", "timedout"} : web' = [web EXCEPT !.st = st, !.unacked = FALSE, !.flight = {}]
  BY DEF Ended
<1>2. web \in HttpdConns  BY DEF HttpdTypes, HttpdStateTypes
<1>3. /\ web' \in HttpdConns /\ web'.st = st /\ web'.nrtx = web.nrtx /\ ~web'.unacked
      /\ web'.flight = {} /\ web'.heard = web.heard /\ web'.got = web.got
  BY <1>1, <1>2 DEF HttpdConns
<1>4. hs' = hs  BY DEF Ended
<1>5. HttpdStateTypes'
  BY <1>3, <1>4 DEF HttpdTypes, HttpdStateTypes
<1> QED  BY <1>5 DEF HttpdKeeps, HttpdStepIs

LEMMA ArrivesKeeps ==
  ASSUME HttpdTypes, Arrives
  PROVE  HttpdKeeps
<1>1. PICK copy \in web.flight :
         web' = [web EXCEPT !.heard = TRUE, !.flight = @ \ {copy},
                            !.got = IF web.heard THEN @ ELSE Append(@, copy)]
  BY DEF Arrives
<1>2. web \in HttpdConns  BY DEF HttpdTypes, HttpdStateTypes
<1>3. copy \in Segs  BY <1>1, <1>2 DEF HttpdConns
<1>4. PICK g \in Seq(Segs) : g = IF web.heard THEN web.got ELSE Append(web.got, copy)
  <2>1. PICK q \in Seq(Segs) : q = web.got  BY <1>2 DEF HttpdConns
  <2>2. Append(q, copy) \in Seq(Segs)  BY <1>3
  <2> QED  BY <2>1, <2>2
<1>5. PICK f \in SUBSET Segs : f = web.flight \ {copy}  BY <1>2 DEF HttpdConns
<1>6. web' = [web EXCEPT !.heard = TRUE, !.flight = f, !.got = g]  BY <1>1, <1>4, <1>5
<1>7. web' \in HttpdConns /\ web'.st = web.st /\ web'.nrtx = web.nrtx /\ web'.unacked = web.unacked
  BY <1>2, <1>6 DEF HttpdConns
<1>8. web.st = "open" /\ web.unacked /\ UNCHANGED <<hs, request, uipbuf>>  BY DEF Arrives
<1>9. hs.state # "WAITING"  BY <1>8 DEF HttpdTypes, HttpdStateTypes
<1>10. HttpdStateTypes'  BY <1>7, <1>8, <1>9 DEF HttpdTypes, HttpdStateTypes
<1> QED  BY <1>10 DEF HttpdKeeps, HttpdStepIs

LEMMA WordsTyped ==
  ASSUME request \in Seq(STRING), NEW n \in Nat, n <= Len(request)
  PROVE  Words(n) \in Seq(STRING) /\ (TakesUp(n) => request' \in Seq(STRING))
<1>1. PICK q \in Seq(STRING) : q = request  OBVIOUS
<1>2. SubSeq(q, 1, n) \in Seq(STRING)  BY <1>1
<1>3. SubSeq(q, n + 1, Len(q)) \in Seq(STRING)
  <2>1. Len(q) \in Nat /\ n <= Len(q)  BY <1>1
  <2>2. \A i \in n + 1..Len(q) : q[i] \in STRING  BY <2>1
  <2> QED  BY <2>1, <2>2, SubSeqProperties
<1> QED  BY <1>1, <1>2, <1>3 DEF Words, TakesUp

LEMMA HttpdNextSteps ==
  ASSUME HttpdTypes, HttpdNext
  PROVE  HttpdKeeps /\ request' \in Seq(STRING)
<1>1. request \in Seq(STRING) /\ <<>> \in Seq(STRING)  BY DEF HttpdTypes
<1>2. Len(request) \in Nat  BY <1>1
<1>3. ASSUME NEW r \in Requests, httpd_connected(r)  PROVE HttpdKeeps /\ request' \in Seq(STRING)
  <2>1. web.st # "open" /\ request' = r /\ handle_connection(Work(HttpdStart, <<>>), {}, <<>>)
    BY <1>3 DEF httpd_connected
  <2> QED  BY <2>1, ConnectSteps, HttpdAssumption
<1>4. ASSUME NEW n \in 1..Len(request), NewData(n)  PROVE HttpdKeeps /\ request' \in Seq(STRING)
  <2>1. web.st = "open" /\ TakesUp(n) /\ httpd_appcall({"newdata"}, Words(n))  BY <1>4 DEF NewData
  <2>2. n \in Nat /\ n <= Len(request)  BY <1>2
  <2>3. Words(n) \in Seq(STRING) /\ request' \in Seq(STRING)  BY <1>1, <2>1, <2>2, WordsTyped
  <2>4. HttpdMayTell({"newdata"})  BY DEF HttpdMayTell
  <2> QED  BY <2>1, <2>3, <2>4, HttpdCallSteps
<1>5. ASSUME NEW n \in 0..Len(request), SegmentAcked(n)  PROVE HttpdKeeps /\ request' \in Seq(STRING)
  <2>1. PICK ev : ev = {"acked"} \cup (IF n = 0 THEN {} ELSE {"newdata"})  OBVIOUS
  <2>2. web.st = "open" /\ web.heard /\ TakesUp(n) /\ httpd_appcall(ev, Words(n))
    BY <1>5, <2>1 DEF SegmentAcked
  <2>3. n \in Nat /\ n <= Len(request)  BY <1>2
  <2>4. Words(n) \in Seq(STRING) /\ request' \in Seq(STRING)  BY <1>1, <2>2, <2>3, WordsTyped
  <2>5. "rexmit" \notin ev  BY <2>1
  <2>6. HttpdMayTell(ev)  BY <2>2, <2>5 DEF HttpdMayTell
  <2> QED  BY <2>2, <2>4, <2>6, HttpdCallSteps
<1>6. CASE Arrives
  <2>1. request' = request  BY <1>6 DEF Arrives
  <2> QED  BY <1>1, <1>6, <2>1, ArrivesKeeps
<1>7. CASE uip_periodic
  <2>1. request' = request /\ web.st = "open"  BY <1>7 DEF uip_periodic
  <2>2. web.nrtx \in Nat /\ web.nrtx <= UIP_MAXRTX /\ web.unacked \in BOOLEAN
    BY DEF HttpdTypes, HttpdStateTypes, HttpdConns
  <2>3. CASE web.unacked /\ web.nrtx < UIP_MAXRTX
    <3>0. ~(web.nrtx = UIP_MAXRTX)  BY <2>2, <2>3, HttpdConsts
    <3>1. httpd_appcall({"rexmit"}, <<>>)  BY <1>7, <2>3, <3>0 DEF uip_periodic
    <3>2. HttpdMayTell({"rexmit"})  BY <2>3 DEF HttpdMayTell
    <3> QED  BY <1>1, <2>1, <3>1, <3>2, HttpdCallSteps
  <2>4. CASE web.unacked /\ web.nrtx = UIP_MAXRTX
    <3>1. ~(web.nrtx < UIP_MAXRTX)  BY <2>4, HttpdConsts
    <3>2. web' = [web EXCEPT !.st = "timedout", !.unacked = FALSE, !.flight = {}] /\ UNCHANGED <<hs, uipbuf>>
      BY <1>7, <2>4, <3>1 DEF uip_periodic
    <3>3. Ended /\ uipbuf' = uipbuf  BY <2>1, <3>2 DEF Ended
    <3> QED  BY <1>1, <2>1, <3>3, EndedKeeps
  <2>5. CASE ~web.unacked
    <3>1. httpd_appcall({"poll"}, <<>>)  BY <1>7, <2>5 DEF uip_periodic
    <3>2. HttpdMayTell({"poll"})  BY DEF HttpdMayTell
    <3> QED  BY <1>1, <2>1, <3>1, <3>2, HttpdCallSteps
  <2>6. web.nrtx < UIP_MAXRTX \/ web.nrtx = UIP_MAXRTX  BY <2>2, HttpdConsts
  <2> QED  BY <2>3, <2>4, <2>5, <2>6
<1>8. CASE Gone
  <2>1. request' = request /\ uipbuf' = uipbuf /\ Ended  BY <1>8 DEF Gone, Ended
  <2> QED  BY <1>1, <2>1, EndedKeeps
<1>9. CASE Overwrite
  <2>1. uipbuf' \in Segs /\ UNCHANGED <<hs, web, request>>  BY <1>9, NewSockTyped DEF Overwrite
  <2>2. HttpdStateTypes'  BY <2>1 DEF HttpdTypes, HttpdStateTypes
  <2> QED  BY <1>1, <2>1, <2>2 DEF HttpdKeeps, HttpdStepIs
<1> QED  BY <1>3, <1>4, <1>5, <1>6, <1>7, <1>8, <1>9 DEF HttpdNext

LEMMA HttpdSteps ==
  ASSUME HttpdTypes, [HttpdNext]_httpdVars
  PROVE  HttpdTypes' /\ HttpdStepIs
<1>1. CASE HttpdNext  BY <1>1, HttpdNextSteps DEF HttpdKeeps, HttpdTypes
<1>2. CASE UNCHANGED httpdVars
  <2>1. UNCHANGED <<hs, web, request, uipbuf>>  BY <1>2 DEF httpdVars
  <2>2. HttpdTypes'  BY <2>1 DEF HttpdTypes, HttpdStateTypes
  <2> QED  BY <2>1, <2>2 DEF HttpdStepIs
<1> QED  BY <1>1, <1>2

LEMMA HttpdInitTypes == ASSUME HttpdInit PROVE HttpdTypes /\ HttpdStream
<1>1. hs = HttpdStart /\ request = <<>> /\ uipbuf = NoChunk  BY DEF HttpdInit
<1>2. <<>> \in Seq(STRING) /\ <<>> \in Seq(Segs) /\ Len(<<>>) = 0  OBVIOUS
<1>3. web = [st |-> "none", flight |-> {}, unacked |-> FALSE, heard |-> FALSE, nrtx |-> 0, got |-> <<>>]
  BY DEF HttpdInit
<1>4. web \in HttpdConns /\ web.st = "none" /\ ~web.unacked /\ web.flight = {} /\ ~web.heard
      /\ web.got = <<>> /\ web.nrtx = 0
  BY <1>2, <1>3 DEF HttpdConns
<1>5. hs \in HttpdStates /\ uipbuf \in Segs /\ request \in Seq(STRING)
  BY <1>1, <1>2, StartTyped, NewSockTyped
<1>6. hs.at = "get" /\ hs.state = "WAITING" /\ hs.piece = 1 /\ hs.timer = 0 /\ hs.sin = NewSock
      /\ hs.sout = NewSock
  BY <1>1 DEF HttpdStart
<1>7. hs.sin.line = <<>>  BY <1>6, NewSockTyped
<1>8. Len(hs.sin.line) <= Room  BY <1>2, <1>7, HttpdConsts
<1>9. hs.timer <= IDLE_MAX /\ web.nrtx <= UIP_MAXRTX  BY <1>4, <1>6, HttpdConsts
<1>10. HttpdTypes  BY <1>4, <1>5, <1>6, <1>8, <1>9 DEF HttpdTypes, HttpdStateTypes
<1>11. HttpdStream  BY <1>6 DEF HttpdStream
<1> QED  BY <1>10, <1>11

LEMMA HttpdTypesGive == ASSUME HttpdTypes PROVE HttpdTypeOK
<1>1. hs \in HttpdStates /\ web \in HttpdConns  BY DEF HttpdTypes, HttpdStateTypes
<1>2. /\ hs.at \in {"get", "path", "headers"} /\ hs.state \in {"WAITING", "OUTPUT"} /\ hs.timer \in Nat
      /\ web.st \in {"none", "open", "closed", "aborted", "timedout", "gone"} /\ web.nrtx \in Nat
  BY <1>1 DEF HttpdStates, HttpdConns
<1>3. hs.timer \in 0..IDLE_MAX /\ web.nrtx \in 0..UIP_MAXRTX
  BY <1>2, HttpdConsts DEF HttpdTypes, HttpdStateTypes
<1>4. Len(hs.sin.line) <= Room  BY DEF HttpdTypes, HttpdStateTypes
<1>5. hs.state = "OUTPUT" => hs.piece \in 1..Len(Page(hs.filename))  BY DEF HttpdTypes, HttpdStateTypes
<1>6. (web.unacked \/ web.got # <<>>) => hs.state = "OUTPUT"  BY <1>2 DEF HttpdTypes, HttpdStateTypes
<1> QED  BY <1>2, <1>3, <1>4, <1>5, <1>6 DEF HttpdTypeOK

(* What the client got is the same, or nothing.                            *)
LEMMA PageLen == ASSUME NEW name PROVE Page(name) \in Seq(Pieces) /\ Len(Page(name)) \in Nat
<1>1. PageOK(Page(name))  BY PageTyped
<1>2. PICK p \in Seq(Pieces) : p = Page(name)  BY <1>1 DEF PageOK
<1> QED  BY <1>2

LEMMA OnePieceLong ==
  ASSUME HeaderParts = 1, NEW name, NEW i \in 1..Len(Page(name))
  PROVE  Page(name)[i].len = 1
<1>1. PICK p \in Seq(Pieces) : p = Page(name)  BY PageLen
<1>2. p[i] \in Pieces  BY <1>1
<1>3. p[i].len \in {1, HeaderParts}  BY <1>2 DEF Pieces
<1> QED  BY <1>1, <1>3

(* The connection of a sock that has begun a piece, when the ones before   *)
(* have been heard.                                                        *)
LEMMA BegunSends ==
  ASSUME HeaderParts = 1, NEW e, NEW ev, Left(e, ev), e.piece \in 1..Len(Page(e.filename)),
         Begun(e.sout, Page(e.filename)[e.piece]), e.seg = e.sout.seg, e.sout \in Socks,
         e.ends = "none", "acked" \in ev \/ web.st # "open" \/ web.flight = {},
         "acked" \in ev \/ web.st # "open" \/ ~web.heard, web'.flight \subseteq {e.seg} \cup web.flight,
         web.st # "open" => web.flight = {},
         Len(web'.got) = e.piece - 1
  PROVE  SendingOK(Page(hs'.filename), hs', web')
<1>1. Page(e.filename)[e.piece].len = 1  BY OnePieceLong
<1>2. e.sout.sendptr = 1 /\ e.sout.sendlen = 1 /\ e.sout.out /\ e.seg = Chunk(Page(e.filename)[e.piece], 1)
  BY <1>1 DEF Begun
<1>3. hs'.sout.sendptr = 1 /\ hs'.sout.sendlen = 1 /\ hs'.filename = e.filename /\ hs'.piece = e.piece
  BY <1>2 DEF Left, Socks
<1>4. web'.unacked /\ ~web'.heard  BY <1>2 DEF Left
<1>5. web'.flight \subseteq {e.seg}  BY <1>2 DEF Left
<1>6. \A c \in web'.flight : Fits(c, Page(e.filename), e.piece)  BY <1>2, <1>5 DEF Fits
<1> QED  BY <1>3, <1>4, <1>6 DEF SendingOK

(* A step of an answer keeps the stream.                                   *)
LEMMA BeginsAnswer ==
  ASSUME HeaderParts = 1, NEW c, NEW ev, CallOK(c, ev), c.state = "WAITING",
         web.st = "open" => "acked" \notin ev,
         web.st # "open" => web.flight = {},
         NEW d, NEW e, e \in HttpdWork, AnswersWith(c, ev, d, e), Left(e, ev)
  PROVE  HttpdStream'
<1>1. OutputEffect(d, ev, Page(d.filename), e) /\ d.sout = c.sout /\ d.piece = c.piece
  BY DEF AnswersWith
<1>2. c.sout = NewSock /\ c.piece = 1 /\ web.flight = {} /\ (web.st = "open" => ~web.heard /\ web.got = <<>>)
  BY DEF CallOK
<1>3. ~d.sout.busy /\ ~InPiece(d.sout)  BY <1>1, <1>2, NewSockTyped DEF InPiece
<1>4. e.piece = 1 /\ Begun(e.sout, Page(d.filename)[e.piece]) /\ e.ends = d.ends /\ e.seg = e.sout.seg
      /\ e.filename = d.filename /\ e.piece \in 1..Len(Page(d.filename))
  BY <1>1, <1>2, <1>3 DEF OutputEffect, SameWork
<1>5. web'.got = <<>> /\ Len(web'.got) = 0 /\ web'.st # "closed"
  <2>1. web'.got = <<>>  BY <1>2 DEF Left
  <2>2. Len(<<>>) = 0  OBVIOUS
  <2>3. e.ends # "close"  BY <1>4 DEF AnswersWith, CallOK
  <2> QED  BY <2>1, <2>2, <2>3 DEF Left
<1>6. GotOK(Page(e.filename), web')
  <2>1. 0 <= Len(Page(e.filename))  BY PageLen
  <2>2. DOMAIN web'.got = {}  BY <1>5
  <2> QED  BY <1>5, <2>1, <2>2 DEF GotOK
<1>7. web'.st = "open" => SendingOK(Page(hs'.filename), hs', web')
  <2> SUFFICES ASSUME web'.st = "open" PROVE SendingOK(Page(hs'.filename), hs', web')  OBVIOUS
  <2>1. e.ends = "none"  BY DEF Left
  <2>2. e.sout \in Socks  BY DEF HttpdWork
  <2>3. web'.flight \subseteq {e.seg} \cup web.flight  BY <2>1 DEF Left
  <2>4. Len(web'.got) = e.piece - 1  BY <1>4, <1>5
  <2> QED  BY <1>2, <1>4, <2>1, <2>2, <2>3, <2>4, BegunSends
<1>8. hs'.filename = e.filename  BY DEF Left
<1> QED  BY <1>6, <1>7, <1>8 DEF HttpdStream

LEMMA GoesOnAnswer ==
  ASSUME HeaderParts = 1, NEW c, NEW ev, CallOK(c, ev), SameBut(hs, c), c.state = "OUTPUT", HttpdMayTell(ev),
         HttpdStream, hs \in HttpdStates, NEW d, NEW e, e \in HttpdWork, AnswersWith(c, ev, d, e), Left(e, ev)
  PROVE  HttpdStream'
<1>1. /\ OutputEffect(d, ev, Page(d.filename), e) /\ d.sout = c.sout /\ d.piece = c.piece
      /\ d.filename = c.filename
  BY DEF AnswersWith
<1>2. /\ web.st = "open" /\ c.piece \in 1..Len(Page(c.filename)) /\ InPiece(c.sout) /\ ~c.sout.out
      /\ web \in HttpdConns
  BY DEF CallOK
<1>3. hs.state = "OUTPUT" /\ hs.filename = c.filename /\ hs.piece = c.piece /\ hs.sout = c.sout
  BY DEF SameBut
<1>4. GotOK(Page(c.filename), web) /\ SendingOK(Page(c.filename), hs, web)
  BY <1>2, <1>3 DEF HttpdStream
<1>5. e.filename = c.filename /\ hs'.filename = c.filename /\ hs'.piece = e.piece /\ web'.got = web.got
  BY <1>1, <1>2 DEF OutputEffect, SameWork, Left
<1>6. PICK pieces \in Seq(Pieces) : pieces = Page(c.filename) /\ Len(pieces) \in Nat  BY PageLen
<1>7. c.sout.busy  BY <1>2 DEF InPiece
<1>8. c.piece \in Nat /\ web.got \in Seq(Segs) /\ Len(web.got) \in Nat
  <2>1. PICK q \in Seq(Segs) : q = web.got  BY <1>2 DEF HttpdConns
  <2>2. c.piece \in Nat  BY <1>3 DEF HttpdStates
  <2> QED  BY <2>1, <2>2
<1>9. "acked" \in ev => Len(web.got) = c.piece
  BY <1>3, <1>4 DEF HttpdMayTell, SendingOK
<1>10. CASE e.ends = "close" /\ "acked" \in ev /\ c.piece = Len(pieces)
  <2>1. web'.st = "closed"  BY <1>10 DEF Left
  <2>2. Len(web'.got) = Len(pieces)  BY <1>5, <1>9, <1>10
  <2>3. GotOK(pieces, web')  BY <1>4, <1>5, <1>6, <2>2 DEF GotOK
  <2> QED  BY <1>5, <1>6, <2>1, <2>3 DEF HttpdStream
<1>11. CASE /\ e.ends = d.ends /\ e.seg = e.sout.seg /\ InPiece(e.sout)
            /\ \/ /\ "acked" \notin ev /\ e.piece = c.piece /\ GoesOnWith(c.sout, e.sout, pieces[e.piece])
               \/ /\ "acked" \in ev /\ e.piece = c.piece + 1 /\ Begun(e.sout, pieces[e.piece])
  <2>1. web'.st # "closed"
    <3>1. e.ends # "close"  BY <1>11 DEF AnswersWith, CallOK
    <3> QED  BY <3>1 DEF Left
  <2>2. GotOK(pieces, web')  BY <1>4, <1>5, <1>6, <2>1 DEF GotOK
  <2>3. e.piece \in 1..Len(Page(e.filename))  BY <1>1, <1>5 DEF OutputEffect
  <2>4. CASE web'.st = "open" /\ "acked" \in ev
    <3>1. e.ends = "none"  BY <2>4 DEF Left
    <3>2. e.sout \in Socks  BY DEF HttpdWork
    <3>3. web'.flight \subseteq {e.seg} \cup web.flight  BY <2>4, <3>1 DEF Left
    <3>4. Len(web'.got) = e.piece - 1  BY <1>5, <1>8, <1>9, <1>11, <2>4
    <3>5. Begun(e.sout, Page(e.filename)[e.piece]) /\ e.seg = e.sout.seg  BY <1>5, <1>6, <1>11, <2>4
    <3>6. SendingOK(Page(hs'.filename), hs', web')
      BY <1>2, <2>3, <2>4, <3>1, <3>2, <3>3, <3>4, <3>5, BegunSends
    <3> QED  BY <1>5, <1>6, <2>2, <3>6 DEF HttpdStream
  <2>5. CASE web'.st = "open" /\ "acked" \notin ev
    <3>1. e.ends = "none"  BY <2>5 DEF Left
    <3>2. e.piece = c.piece /\ GoesOnWith(c.sout, e.sout, pieces[e.piece])  BY <1>11, <2>5
    <3>3. e.sout.sendptr = 1 /\ e.sout.sendlen = 1  BY <1>3, <1>4, <3>2 DEF GoesOnWith, SendingOK
    <3>4. hs'.sout.sendptr = 1 /\ hs'.sout.sendlen = 1
      <4>1. e.sout \in Socks  BY DEF HttpdWork
      <4> QED  BY <3>3, <4>1 DEF Left, Socks
    <3>5. web'.unacked /\ web'.heard = web.heard
      <4>1. web'.heard = (web.st = "open" /\ "acked" \notin ev /\ web.heard)  BY DEF Left
      <4>2. web.heard \in BOOLEAN  BY <1>2 DEF HttpdConns
      <4>3. web'.heard = web.heard  BY <1>2, <2>5, <4>1, <4>2
      <4>4. web.unacked  BY <1>4 DEF SendingOK
      <4>5. web'.unacked  BY <2>5, <3>1, <4>4 DEF Left
      <4> QED  BY <4>3, <4>5
    <3>6. Len(web'.got) = IF web'.heard THEN e.piece ELSE e.piece - 1
      BY <1>3, <1>4, <1>5, <3>2, <3>5 DEF SendingOK
    <3>7. web'.flight \subseteq web.flight \cup (IF e.sout.out THEN {e.seg} ELSE {})
      BY <2>5, <3>1 DEF Left
    <3>8. e.sout.out => Fits(e.seg, pieces, e.piece)
      <4> SUFFICES ASSUME e.sout.out PROVE Fits(e.seg, pieces, e.piece)  OBVIOUS
      <4>1. e.sout.seg = Chunk(pieces[e.piece], c.sout.sendptr) \/ pieces[e.piece].op = "generate"
        BY <1>2, <3>2 DEF GoesOnWith
      <4>2. c.sout.sendptr = 1  BY <1>3, <1>4 DEF SendingOK
      <4> QED  BY <1>11, <4>1, <4>2 DEF Fits
    <3>9. \A f \in web.flight : Fits(f, pieces, e.piece)  BY <1>3, <1>4, <1>6, <3>2 DEF SendingOK
    <3>10. \A f \in web'.flight : Fits(f, pieces, e.piece)  BY <3>7, <3>8, <3>9
    <3>11. SendingOK(pieces, hs', web')  BY <1>5, <3>4, <3>5, <3>6, <3>10 DEF SendingOK
    <3> QED  BY <1>5, <1>6, <2>2, <3>11 DEF HttpdStream
  <2>6. CASE web'.st # "open"  BY <1>5, <1>6, <2>2, <2>6 DEF HttpdStream
  <2> QED  BY <2>4, <2>5, <2>6
<1> QED  BY <1>1, <1>6, <1>7, <1>10, <1>11 DEF OutputEffect

LEMMA CallStream ==
  ASSUME HeaderParts = 1, NEW c, NEW ev, CallOK(c, ev), NEW e, CallEffect(c, ev, e), Left(e, ev),
         web.st # "open" => web.flight = {} /\ c.state = "WAITING" /\ "acked" \notin ev,
         web.st = "open" => SameBut(hs, c) /\ HttpdMayTell(ev) /\ HttpdTypes /\ HttpdStream
  PROVE  HttpdStream'
<1>1. e \in HttpdWork /\ c.state \in {"WAITING", "OUTPUT"}
  BY DEF CallEffect, InputOK, CallOK, HttpdWork
<1>2. CASE NoAnswer(c, e)
  <2>1. hs'.state # "OUTPUT"  BY <1>2 DEF NoAnswer, Left
  <2> QED  BY <2>1 DEF HttpdStream
<1>3. ASSUME NEW d, AnswersWith(c, ev, d, e) PROVE HttpdStream'
  <2>1. CASE c.state = "WAITING"
    <3>1. web.st = "open" => "acked" \notin ev
      <4>1. web.st = "open" => ~web.heard  BY <2>1 DEF CallOK
      <4> QED  BY <4>1 DEF HttpdMayTell
    <3> QED  BY <1>1, <1>3, <2>1, <3>1, BeginsAnswer
  <2>2. CASE c.state = "OUTPUT"
    <3>1. web.st = "open"  BY <2>2
    <3>2. hs \in HttpdStates  BY <3>1 DEF HttpdTypes, HttpdStateTypes
    <3> QED  BY <1>1, <1>3, <2>2, <3>1, <3>2, GoesOnAnswer
  <2> QED  BY <1>1, <2>1, <2>2
<1> QED  BY <1>2, <1>3 DEF CallEffect

LEMMA ArrivesStream ==
  ASSUME HttpdTypes, HttpdStream, Arrives
  PROVE  HttpdStream'
<1>1. PICK copy \in web.flight :
         web' = [web EXCEPT !.heard = TRUE, !.flight = @ \ {copy},
                            !.got = IF web.heard THEN @ ELSE Append(@, copy)]
  BY DEF Arrives
<1>2. /\ web \in HttpdConns /\ hs.state = "OUTPUT" /\ web.st = "open" /\ hs' = hs
      /\ hs.piece \in 1..Len(Page(hs.filename))
  BY DEF HttpdTypes, HttpdStateTypes, HttpdStates, Arrives
<1>3. PICK pieces \in Seq(Pieces) : pieces = Page(hs.filename) /\ Len(pieces) \in Nat  BY PageLen
<1>4. GotOK(pieces, web) /\ SendingOK(pieces, hs, web)  BY <1>2, <1>3 DEF HttpdStream
<1>5. copy \in Segs /\ web.got \in Seq(Segs)  BY <1>1, <1>2 DEF HttpdConns
<1>6. PICK q \in Seq(Segs) : q = web.got  BY <1>5
<1>7. PICK k \in Nat : k = hs.piece /\ k \in 1..Len(pieces)  BY <1>2, <1>3
<1>8. Fits(copy, pieces, k)  BY <1>1, <1>4, <1>7 DEF SendingOK
<1>9. Len(q) \in Nat /\ DOMAIN q = 1..Len(q) /\ \A i \in 1..Len(q) : Fits(q[i], pieces, i)
  <2>1. Len(q) \in Nat /\ DOMAIN q = 1..Len(q)  OBVIOUS
  <2>2. \A i \in DOMAIN q : Fits(q[i], pieces, i)  BY <1>4, <1>6 DEF GotOK
  <2> QED  BY <2>1, <2>2
<1>10. PICK g : g = IF web.heard THEN q ELSE Append(q, copy)  OBVIOUS
<1>11. g \in Seq(Segs) /\ Len(g) = k /\ \A i \in DOMAIN g : Fits(g[i], pieces, i)
  <2>1. CASE web.heard
    <3>1. Len(q) = k  BY <1>4, <1>6, <1>7, <2>1 DEF SendingOK
    <3> QED  BY <1>9, <1>10, <2>1, <3>1
  <2>2. CASE ~web.heard
    <3>1. Len(q) = k - 1  BY <1>4, <1>6, <1>7, <2>2 DEF SendingOK
    <3>2. g = Append(q, copy)  BY <1>10, <2>2
    <3>3. g \in Seq(Segs) /\ Len(g) = Len(q) + 1 /\ DOMAIN g = 1..Len(q) + 1 /\ g[Len(q) + 1] = copy
          /\ \A i \in 1..Len(q) : g[i] = q[i]
      BY <1>5, <3>2, AppendProperties
    <3>4. Len(q) + 1 = k  BY <1>9, <3>1
    <3>5. ASSUME NEW i \in DOMAIN g PROVE Fits(g[i], pieces, i)
      <4>1. i \in 1..Len(q) \/ i = Len(q) + 1  BY <1>9, <3>3
      <4>2. CASE i \in 1..Len(q)  BY <1>9, <3>3, <4>2
      <4>3. CASE i = Len(q) + 1  BY <1>8, <3>3, <3>4, <4>3
      <4> QED  BY <4>1, <4>2, <4>3
    <3> QED  BY <3>3, <3>4, <3>5
  <2> QED  BY <2>1, <2>2
<1>12. PICK f : f = web.flight \ {copy}  OBVIOUS
<1>13. web' = [web EXCEPT !.heard = TRUE, !.flight = f, !.got = g]  BY <1>1, <1>6, <1>10, <1>12
<1>14. web'.got = g /\ web'.flight = f /\ web'.heard = TRUE /\ web'.unacked = web.unacked /\ web'.st = "open"
  BY <1>2, <1>13 DEF HttpdConns
<1>15. GotOK(pieces, web')
  <2>1. Len(g) <= Len(pieces)  BY <1>3, <1>7, <1>11
  <2> QED  BY <1>11, <1>14, <2>1 DEF GotOK
<1>16. SendingOK(pieces, hs', web')
  <2>1. Len(web'.got) = IF web'.heard THEN hs'.piece ELSE hs'.piece - 1  BY <1>2, <1>7, <1>11, <1>14
  <2>2. \A c \in web'.flight : Fits(c, pieces, hs'.piece)  BY <1>2, <1>4, <1>12, <1>14 DEF SendingOK
  <2> QED  BY <1>2, <1>4, <1>14, <2>1, <2>2 DEF SendingOK
<1> QED  BY <1>2, <1>3, <1>15, <1>16 DEF HttpdStream

LEMMA EndedStream ==
  ASSUME HttpdTypes, HttpdStream, Ended
  PROVE  HttpdStream'
<1>1. PICK st \in {"gone", "timedout"} : web' = [web EXCEPT !.st = st, !.unacked = FALSE, !.flight = {}]
  BY DEF Ended
<1>2. web \in HttpdConns /\ hs' = hs  BY DEF HttpdTypes, HttpdStateTypes, Ended
<1>3. web'.st = st /\ web'.got = web.got  BY <1>1, <1>2 DEF HttpdConns
<1> QED  BY <1>2, <1>3 DEF HttpdStream, GotOK

LEMMA HttpdStreamKept ==
  ASSUME HeaderParts = 1, HttpdTypes, HttpdStream, HttpdStepIs
  PROVE  HttpdStream'
<1>1. CASE Called
  <2>1. PICK c, ev, e : AppCall(c, ev) /\ HttpdMayTell(ev) /\ CallEffect(c, ev, e) /\ Left(e, ev)
    BY <1>1 DEF Called
  <2>2. web.st = "open"  BY <1>1 DEF Called
  <2> QED  BY <2>1, <2>2, CallStream DEF AppCall
<1>2. CASE Accepted
  <2>1. PICK c, e : CallOK(c, {}) /\ c.state = "WAITING" /\ CallEffect(c, {}, e) /\ Left(e, {})
    BY <1>2 DEF Accepted
  <2>2. web.st # "open"  BY <1>2 DEF Accepted
  <2>3. web.flight = {}  BY <2>2 DEF HttpdTypes, HttpdStateTypes
  <2>4. PICK ev : ev = {}  OBVIOUS
  <2>5. "acked" \notin ev  BY <2>4
  <2> QED  BY <2>1, <2>2, <2>3, <2>4, <2>5, CallStream
<1>3. CASE Arrives  BY <1>3, ArrivesStream
<1>4. CASE Ended  BY <1>4, EndedStream
<1>5. CASE UNCHANGED <<hs, web>>  BY <1>5 DEF HttpdStream, GotOK, SendingOK
<1> QED  BY <1>1, <1>2, <1>3, <1>4, <1>5 DEF HttpdStepIs

LEMMA StreamInOrder ==
  ASSUME HeaderParts = 1, HttpdTypes, HttpdStream
  PROVE  PageInOrder /\ WholePage
<1>1. PICK pieces \in Seq(Pieces) : pieces = Page(hs.filename) /\ Len(pieces) \in Nat  BY PageLen
<1>2. PICK page : page = Chunks(pieces)  OBVIOUS
<1>3. page = [i \in 1..Len(pieces) |-> Chunk(pieces[i], 1)]  BY <1>2, ChunksAre
<1>4. Len(page) = Len(pieces)  BY <1>1, <1>3
<1>5. hs.state = "OUTPUT" => GotOK(pieces, web)  BY <1>1 DEF HttpdStream
<1>6. PICK q \in Seq(Segs) : q = web.got  BY DEF HttpdTypes, HttpdStateTypes, HttpdConns
<1>7. PageInOrder
  <2> DEFINE generated(c) == \E i \in DOMAIN pieces : pieces[i].op = "generate" /\ pieces[i].id = c[1]
  <2>1. ASSUME q # <<>>
        PROVE  Len(q) <= Len(page) /\ \A i \in DOMAIN q : q[i] = page[i] \/ generated(page[i])
    <3>1. hs.state = "OUTPUT"  BY <1>6, <2>1 DEF HttpdTypes, HttpdStateTypes, HttpdStates
    <3>2. Len(q) <= Len(pieces) /\ \A i \in DOMAIN q : Fits(q[i], pieces, i)
      BY <1>5, <1>6, <3>1 DEF GotOK
    <3>3. ASSUME NEW i \in DOMAIN q PROVE q[i] = page[i] \/ generated(page[i])
      <4>1. i \in 1..Len(pieces) /\ i \in DOMAIN pieces  BY <1>1, <3>2
      <4>2. page[i] = Chunk(pieces[i], 1)  BY <1>3, <4>1
      <4>3. page[i][1] = pieces[i].id  BY <4>2 DEF Chunk
      <4>4. q[i] = Chunk(pieces[i], 1) \/ pieces[i].op = "generate"  BY <3>2 DEF Fits
      <4> QED  BY <4>1, <4>2, <4>3, <4>4
    <3> QED  BY <1>4, <3>2, <3>3
  <2> QED  BY <1>1, <1>2, <1>6, <2>1 DEF PageInOrder
<1>8. WholePage  BY <1>1, <1>2, <1>4, <1>5 DEF WholePage, GotOK
<1> QED  BY <1>7, <1>8

-------------------------------------------------------------------------------
(***************************************************************************)
(* All parts together.                                                     *)
(***************************************************************************)

(* Each part takes the steps of its own module, and the others none.       *)
LEMMA PartSteps ==
  ASSUME [MCNext]_<<part, vars, cfgVars, telnetdVars, dhcpcVars, httpdVars, webVars>>
  PROVE  /\ [Next]_vars /\ [CfgNext]_cfgVars /\ [TelnetdNext]_telnetdVars /\ [DhcpcNext]_dhcpcVars
         /\ [HttpdNext]_httpdVars /\ [WebNext]_webVars
BY DEF MCNext

(* The inductive invariants of the parts.                                  *)
ProgramsInv ==
  KeyboardInv /\ ConfigInv /\ TelnetdInv /\ DhcpcInv /\ HttpdTypes /\ WebInv

LEMMA ProgramsInvHolds == MCSpec => []ProgramsInv
<1>1. MCInit => ProgramsInv
  BY KeyboardInvInit, ConfigInitInv, TelnetdInvInit, DhcpcInitInv, HttpdInitTypes, WebInvInit
     DEF MCInit, ProgramsInv
<1>2. ProgramsInv /\ [MCNext]_<<part, vars, cfgVars, telnetdVars, dhcpcVars, httpdVars, webVars>>
        => ProgramsInv'
  BY PartSteps, KeyboardInvNext, ConfigNextInv, TelnetdInvNext, DhcpcNextInv, HttpdSteps, WebInvNext
     DEF ProgramsInv
<1> QED  BY <1>1, <1>2, PTL DEF MCSpec

(* The types of all parts, for every value of their constants.             *)
THEOREM ProgramsTypesHold == MCSpec => []ProgramsTypesOK
<1>1. ProgramsInv => ProgramsTypesOK
  BY HttpdTypesGive, TelnetdInvTypes, TypesGiveWebTypeOK
     DEF ProgramsInv, KeyboardInv, ConfigInv, DhcpcInv, WebInv, ProgramsTypesOK
<1> QED  BY <1>1, ProgramsInvHolds, PTL

(* Both sides of HTTP: whatever is lost, repeated or cut in pieces, pages  *)
(* and requests arrive in order, and a page whole when the server closes,  *)
(* if a status header fits in a segment.                                   *)
THEOREM HttpInOrderHolds ==
  ASSUME HeaderParts = 1
  PROVE  MCSpec => []HttpInOrder
<1>1. MCInit => HttpdStream
  BY HttpdInitTypes DEF MCInit
<1>2. ProgramsInv /\ HttpdStream
      /\ [MCNext]_<<part, vars, cfgVars, telnetdVars, dhcpcVars, httpdVars, webVars>>
        => HttpdStream'
  BY PartSteps, HttpdSteps, HttpdStreamKept DEF ProgramsInv
<1>3. MCSpec => []HttpdStream
  BY <1>1, <1>2, ProgramsInvHolds, PTL DEF MCSpec
<1>4. ProgramsInv /\ HttpdStream => HttpInOrder
  BY StreamInOrder, WebInvOnlyData, WebInvInOrder DEF ProgramsInv, HttpInOrder
<1> QED  BY <1>3, <1>4, ProgramsInvHolds, PTL
================================================================================
