--------------------------- MODULE LineEditor_proofs ---------------------------
(***************************************************************************)
(* LineEditor for all sizes of the buffer and of the nick list, and all    *)
(* letters and nicks: the types, with the length that a line may have; the *)
(* screen; and what TAB and ctrl-W do to the line.  At the end the types of*)
(* the session and the editor together, as TLC's run checks them.          *)
(***************************************************************************)
EXTENDS MCFujichat, IrcSession_proofs, SequenceTheorems, WellFoundedInduction, TLAPS
-------------------------------------------------------------------------------
(***************************************************************************)
(* Least and greatest numbers, the constants, and pieces of the buffer.    *)
(***************************************************************************)
LEMMA Least ==
  ASSUME NEW S, S \subseteq Nat, S # {}
  PROVE  \E x \in S : \A y \in S : x <= y
<1> DEFINE R == OpToRel(<, Nat)
<1>1. IsWellFoundedOn(R, Nat)  BY NatLessThanWellFounded
<1>2. \A x, y \in Nat : x < y => <<x, y>> \in R  BY DEF OpToRel
<1> HIDE DEF R
<1>3. PICK x \in S : \A y \in S : ~(<<y, x>> \in R)  BY <1>1, WFMin
<1>4. \A y \in S : ~(y < x)  BY <1>2, <1>3
<1> QED  BY <1>4

LEMMA Greatest ==
  ASSUME NEW S, NEW n \in Nat, S \subseteq 0..n, S # {}
  PROVE  \E x \in S : \A y \in S : y <= x
<1> DEFINE T == {k \in 0..n : n - k \in S}
<1>1. T \subseteq Nat  OBVIOUS
<1>2. T # {}
  <2>1. PICK x \in S : TRUE  OBVIOUS
  <2>2. n - x \in 0..n /\ n - (n - x) = x  BY <2>1
  <2> QED  BY <2>1, <2>2
<1>3. PICK k \in T : \A j \in T : k <= j  BY <1>1, <1>2, Least
<1>4. n - k \in S /\ k \in 0..n  BY <1>3
<1>5. ASSUME NEW y \in S PROVE y <= n - k
  <2>1. n - y \in 0..n /\ n - (n - y) = y  OBVIOUS
  <2>2. n - y \in T  BY <2>1
  <2>3. k <= n - y  BY <2>2, <1>3
  <2> QED  BY <2>3, <1>4
<1> QED  BY <1>4, <1>5

LEMMA EditConsts ==
  /\ BUF_SIZE \in Nat /\ NICKLEN \in Nat /\ NICKLEN > 0 /\ NICK_LIST_SIZE \in Nat /\ NICK_LIST_SIZE > 0
  /\ BUF_SIZE >= NICKLEN + 4 /\ LineMax = BUF_SIZE - 2 + NICKLEN /\ LineMax \in Nat
<1>1. {BUF_SIZE, NICKLEN, NICK_LIST_SIZE} \subseteq Nat \ {0} /\ BUF_SIZE >= NICKLEN + 4
  BY EditAssumption
<1>2. BUF_SIZE \in Nat /\ NICKLEN \in Nat /\ NICKLEN > 0 /\ NICK_LIST_SIZE \in Nat /\ NICK_LIST_SIZE > 0
  BY <1>1
<1> QED  BY <1>1, <1>2 DEF LineMax

LEMMA NickIs ==
  ASSUME NEW n \in Speakers
  PROVE  /\ n \in Seq(Letters) /\ n \in Seq(Character) /\ Len(n) \in 1..NICKLEN /\ n # <<>>
         /\ \A i \in 1..Len(n) : n[i] \in Letters /\ n[i] # "sp"
<1>1. n \in Seq(Letters) /\ n # <<>> /\ Len(n) <= NICKLEN  BY EditAssumption
<1>2. Len(n) \in Nat /\ Len(n) # 0  BY <1>1, EmptySeq
<1>3. n \in Seq(Character)  BY <1>1, SeqMonotonic DEF Character
<1>4. \A i \in 1..Len(n) : n[i] \in Letters  BY <1>1, ElementOfSeq
<1>5. "sp" \notin Letters  BY EditAssumption
<1> QED  BY <1>1, <1>2, <1>3, <1>4, <1>5, EditConsts

Buffer == [Cells -> Character]

(* The first n characters of the array buf: Line is LineOf what there is. *)
LineOf(buf, n) == [i \in 1..n |-> buf[i - 1]]

LEMMA LineIs == Line = LineOf(input_buf, input_buf_len) /\ Line' = LineOf(input_buf', input_buf_len')
BY DEF Line, LineOf

LEMMA LineOfIs ==
  ASSUME NEW buf \in Buffer, NEW n \in 0..LineMax
  PROVE  /\ LineOf(buf, n) \in Seq(Character) /\ Len(LineOf(buf, n)) = n
         /\ \A i \in 1..n : LineOf(buf, n)[i] = buf[i - 1]
<1>1. \A i \in 1..n : i - 1 \in Cells  BY EditConsts DEF Cells
<1>2. \A i \in 1..n : buf[i - 1] \in Character  BY <1>1 DEF Buffer
<1>3. n \in Nat  BY EditConsts
<1>4. LineOf(buf, n) \in [1..n -> Character]  BY <1>2 DEF LineOf
<1> QED  BY <1>3, <1>4 DEF LineOf

(* A sequence is the line when it holds what the buffer holds. *)
LEMMA SameLine ==
  ASSUME NEW buf \in Buffer, NEW n \in 0..LineMax, NEW t \in Seq(Character), Len(t) = n,
         \A i \in 1..n : t[i] = buf[i - 1]
  PROVE  t = LineOf(buf, n)
BY LineOfIs, SeqEqual

Holds(b, buf, at, s) ==
  /\ b \in Buffer
  /\ \A i \in Cells : i < at => b[i] = buf[i]
  /\ \A k \in 1..Len(s) : at + k - 1 \in Cells => b[at + k - 1] = s[k]

LEMMA StoreIs ==
  ASSUME NEW buf \in Buffer, NEW at \in Nat, NEW s \in Seq(Character), NEW b, b = Store(buf, at, s)
  PROVE  Holds(b, buf, at, s)
<1>1. Len(s) \in Nat  OBVIOUS
<1>2. ASSUME NEW i \in Cells, i >= at, i < at + Len(s) PROVE s[i - at + 1] \in Character
  <2>1. i \in Nat  BY EditConsts DEF Cells
  <2>2. i - at + 1 \in 1..Len(s)  BY <2>1, <1>1, <1>2
  <2> QED  BY <2>2, ElementOfSeq
<1>3. b \in Buffer  BY <1>2 DEF Store, Buffer
<1>4. ASSUME NEW i \in Cells, i < at PROVE b[i] = buf[i]
  <2>1. i \in Nat /\ ~(i >= at)  BY <1>4, EditConsts DEF Cells
  <2> QED  BY <2>1 DEF Store
<1>5. ASSUME NEW k \in 1..Len(s), at + k - 1 \in Cells PROVE b[at + k - 1] = s[k]
  <2>1. at + k - 1 >= at /\ at + k - 1 < at + Len(s) /\ (at + k - 1) - at + 1 = k  BY <1>1
  <2> DEFINE j == at + k - 1
  <2>2. b[j] = s[j - at + 1]
    <3>1. j \in Cells /\ j >= at /\ j < at + Len(s)  BY <1>5, <2>1
    <3> HIDE DEF j
    <3> QED  BY <3>1 DEF Store
  <2> QED  BY <2>1, <2>2
<1> QED  BY <1>3, <1>4, <1>5 DEF Holds

(* t is what buf holds, and from index at on the first k characters of s. *)
Puts(t, buf, at, s, k) ==
  /\ t \in Seq(Character) /\ Len(t) = at + k
  /\ \A i \in 1..at : t[i] = buf[i - 1]
  /\ \A i \in 1..k : t[at + i] = s[i]

LEMMA PutLine ==
  ASSUME NEW buf \in Buffer, NEW at \in Nat, NEW s \in Seq(Character), NEW b, b = Store(buf, at, s),
         NEW k \in 0..Len(s), at + k <= LineMax, NEW t, Puts(t, buf, at, s, k)
  PROVE  t = LineOf(b, at + k)
<1>1. /\ b \in Buffer /\ \A i \in Cells : i < at => b[i] = buf[i]
      /\ \A j \in 1..Len(s) : at + j - 1 \in Cells => b[at + j - 1] = s[j]
  <2>1. Holds(b, buf, at, s)  BY StoreIs
  <2> QED  BY <2>1 DEF Holds
<1>2. Len(s) \in Nat /\ LineMax \in Nat  BY EditConsts
<1>3. ASSUME NEW i \in 1..(at + k) PROVE t[i] = b[i - 1]
  <2>1. i - 1 \in Cells  BY <1>2 DEF Cells
  <2>2. CASE i <= at
    <3>1. i \in 1..at /\ i - 1 < at  BY <2>2
    <3> QED  BY <3>1, <2>1, <1>1 DEF Puts
  <2>3. CASE i > at
    <3> DEFINE j == i - at
    <3>1. j \in 1..k /\ j \in 1..Len(s) /\ at + j = i /\ at + j - 1 = i - 1  BY <2>3, <1>2
    <3> HIDE DEF j
    <3>2. t[i] = s[j]  BY <3>1 DEF Puts
    <3>3. b[i - 1] = s[j]  BY <3>1, <2>1, <1>1
    <3> QED  BY <3>2, <3>3
  <2> QED  BY <2>2, <2>3
<1>4. at + k \in 0..LineMax  BY <1>2
<1> QED  BY <1>1, <1>3, <1>4, SameLine DEF Puts
-------------------------------------------------------------------------------
(***************************************************************************)
(* The invariant: a line beyond the margin ends in one word, which begins  *)
(* before it; so that a nick put in its place does not end behind LineMax. *)
(***************************************************************************)
OneWordOver(buf, n) == n > BUF_SIZE - 1 => \A j \in (BUF_SIZE - 2)..(n - 1) : buf[j] # "sp"

EditInv == EditTypeOK /\ OneWordOver(input_buf, input_buf_len) /\ ScreenShowsLine

LEMMA InvIs ==
  ASSUME EditInv
  PROVE  /\ input_buf \in Buffer /\ input_buf_len \in 0..LineMax /\ input_buf_len \in Nat
         /\ Line \in Seq(Character) /\ Len(Line) = input_buf_len
         /\ \A i \in 1..input_buf_len : Line[i] = input_buf[i - 1]
         /\ shown \in Seq(Character) /\ hidden \in BOOLEAN /\ (~hidden => shown = Line)
         /\ Line = LineOf(input_buf, input_buf_len)
         /\ OneWordOver(input_buf, input_buf_len)
<1>1. /\ input_buf \in Buffer /\ input_buf_len \in 0..LineMax /\ shown \in Seq(Character) /\ hidden \in BOOLEAN
      /\ (~hidden => shown = Line) /\ OneWordOver(input_buf, input_buf_len)
  BY DEF EditInv, EditTypeOK, ScreenShowsLine, Buffer
<1>2. Line = LineOf(input_buf, input_buf_len)  BY LineIs
<1>3. input_buf_len \in Nat  BY <1>1, EditConsts
<1> QED  BY <1>1, <1>2, <1>3, LineOfIs

(* A key, or what is printed, leaves the nicks alone. *)
LEMMA KeyKeeps ==
  ASSUME EditInv, UNCHANGED nicks, input_buf' \in Buffer, input_buf_len' \in 0..LineMax,
         shown' \in Seq(Character), hidden' \in BOOLEAN, OneWordOver(input_buf', input_buf_len'),
         ~hidden' => shown' = LineOf(input_buf', input_buf_len')
  PROVE  EditInv'
<1>1. nick_list' = nick_list /\ last_msg_nick' = last_msg_nick /\ nicksSeen' = nicksSeen  BY DEF nicks
<1>2. EditTypeOK'  BY <1>1 DEF EditInv, EditTypeOK, NicksDistinct, Buffer
<1>3. ScreenShowsLine'  BY LineIs DEF ScreenShowsLine
<1> QED  BY <1>2, <1>3 DEF EditInv

(* Where the line is as before, or ends earlier. *)
LEMMA ShorterOver ==
  ASSUME EditInv, NEW n \in 0..input_buf_len, NEW b, \A i \in 0..(n - 1) : b[i] = input_buf[i]
  PROVE  OneWordOver(b, n) /\ n \in 0..LineMax
<1>1. input_buf_len \in Nat /\ LineMax \in Nat /\ input_buf_len <= LineMax /\ BUF_SIZE \in Nat /\ BUF_SIZE > 2
      /\ OneWordOver(input_buf, input_buf_len)
  BY InvIs, EditConsts
<1>2. ASSUME n > BUF_SIZE - 1, NEW j \in (BUF_SIZE - 2)..(n - 1) PROVE b[j] # "sp"
  <2>1. j \in 0..(n - 1) /\ j \in (BUF_SIZE - 2)..(input_buf_len - 1) /\ input_buf_len > BUF_SIZE - 1
    BY <1>1, <1>2
  <2> QED  BY <2>1, <1>1 DEF OneWordOver
<1> QED  BY <1>1, <1>2 DEF OneWordOver

LEMMA EmptyLine ==
  ASSUME NEW b \in Buffer
  PROVE  LineOf(b, 0) = <<>> /\ 0 \in 0..LineMax /\ <<>> \in Seq(Character) /\ OneWordOver(b, 0)
<1>1. BUF_SIZE \in Nat /\ BUF_SIZE > 2 /\ LineMax \in Nat  BY EditConsts
<1>2. <<>> \in Seq(Character) /\ Len(<<>>) = 0 /\ 0 \in 0..LineMax  BY <1>1
<1>3. LineOf(b, 0) = <<>>
  <2>1. LineOf(b, 0) \in Seq(Character) /\ Len(LineOf(b, 0)) = 0  BY <1>2, LineOfIs
  <2> QED  BY <2>1
<1> QED  BY <1>1, <1>2, <1>3 DEF OneWordOver

(* The line is gone. *)
LEMMA LineGone ==
  ASSUME EditInv, UNCHANGED nicks, input_buf' \in Buffer, input_buf_len' = 0, shown' = <<>>,
         hidden' \in BOOLEAN
  PROVE  EditInv'
BY EmptyLine, KeyKeeps

-------------------------------------------------------------------------------
(***************************************************************************)
(* The keys.                                                               *)
(***************************************************************************)
LEMMA TypeKeyKeeps ==
  ASSUME EditInv, NEW c \in Typed \cup {"sp"}, TypeKey(c)
  PROVE  EditInv'
<1> DEFINE n    == input_buf_len
           buf  == input_buf
           one  == <<c>>
           b    == Store(buf, n, one)
           full == n + 1 > BUF_SIZE - 1
<1>1. /\ input_buf' = b
      /\ input_buf_len' = IF full THEN n ELSE n + 1
      /\ shown' = IF full THEN shown ELSE Append(shown, c)
      /\ UNCHANGED nicks /\ hidden' = hidden
  BY DEF TypeKey, nicks
<1>2. /\ buf \in Buffer /\ n \in 0..LineMax /\ n \in Nat /\ Line \in Seq(Character) /\ Len(Line) = n
      /\ \A i \in 1..n : Line[i] = buf[i - 1]
      /\ shown \in Seq(Character) /\ hidden \in BOOLEAN /\ (~hidden => shown = Line)
  BY InvIs
<1>3. c \in Character /\ one \in Seq(Character) /\ Len(one) = 1 /\ one[1] = c
  BY EditAssumption DEF Character
<1>4. BUF_SIZE \in Nat /\ LineMax \in Nat /\ NICKLEN \in Nat /\ NICKLEN > 0 /\ LineMax = BUF_SIZE - 2 + NICKLEN
  BY EditConsts
<1>5. b = Store(buf, n, one)  OBVIOUS
<1> HIDE DEF b, one
<1>6. Holds(b, buf, n, one)  BY <1>2, <1>3, <1>5, StoreIs
<1>7. b \in Buffer /\ \A i \in 0..(n - 1) : b[i] = buf[i]
  <2>1. \A i \in 0..(n - 1) : i \in Cells /\ i < n  BY <1>2, <1>4 DEF Cells
  <2> QED  BY <2>1, <1>6 DEF Holds
<1>8. CASE full
  <2>1. n \in 0..n  BY <1>2
  <2>2. OneWordOver(b, n)  BY <2>1, <1>7, ShorterOver
  <2>3. Line = LineOf(b, n)
    <3>1. \A i \in 1..n : i - 1 \in 0..(n - 1)  BY <1>2
    <3>2. \A i \in 1..n : Line[i] = b[i - 1]  BY <3>1, <1>2, <1>7
    <3> QED  BY <3>2, <1>2, <1>7, SameLine
  <2> HIDE DEF full, n
  <2> QED  BY <2>2, <2>3, <1>1, <1>2, <1>7, <1>8, KeyKeeps
<1>9. CASE ~full
  <2> DEFINE t == Append(Line, c)
  <2>1. t \in Seq(Character) /\ Len(t) = n + 1 /\ t[n + 1] = c /\ \A i \in 1..n : t[i] = buf[i - 1]
    BY <1>2, <1>3
  <2>2. n + 1 \in 0..LineMax /\ n + 1 <= BUF_SIZE - 1  BY <1>2, <1>4, <1>9
  <2> HIDE DEF t
  <2>3. t = LineOf(b, n + 1)
    <3>1. 1 \in 0..Len(one) /\ \A i \in 1..1 : t[n + i] = one[i]  BY <2>1, <1>3
    <3>2. Puts(t, buf, n, one, 1)  BY <3>1, <2>1 DEF Puts
    <3>3. n + 1 <= LineMax  BY <2>2, <1>4
    <3> HIDE DEF n, buf
    <3> QED  BY <3>1, <3>2, <3>3, <1>2, <1>3, <1>5, PutLine
  <2>4. OneWordOver(b, n + 1)  BY <2>2, <1>2, <1>4 DEF OneWordOver
  <2>5. ~hidden => shown' = t  BY <1>1, <1>2, <1>9 DEF t
  <2>6. shown' \in Seq(Character)  BY <1>1, <1>2, <1>3, <1>9
  <2>7. input_buf_len' = n + 1  BY <1>1, <1>9
  <2> QED  BY <2>2, <2>3, <2>4, <2>5, <2>6, <2>7, <1>1, <1>2, <1>7, KeyKeeps
<1> QED  BY <1>8, <1>9

LEMMA ReturnKeeps ==
  ASSUME EditInv, ReturnPressed
  PROVE  EditInv'
<1> DEFINE ends   == <<"end", "end">>
           stored == Store(input_buf, input_buf_len, ends)
           spaces == Spaces \cap 0..(input_buf_len - 1)
           at     == CHOOSE i \in spaces : \A j \in spaces : i <= j
<1>1. input_buf \in Buffer /\ input_buf_len \in Nat  BY InvIs
<1>2. "end" \in Character /\ ends \in Seq(Character)  BY DEF Character
<1>3. stored = Store(input_buf, input_buf_len, ends)  OBVIOUS
<1>4. /\ input_buf' = IF input_buf[0] = "/msg" /\ spaces # {} THEN [stored EXCEPT ![at] = "end"] ELSE stored
      /\ input_buf_len' = 0 /\ shown' = <<>> /\ hidden' = FALSE /\ UNCHANGED nicks
  BY DEF ReturnPressed
<1> HIDE DEF stored, ends, at, spaces
<1>5. stored \in Buffer
  <2>1. Holds(stored, input_buf, input_buf_len, ends)  BY <1>1, <1>2, <1>3, StoreIs
  <2> QED  BY <2>1 DEF Holds
<1>6. input_buf' \in Buffer  BY <1>2, <1>4, <1>5 DEF Buffer
<1> QED  BY <1>4, <1>6, LineGone

(* What is left of the line, and of the screen, when it ends at n. *)
LEMMA CutLine ==
  ASSUME EditInv, NEW n \in 0..input_buf_len, ~hidden
  PROVE  SubSeq(shown, 1, n) = LineOf(input_buf, n) /\ Len(shown) = input_buf_len
<1>1. /\ input_buf \in Buffer /\ input_buf_len \in 0..LineMax /\ input_buf_len \in Nat
      /\ Line \in Seq(Character) /\ Len(Line) = input_buf_len
      /\ \A i \in 1..input_buf_len : Line[i] = input_buf[i - 1]
      /\ shown = Line
  BY InvIs
<1> DEFINE t == SubSeq(Line, 1, n)
<1>2. n \in Nat /\ n \in 0..LineMax /\ LineMax \in Nat  BY <1>1, EditConsts
<1>3. \A i \in 1..n : Line[i] \in Character  BY <1>1, <1>2
<1>4. t \in Seq(Character) /\ Len(t) = n /\ \A i \in 1..n : t[i] = Line[i]  BY <1>2, <1>3, SubSeqProperties
<1>5. \A i \in 1..n : t[i] = input_buf[i - 1]  BY <1>1, <1>2, <1>4
<1> HIDE DEF t
<1>6. t = LineOf(input_buf, n)  BY <1>1, <1>2, <1>4, <1>5, SameLine
<1> QED  BY <1>1, <1>6 DEF t

LEMMA SubSeqIs ==
  ASSUME NEW s \in Seq(Character), NEW n \in 0..Len(s)
  PROVE  SubSeq(s, 1, n) \in Seq(Character) /\ SubSeq(s, 1, 0) = <<>>
<1>1. \A i \in 1..n : s[i] \in Character  BY ElementOfSeq
<1>2. n \in Int  OBVIOUS
<1> QED  BY <1>1, <1>2, SubSeqProperties, SubSeqEmpty

LEMMA BackspaceKeeps ==
  ASSUME EditInv, BackspacePressed
  PROVE  EditInv'
<1> DEFINE n == input_buf_len - 1
<1>1. /\ input_buf_len > 0 /\ input_buf_len' = n /\ input_buf' = input_buf /\ UNCHANGED nicks
      /\ shown' = IF shown = <<>> THEN shown ELSE Front(shown)
      /\ hidden' = hidden
  BY DEF BackspacePressed, nicks
<1>2. /\ input_buf \in Buffer /\ input_buf_len \in Nat /\ shown \in Seq(Character) /\ hidden \in BOOLEAN
  BY InvIs
<1>3. n \in 0..input_buf_len /\ n \in Nat  BY <1>1, <1>2
<1>4. OneWordOver(input_buf, n) /\ n \in 0..LineMax  BY <1>3, ShorterOver
<1>5. shown' \in Seq(Character)
  <2>1. CASE shown = <<>>  BY <2>1, <1>1, <1>2
  <2>2. CASE shown # <<>>
    <3>1. Len(shown) \in Nat \ {0}  BY <2>2, <1>2, EmptySeq
    <3>2. Len(shown) - 1 \in 0..Len(shown)  BY <3>1
    <3>3. SubSeq(shown, 1, Len(shown) - 1) \in Seq(Character)  BY <3>2, <1>2, SubSeqIs
    <3> QED  BY <2>2, <3>3, <1>1 DEF Front
  <2> QED  BY <2>1, <2>2
<1>6. ~hidden => shown' = LineOf(input_buf, n)
  <2> SUFFICES ASSUME ~hidden PROVE shown' = LineOf(input_buf, n)
    OBVIOUS
  <2>1. SubSeq(shown, 1, n) = LineOf(input_buf, n) /\ Len(shown) = input_buf_len  BY <1>3, CutLine
  <2>2. shown # <<>>  BY <2>1, <1>1, <1>2
  <2> QED  BY <2>1, <2>2, <1>1 DEF Front
<1> HIDE DEF n
<1> QED  BY <1>1, <1>2, <1>4, <1>5, <1>6, KeyKeeps

LEMMA DeleteLineKeeps ==
  ASSUME EditInv, DeleteLinePressed
  PROVE  EditInv'
<1>1. input_buf' = input_buf /\ UNCHANGED nicks /\ input_buf_len' = 0 /\ shown' = <<>> /\ hidden' = FALSE
  BY DEF DeleteLinePressed, nicks
<1>2. input_buf' \in Buffer  BY <1>1, InvIs
<1> QED  BY <1>1, <1>2, LineGone

LEMMA SkipIs ==
  ASSUME NEW n \in Nat, NEW S
  PROVE  /\ Skip(n, S) \in 0..n /\ (Skip(n, S) = 0 \/ Skip(n, S) \notin S)
         /\ \A j \in (Skip(n, S) + 1)..n : j \in S
<1> DEFINE T == {i \in 0..n : i = 0 \/ i \notin S}
<1>1. 0 \in T /\ T \subseteq 0..n  OBVIOUS
<1>2. PICK x \in T : \A y \in T : y <= x  BY <1>1, Greatest
<1>3. x \in 0..n /\ (x = 0 \/ x \notin S)  BY <1>2
<1>4. ASSUME NEW j \in (x + 1)..n PROVE j \in S
  <2>1. j \in 0..n /\ j > x /\ j # 0  BY <1>3
  <2>2. j \notin T  BY <2>1, <1>2
  <2> QED  BY <2>1, <2>2
<1>5. \E i \in 0..n : (i = 0 \/ i \notin S) /\ \A j \in i + 1..n : j \in S  BY <1>3, <1>4
<1> QED  BY <1>5, Zenon DEF Skip

(* How much of the line ctrl-W leaves. *)
WordEnd == Skip(Skip(input_buf_len, Spaces), Cells \ Spaces)

LEMMA WordEndIs ==
  ASSUME EditInv, input_buf_len > 0
  PROVE  /\ WordEnd \in 0..input_buf_len /\ WordEnd # input_buf_len
         /\ \E m \in WordEnd..input_buf_len :
              /\ \A j \in (m + 1)..input_buf_len : input_buf[j] = "sp"
              /\ \A j \in (WordEnd + 1)..m : input_buf[j] # "sp"
<1> DEFINE l == input_buf_len
           m == Skip(l, Spaces)
           n == Skip(m, Cells \ Spaces)
<1>1. l \in Nat /\ l \in 0..LineMax /\ LineMax \in Nat /\ l > 0  BY InvIs, EditConsts
<1>2. /\ m \in 0..l /\ (m = 0 \/ m \notin Spaces)
      /\ \A j \in (m + 1)..l : j \in Spaces
  BY <1>1, SkipIs
<1>3. m \in Nat  BY <1>1, <1>2
<1> HIDE DEF m
<1>4. /\ n \in 0..m /\ (n = 0 \/ n \notin Cells \ Spaces)
      /\ \A j \in (n + 1)..m : j \in Cells \ Spaces
  BY <1>3, SkipIs
<1> HIDE DEF n
<1>5. n # l
  <2> SUFFICES ASSUME n = l PROVE FALSE
    OBVIOUS
  <2>1. m = l /\ l # 0 /\ l \in Cells  BY <1>1, <1>2, <1>4 DEF Cells
  <2> QED  BY <2>1, <1>2, <1>4
<1>6. \A j \in (m + 1)..l : input_buf[j] = "sp"  BY <1>2 DEF Spaces
<1>7. \A j \in (n + 1)..m : input_buf[j] # "sp"  BY <1>4 DEF Spaces
<1>8. n \in 0..l /\ m \in n..l  BY <1>1, <1>2, <1>4
<1>9. WordEnd = n  BY DEF WordEnd, n, m
<1> QED  BY <1>5, <1>6, <1>7, <1>8, <1>9

LEMMA DeleteWordKeeps ==
  ASSUME EditInv, DeleteWordPressed
  PROVE  EditInv' /\ input_buf_len' = WordEnd
<1> DEFINE n    == WordEnd
           gone == input_buf_len - n
<1>1. /\ input_buf_len > 0 /\ input_buf_len' = n /\ input_buf' = input_buf /\ UNCHANGED nicks
      /\ shown' = IF gone >= Len(shown) THEN <<>> ELSE SubSeq(shown, 1, Len(shown) - gone)
      /\ hidden' = hidden
  BY DEF DeleteWordPressed, del_last_word, nicks, WordEnd
<1>2. /\ input_buf \in Buffer /\ input_buf_len \in Nat /\ shown \in Seq(Character) /\ hidden \in BOOLEAN
      /\ Len(shown) \in Nat
  BY InvIs
<1>3. n \in 0..input_buf_len /\ n \in Nat  BY <1>1, <1>2, WordEndIs
<1>4. OneWordOver(input_buf, n) /\ n \in 0..LineMax  BY <1>3, ShorterOver
<1> HIDE DEF n
<1>5. shown' \in Seq(Character)
  <2>1. CASE gone >= Len(shown)  BY <2>1, <1>1
  <2>2. CASE ~(gone >= Len(shown))
    <3>1. Len(shown) - gone \in 0..Len(shown)  BY <2>2, <1>2, <1>3
    <3>2. shown' = SubSeq(shown, 1, Len(shown) - gone)  BY <2>2, <1>1
    <3> HIDE DEF gone
    <3> QED  BY <3>1, <3>2, <1>2, SubSeqIs
  <2> QED  BY <2>1, <2>2
<1>6. ~hidden => shown' = LineOf(input_buf, n)
  <2> SUFFICES ASSUME ~hidden PROVE shown' = LineOf(input_buf, n)
    OBVIOUS
  <2>1. SubSeq(shown, 1, n) = LineOf(input_buf, n) /\ Len(shown) = input_buf_len  BY <1>3, CutLine
  <2>2. CASE gone >= Len(shown)
    <3>1. n = 0  BY <2>1, <2>2, <1>1, <1>2, <1>3
    <3>2. shown' = <<>>  BY <2>2, <1>1
    <3> QED  BY <3>1, <3>2, <1>2, EmptyLine
  <2>3. CASE ~(gone >= Len(shown))
    <3>1. Len(shown) - gone = n  BY <2>1, <1>2, <1>3
    <3>2. shown' = SubSeq(shown, 1, Len(shown) - gone)  BY <2>3, <1>1
    <3> QED  BY <3>1, <3>2, <2>1
  <2> QED  BY <2>2, <2>3
<1>7. EditInv'  BY <1>1, <1>2, <1>4, <1>5, <1>6, KeyKeeps
<1> QED  BY <1>1, <1>7 DEF n

LEMMA MsgMacroKeeps ==
  ASSUME EditInv, MsgMacro
  PROVE  EditInv'
<1> DEFINE nick == last_msg_nick
           text == <<"/msg", "sp">> \o nick \o <<"sp">>
           s    == Append(text, "end")
           k    == Len(text)
           b    == Store(input_buf, 0, s)
<1>1. /\ input_buf_len = 0 /\ nick # <<>> /\ input_buf' = b /\ input_buf_len' = k
      /\ shown' = shown \o text /\ UNCHANGED nicks /\ hidden' = hidden
  BY DEF MsgMacro, nicks
<1>2. nick \in Speakers
  <2>1. nick \in Talkers  BY <1>1 DEF EditInv, EditTypeOK
  <2> QED  BY <2>1, EditAssumption
<1>3. nick \in Seq(Character) /\ Len(nick) \in 1..NICKLEN  BY <1>2, NickIs
<1>4. "sp" \in Character /\ "end" \in Character /\ "/msg" \in Character  BY DEF Character
<1>5. text \in Seq(Character) /\ k = 3 + Len(nick)
  <2>1. <<"/msg", "sp">> \in Seq(Character) /\ <<"sp">> \in Seq(Character)  BY <1>4
  <2> QED  BY <2>1, <1>3
<1>6. /\ BUF_SIZE \in Nat /\ NICKLEN \in Nat /\ NICKLEN > 0 /\ BUF_SIZE >= NICKLEN + 4
      /\ LineMax = BUF_SIZE - 2 + NICKLEN
  BY EditConsts
<1>7. k \in Nat /\ k <= BUF_SIZE - 1 /\ k \in 0..LineMax /\ 0 + k = k
  <2> HIDE DEF k
  <2> QED  BY <1>3, <1>5, <1>6
<1> HIDE DEF text
<1>8. s \in Seq(Character) /\ Len(s) = k + 1 /\ \A i \in 1..k : s[i] = text[i]  BY <1>4, <1>5
<1>9. b = Store(input_buf, 0, s)  OBVIOUS
<1>10. /\ input_buf \in Buffer /\ shown \in Seq(Character) /\ hidden \in BOOLEAN
       /\ (~hidden => shown = Line) /\ Len(Line) = 0 /\ Line \in Seq(Character)
  BY <1>1, InvIs
<1> HIDE DEF b, s
<1>11. b \in Buffer  BY <1>8, <1>9, <1>10, StoreIs DEF Holds
<1>12. text = LineOf(b, k)
  <2>1. \A i \in 1..k : text[0 + i] = s[i]  BY <1>7, <1>8
  <2>2. \A i \in 1..0 : text[i] = input_buf[i - 1]  OBVIOUS
  <2>3. Len(text) = 0 + k  BY <1>7
  <2>4. Puts(text, input_buf, 0, s, k)
    <3> HIDE DEF k
    <3> QED  BY <1>5, <2>1, <2>2, <2>3 DEF Puts
  <2>5. k \in 0..Len(s) /\ 0 + k <= LineMax /\ 0 \in Nat
    <3> HIDE DEF k
    <3> QED  BY <1>7, <1>8, <1>6
  <2>6. text = LineOf(b, 0 + k)
    <3> HIDE DEF k
    <3> QED  BY <2>4, <2>5, <1>8, <1>9, <1>10, PutLine
  <2> QED  BY <2>6, <1>7
<1>13. ~hidden => shown \o text = text
  <2> SUFFICES ASSUME ~hidden PROVE shown \o text = text
    OBVIOUS
  <2>1. shown = <<>>  BY <1>10, EmptySeq
  <2> QED  BY <2>1, <1>5
<1>14. shown' \in Seq(Character)  BY <1>1, <1>5, <1>10
<1>15. OneWordOver(b, k)
  <2> HIDE DEF k
  <2> QED  BY <1>7, <1>6 DEF OneWordOver
<1> HIDE DEF k
<1> QED  BY <1>1, <1>7, <1>10, <1>11, <1>12, <1>13, <1>14, <1>15, KeyKeeps

(* What TAB does behind a word: nothing to the line, or the nick n takes   *)
(* the place of all but its first b characters, which it begins with.      *)
Completed(n, b) ==
  /\ n \in nicksSeen /\ b \in 0..(input_buf_len - 1) /\ b <= BUF_SIZE - 2
  /\ input_buf_len - b <= Len(n)
  /\ \A i \in 1..(input_buf_len - b) : Fold(Line[b + i]) = Fold(n[i])
  /\ input_buf' = Store(input_buf, b, Append(n, "end"))
  /\ input_buf_len' = b + Len(n)
  /\ shown' = SubSeq(Line, 1, b) \o n /\ hidden' = FALSE

LEMMA CompletionIs ==
  ASSUME EditInv, input_buf_len > 0, nick_completion
  PROVE  /\ UNCHANGED nicks
         /\ \/ UNCHANGED <<input_buf, input_buf_len, shown, hidden>>
            \/ UNCHANGED <<input_buf, input_buf_len>> /\ shown' = Line /\ hidden' = FALSE
            \/ \E n \in nicksSeen, b \in 0..(input_buf_len - 1) : Completed(n, b)
<1> DEFINE l      == input_buf_len
           starts == {i \in 0..l : l - i <= NICKLEN /\ \A j \in i..(l - 1) : input_buf[j] # "sp"}
           base   == CHOOSE i \in starts : \A j \in starts : i <= j
           term   == SubSeq(Line, base + 1, l)
           found  == {i \in 1..NICK_LIST_SIZE : Matches(term, nick_list[i])}
           first  == CHOOSE i \in found : \A j \in found : i <= j
           nick   == nick_list[first]
<1>1. /\ UNCHANGED nicks
      /\ \/ base = l /\ UNCHANGED <<input_buf, input_buf_len, shown, hidden>>
         \/ /\ base < l /\ found = {} /\ shown' = Line /\ hidden' = FALSE
            /\ UNCHANGED <<input_buf, input_buf_len>>
         \/ /\ base < l /\ found # {}
            /\ input_buf' = Store(input_buf, base, Append(nick, "end"))
            /\ input_buf_len' = base + Len(nick)
            /\ shown' = SubSeq(Line, 1, base) \o nick /\ hidden' = FALSE
  BY DEF nick_completion
<1>2. /\ l \in Nat /\ l \in 0..LineMax /\ Line \in Seq(Character) /\ Len(Line) = l
      /\ OneWordOver(input_buf, l)
  BY InvIs
<1>3. /\ BUF_SIZE \in Nat /\ NICKLEN \in Nat /\ NICKLEN > 0 /\ BUF_SIZE >= NICKLEN + 4
      /\ LineMax = BUF_SIZE - 2 + NICKLEN
  BY EditConsts
<1>4. base \in starts /\ \A j \in starts : base <= j
  <2>1. l \in starts  BY <1>2, <1>3
  <2>2. starts \subseteq Nat /\ starts # {}  BY <2>1
  <2> HIDE DEF starts
  <2> QED  BY <2>2, Least
<1>5. base \in 0..l  BY <1>4
<1> HIDE DEF base
<1>6. CASE base < l /\ found # {}
  <2>1. base \in 0..(l - 1) /\ base \in Nat  BY <1>2, <1>5, <1>6
  <2>2. base <= BUF_SIZE - 2
    <3>1. CASE l <= BUF_SIZE - 1  BY <3>1, <2>1, <1>2, <1>3
    <3>2. CASE l > BUF_SIZE - 1
      <4>1. BUF_SIZE - 2 \in 0..l /\ l - (BUF_SIZE - 2) <= NICKLEN  BY <3>2, <1>2, <1>3
      <4>2. \A j \in (BUF_SIZE - 2)..(l - 1) : input_buf[j] # "sp"  BY <3>2, <1>2 DEF OneWordOver
      <4>3. BUF_SIZE - 2 \in starts  BY <4>1, <4>2
      <4> QED  BY <4>3, <1>4
    <3> QED  BY <3>1, <3>2, <1>2, <1>3
  <2>3. first \in found
    <3>1. found \subseteq Nat  BY EditConsts
    <3> HIDE DEF found
    <3> QED  BY <3>1, <1>6, Least
  <2>4. first \in 1..NICK_LIST_SIZE /\ Matches(term, nick)  BY <2>3
  <2> HIDE DEF found, first
  <2>5. \A i \in (base + 1)..l : Line[i] \in Character
    <3>1. \A i \in (base + 1)..l : i \in 1..Len(Line)  BY <2>1, <1>2
    <3> QED  BY <3>1, <1>2, ElementOfSeq
  <2>6. /\ Len(term) = l - base
        /\ \A i \in 1..(l - base) : term[i] = Line[base + i]
    <3>1. base + 1 \in Int /\ l \in Int /\ base + 1 <= l + 1  BY <2>1, <1>2
    <3>2. /\ Len(term) = IF base + 1 <= l THEN l - (base + 1) + 1 ELSE 0
          /\ \A i \in 1..(l - (base + 1) + 1) : term[i] = Line[(base + 1) + i - 1]
      <4> DEFINE a == base + 1
      <4>1. a \in Int  BY <3>1
      <4>2. \A i \in a..l : Line[i] \in Character  BY <2>5
      <4> HIDE DEF a
      <4>3. /\ Len(SubSeq(Line, a, l)) = IF a <= l THEN l - a + 1 ELSE 0
            /\ \A i \in 1..(l - a + 1) : SubSeq(Line, a, l)[i] = Line[a + i - 1]
        BY <4>1, <4>2, <1>2, SubSeqProperties
      <4> QED  BY <4>3 DEF a
    <3>3. l - (base + 1) + 1 = l - base /\ base + 1 <= l  BY <2>1, <1>2
    <3>4. \A i \in 1..(l - base) : (base + 1) + i - 1 = base + i  BY <2>1, <1>2
    <3> HIDE DEF term
    <3> QED  BY <3>2, <3>3, <3>4
  <2> HIDE DEF term
  <2>7. l - base <= Len(nick) /\ \A i \in 1..(l - base) : Fold(Line[base + i]) = Fold(nick[i])
    BY <2>4, <2>6 DEF Matches
  <2>8. nick \in nicksSeen
    <3>1. nick \in nicksSeen \cup {<<>>}  BY <2>4 DEF EditInv, EditTypeOK, NicksDistinct
    <3>2. nick # <<>>
      <4>1. l - base > 0  BY <2>1, <1>2
      <4>2. Len(<<>>) = 0  OBVIOUS
      <4> HIDE DEF nick, l
      <4> QED  BY <4>1, <4>2, <2>7, <1>2, <2>1
    <3> QED  BY <3>1, <3>2
  <2>9. /\ input_buf' = Store(input_buf, base, Append(nick, "end"))
        /\ input_buf_len' = base + Len(nick)
        /\ shown' = SubSeq(Line, 1, base) \o nick /\ hidden' = FALSE
    <3>1. base # l  BY <2>1, <1>2
    <3> HIDE DEF nick
    <3> QED  BY <3>1, <1>1, <1>6, Zenon
  <2> HIDE DEF nick
  <2>10. Completed(nick, base)  BY <2>1, <2>2, <2>7, <2>8, <2>9 DEF Completed
  <2> QED  BY <2>10, <2>1, <2>8, <1>1
<1>7. CASE ~(base < l /\ found # {})  BY <1>1, <1>7
<1> QED  BY <1>6, <1>7

LEMMA JoinIs ==
  ASSUME NEW u \in Seq(Character), NEW v \in Seq(Character)
  PROVE  /\ u \o v \in Seq(Character) /\ Len(u \o v) = Len(u) + Len(v)
         /\ \A i \in 1..Len(u) : (u \o v)[i] = u[i]
         /\ \A i \in 1..Len(v) : (u \o v)[Len(u) + i] = v[i]
OBVIOUS

LEMMA ReverseIs ==
  ASSUME NEW u \in Seq(Character)
  PROVE  /\ Reverse(u) \in Seq(Character) /\ Len(Reverse(u)) = Len(u)
         /\ \A i \in 1..Len(u) : Reverse(u)[i] = u[Len(u) - i + 1]
<1>1. Len(u) \in Nat  OBVIOUS
<1>2. ASSUME NEW i \in 1..Len(u) PROVE u[Len(u) - i + 1] \in Character
  <2>1. Len(u) - i + 1 \in 1..Len(u)  BY <1>1
  <2> QED  BY <2>1, ElementOfSeq
<1>3. Reverse(u) \in [1..Len(u) -> Character]  BY <1>2 DEF Reverse
<1> QED  BY <1>1, <1>3 DEF Reverse

LEMMA SuffixIs ==
  ASSUME NEW n \in Seq(Character), NEW t \in Seq(Character), NEW b \in Nat, Len(t) = b + Len(n),
         \A i \in 1..Len(n) : t[b + i] = n[i]
  PROVE  IsSuffix(n, t)
<1> DEFINE u == Reverse(n)
           v == Reverse(t)
           m == Len(n)
<1>1. m \in Nat /\ Len(t) = b + m  OBVIOUS
<1>2. u \in Seq(Character) /\ Len(u) = m /\ \A i \in 1..m : u[i] = n[m - i + 1]  BY ReverseIs
<1>3. v \in Seq(Character) /\ Len(v) = b + m /\ \A i \in 1..(b + m) : v[i] = t[b + m - i + 1]
  <2>1. v \in Seq(Character) /\ Len(v) = Len(t) /\ \A i \in 1..Len(t) : v[i] = t[Len(t) - i + 1]
    BY ReverseIs
  <2> HIDE DEF v, m
  <2>2. ASSUME NEW i \in 1..(b + m) PROVE v[i] = t[b + m - i + 1]
    <3>1. i \in 1..Len(t) /\ Len(t) - i + 1 = b + m - i + 1  BY <1>1
    <3>2. v[i] = t[Len(t) - i + 1]  BY <2>1, <3>1
    <3> QED  BY <3>1, <3>2
  <2> QED  BY <2>1, <2>2, <1>1
<1>4. \A i \in 1..m : t[b + i] = n[i]  OBVIOUS
<1> HIDE DEF u, v, m
<1>5. ASSUME NEW i \in 1..m PROVE u[i] = v[i]
  <2> DEFINE j == m - i + 1
  <2>1. j \in 1..m /\ i \in 1..(b + m) /\ b + m - i + 1 = b + j  BY <1>1
  <2> HIDE DEF j
  <2>2. u[i] = n[j]  BY <1>2 DEF j
  <2> QED  BY <2>1, <2>2, <1>3, <1>4
<1>6. SubSeq(u, 1, m) \in Seq(Character) /\ Len(SubSeq(u, 1, m)) = m /\ \A i \in 1..m : SubSeq(u, 1, m)[i] = u[i]
  <2>1. \A i \in 1..m : u[i] \in Character  BY <1>2, ElementOfSeq
  <2> QED  BY <2>1, <1>1, SubSeqProperties
<1>7. SubSeq(v, 1, m) \in Seq(Character) /\ Len(SubSeq(v, 1, m)) = m /\ \A i \in 1..m : SubSeq(v, 1, m)[i] = v[i]
  <2>1. ASSUME NEW i \in 1..m PROVE v[i] \in Character
    <3>1. i \in 1..Len(v)  BY <1>1, <1>3
    <3> QED  BY <3>1, <1>3, ElementOfSeq
  <2> QED  BY <2>1, <1>1, SubSeqProperties
<1> DEFINE p == SubSeq(u, 1, m)
           q == SubSeq(v, 1, m)
<1>8. p = q
  <2>1. \A i \in 1..m : p[i] = q[i]  BY <1>5, <1>6, <1>7
  <2> HIDE DEF p, q
  <2> QED  BY <2>1, <1>6, <1>7, SeqEqual DEF p, q
<1>9. Len(u) <= Len(v)  BY <1>1, <1>2, <1>3
<1>10. IsPrefix(u, v)  BY <1>2, <1>8, <1>9 DEF IsPrefix
<1> QED  BY <1>10 DEF IsSuffix, u, v

LEMMA CompletedKeeps ==
  ASSUME EditInv, input_buf_len > 0, NEW n \in nicksSeen, NEW b \in 0..(input_buf_len - 1), Completed(n, b),
         UNCHANGED nicks
  PROVE  /\ EditInv'
         /\ Len(Line') >= Len(Line)
         /\ \A i \in 1..Len(Line) : Fold(Line'[i]) = Fold(Line[i])
         /\ IsSuffix(n, Line')
<1> DEFINE l  == input_buf_len
           m  == Len(n)
           s  == Append(n, "end")
           t  == SubSeq(Line, 1, b) \o n
           c  == Store(input_buf, b, s)
<1>1. /\ b <= BUF_SIZE - 2 /\ l - b <= m
      /\ \A i \in 1..(l - b) : Fold(Line[b + i]) = Fold(n[i])
      /\ input_buf' = c /\ input_buf_len' = b + m /\ shown' = t /\ hidden' = FALSE
  BY DEF Completed
<1>2. /\ input_buf \in Buffer /\ l \in 0..LineMax /\ l \in Nat /\ Line \in Seq(Character) /\ Len(Line) = l
      /\ \A i \in 1..l : Line[i] = input_buf[i - 1]
  BY InvIs
<1>3. /\ BUF_SIZE \in Nat /\ NICKLEN \in Nat /\ NICKLEN > 0 /\ BUF_SIZE >= NICKLEN + 4
      /\ LineMax = BUF_SIZE - 2 + NICKLEN /\ LineMax \in Nat
  BY EditConsts
<1>4. n \in Speakers  BY DEF EditInv, EditTypeOK
<1>5. /\ n \in Seq(Character) /\ m \in 1..NICKLEN
      /\ \A i \in 1..m : n[i] \in Letters /\ n[i] # "sp"
  BY <1>4, NickIs
<1>6. "end" \in Character  BY DEF Character
<1>7. s \in Seq(Character) /\ Len(s) = m + 1 /\ \A i \in 1..m : s[i] = n[i]  BY <1>5, <1>6
<1>8. b \in Nat /\ b < l  BY <1>2
<1>9. t \in Seq(Character) /\ Len(t) = b + m /\ (\A i \in 1..b : t[i] = Line[i]) /\ \A i \in 1..m : t[b + i] = n[i]
  <2> DEFINE u == SubSeq(Line, 1, b)
  <2>1. \A i \in 1..b : Line[i] \in Character
    <3>1. \A i \in 1..b : i \in 1..Len(Line)  BY <1>2, <1>8
    <3> QED  BY <3>1, <1>2, ElementOfSeq
  <2>2. u \in Seq(Character) /\ Len(u) = b /\ \A i \in 1..b : u[i] = Line[i]
    BY <2>1, <1>8, SubSeqProperties
  <2> HIDE DEF u
  <2>3. /\ u \o n \in Seq(Character) /\ Len(u \o n) = b + m
        /\ \A i \in 1..b : (u \o n)[i] = u[i]
        /\ \A i \in 1..m : (u \o n)[b + i] = n[i]
    BY <2>2, <1>5, JoinIs
  <2> QED  BY <2>2, <2>3 DEF u
<1>10. c = Store(input_buf, b, s)  OBVIOUS
<1> HIDE DEF c, t, s, m, l
<1>11. Holds(c, input_buf, b, s)  BY <1>2, <1>7, <1>8, <1>10, StoreIs
<1>12. b + m \in 0..LineMax /\ b + m \in Nat  BY <1>1, <1>3, <1>5, <1>8
<1>13. t = LineOf(c, b + m)
  <2>1. \A i \in 1..b : t[i] = input_buf[i - 1]
    <3>1. \A i \in 1..b : i \in 1..l  BY <1>2, <1>8
    <3> QED  BY <3>1, <1>2, <1>9
  <2>2. \A i \in 1..m : t[b + i] = s[i]  BY <1>7, <1>9
  <2>3. Puts(t, input_buf, b, s, m)  BY <2>1, <2>2, <1>9 DEF Puts
  <2>4. m \in 0..Len(s) /\ b + m <= LineMax  BY <1>5, <1>7, <1>12, <1>3
  <2> QED  BY <2>3, <2>4, <1>2, <1>7, <1>8, <1>10, PutLine
<1>14. OneWordOver(c, b + m)
  <2>1. ASSUME NEW j \in (BUF_SIZE - 2)..((b + m) - 1) PROVE c[j] # "sp"
    <3> DEFINE i == j - b + 1
    <3>1. i \in 1..m /\ i \in 1..Len(s) /\ b + i - 1 = j /\ j \in Cells
      BY <1>1, <1>3, <1>5, <1>7, <1>8, <1>12 DEF Cells
    <3> HIDE DEF i
    <3>2. c[j] = s[i]  BY <3>1, <1>11 DEF Holds
    <3> QED  BY <3>1, <3>2, <1>5, <1>7
  <2> QED  BY <2>1 DEF OneWordOver
<1>15. Line' = t  BY <1>1, <1>13, LineIs
<1>16. EditInv'
  <2>1. c \in Buffer  BY <1>11 DEF Holds
  <2> QED  BY <2>1, <1>1, <1>9, <1>12, <1>13, <1>14, KeyKeeps
<1>17. Len(t) >= l  BY <1>1, <1>2, <1>5, <1>8, <1>9
<1>18. ASSUME NEW i \in 1..l PROVE Fold(t[i]) = Fold(Line[i])
  <2>1. CASE i <= b  BY <2>1, <1>2, <1>8, <1>9
  <2>2. CASE i > b
    <3> DEFINE j == i - b
    <3>1. j \in 1..(l - b) /\ j \in 1..m /\ b + j = i  BY <2>2, <1>1, <1>2, <1>5, <1>8
    <3> HIDE DEF j
    <3> QED  BY <3>1, <1>1, <1>9
  <2> QED  BY <2>1, <2>2, <1>2, <1>8
<1>19. IsSuffix(n, t)
  <2>1. Len(t) = b + Len(n) /\ \A i \in 1..Len(n) : t[b + i] = n[i]  BY <1>9 DEF m
  <2> QED  BY <2>1, <1>5, <1>8, <1>9, SuffixIs
<1> QED  BY <1>2, <1>15, <1>16, <1>17, <1>18, <1>19

(* The line as nick_completion leaves it. *)
OnlyExtended ==
  /\ Len(Line') >= Len(Line)
  /\ \A i \in 1..Len(Line) : Fold(Line'[i]) = Fold(Line[i])
  /\ Line' # Line => \E n \in nicksSeen : IsSuffix(n, Line')

LEMMA CompletionKeeps ==
  ASSUME EditInv, input_buf_len > 0, nick_completion
  PROVE  EditInv' /\ OnlyExtended
<1>1. /\ UNCHANGED nicks
      /\ \/ UNCHANGED <<input_buf, input_buf_len, shown, hidden>>
         \/ UNCHANGED <<input_buf, input_buf_len>> /\ shown' = Line /\ hidden' = FALSE
         \/ \E n \in nicksSeen, b \in 0..(input_buf_len - 1) : Completed(n, b)
  BY CompletionIs
<1>2. CASE UNCHANGED <<input_buf, input_buf_len>>
            /\ (UNCHANGED <<shown, hidden>> \/ (shown' = Line /\ hidden' = FALSE))
  <2>1. /\ input_buf \in Buffer /\ input_buf_len \in 0..LineMax /\ input_buf_len \in Nat
        /\ Line \in Seq(Character) /\ Len(Line) = input_buf_len
        /\ shown \in Seq(Character) /\ hidden \in BOOLEAN /\ (~hidden => shown = Line)
        /\ Line = LineOf(input_buf, input_buf_len) /\ OneWordOver(input_buf, input_buf_len)
    BY InvIs
  <2>2. EditInv'
    <3>1. input_buf' = input_buf /\ input_buf_len' = input_buf_len  BY <1>2
    <3>2. shown' \in Seq(Character) /\ hidden' \in BOOLEAN /\ (~hidden' => shown' = Line)  BY <1>2, <2>1
    <3> QED  BY <1>1, <2>1, <3>1, <3>2, KeyKeeps
  <2>3. Line' = Line  BY <1>2, LineIs
  <2> QED  BY <2>1, <2>2, <2>3 DEF OnlyExtended
<1>3. CASE \E n \in nicksSeen, b \in 0..(input_buf_len - 1) : Completed(n, b)
  <2>1. PICK n \in nicksSeen, b \in 0..(input_buf_len - 1) : Completed(n, b)  BY <1>3
  <2> QED  BY <2>1, <1>1, CompletedKeeps DEF OnlyExtended
<1> QED  BY <1>1, <1>2, <1>3

-------------------------------------------------------------------------------
(***************************************************************************)
(* What comes from outside.                                                *)
(***************************************************************************)

(* A line of the server was printed: the screen is made to show the line.  *)
LEMMA RedrawnKeeps ==
  ASSUME EditInv, UNCHANGED <<input_buf, input_buf_len>>, Redrawn,
         nick_list' \in [1..NICK_LIST_SIZE -> Speakers \cup {<<>>}], NicksDistinct',
         last_msg_nick' \in Talkers \cup {<<>>}, nicksSeen' \subseteq Speakers
  PROVE  EditInv'
<1>1. /\ input_buf' = input_buf /\ input_buf_len' = input_buf_len /\ shown' = Line /\ hidden' = FALSE
  BY DEF Redrawn
<1>2. /\ input_buf \in Buffer /\ input_buf_len \in 0..LineMax /\ Line \in Seq(Character)
      /\ Line = LineOf(input_buf, input_buf_len) /\ OneWordOver(input_buf, input_buf_len)
  BY InvIs
<1>3. EditTypeOK'  BY <1>1, <1>2 DEF EditTypeOK, Buffer
<1>4. ScreenShowsLine'  BY <1>1, <1>2, LineIs DEF ScreenShowsLine
<1> QED  BY <1>1, <1>2, <1>3, <1>4 DEF EditInv

LEMMA NickAdded ==
  ASSUME EditInv, NEW n \in Speakers, add_to_nick_list(n), nicksSeen' = nicksSeen \cup {n}
  PROVE  nick_list' \in [1..NICK_LIST_SIZE -> Speakers \cup {<<>>}] /\ NicksDistinct'
<1> DEFINE free == {i \in 1..NICK_LIST_SIZE : nick_list[i] = <<>>}
           at   == IF free = {} THEN 1 ELSE CHOOSE i \in free : \A j \in free : i <= j
<1>1. nick_list \in [1..NICK_LIST_SIZE -> Speakers \cup {<<>>}] /\ NicksDistinct
  BY DEF EditInv, EditTypeOK
<1>2. nick_list' = IF \E i \in 1..NICK_LIST_SIZE : nick_list[i] = n THEN nick_list
                   ELSE [nick_list EXCEPT ![at] = n]
  BY DEF add_to_nick_list
<1>3. at \in 1..NICK_LIST_SIZE
  <2>1. CASE free = {}  BY <2>1, EditConsts
  <2>2. CASE free # {}
    <3>1. free \subseteq Nat /\ free \subseteq 1..NICK_LIST_SIZE  BY EditConsts
    <3> HIDE DEF free
    <3>2. (CHOOSE i \in free : \A j \in free : i <= j) \in free  BY <2>2, <3>1, Least
    <3> QED  BY <2>2, <3>1, <3>2
  <2> QED  BY <2>1, <2>2
<1> HIDE DEF at
<1>4. CASE \E i \in 1..NICK_LIST_SIZE : nick_list[i] = n
  <2>1. nick_list' = nick_list  BY <1>2, <1>4
  <2> QED  BY <2>1, <1>1 DEF NicksDistinct
<1>5. CASE ~\E i \in 1..NICK_LIST_SIZE : nick_list[i] = n
  <2>1. nick_list' = [nick_list EXCEPT ![at] = n]  BY <1>2, <1>5
  <2>2. nick_list' \in [1..NICK_LIST_SIZE -> Speakers \cup {<<>>}]  BY <2>1, <1>1
  <2>3. \A i \in 1..NICK_LIST_SIZE : nick_list'[i] = IF i = at THEN n ELSE nick_list[i]  BY <2>1, <1>1, <1>3
  <2>4. ASSUME NEW i \in 1..NICK_LIST_SIZE, NEW j \in 1..NICK_LIST_SIZE,
               nick_list'[i] = nick_list'[j], nick_list'[i] # <<>>
        PROVE  i = j
    BY <2>3, <2>4, <1>1, <1>5 DEF NicksDistinct
  <2>5. \A i \in 1..NICK_LIST_SIZE : nick_list'[i] \in nicksSeen' \cup {<<>>}
    BY <2>3, <1>1 DEF NicksDistinct
  <2> QED  BY <2>2, <2>4, <2>5 DEF NicksDistinct
<1> QED  BY <1>4, <1>5

LEMMA ChannelTextKeeps ==
  ASSUME EditInv, NEW n \in Speakers, ChannelText(n)
  PROVE  EditInv'
<1>1. /\ add_to_nick_list(n) /\ nicksSeen' = nicksSeen \cup {n} /\ Redrawn
      /\ UNCHANGED <<input_buf, input_buf_len>> /\ last_msg_nick' = last_msg_nick
  BY DEF ChannelText
<1>2. last_msg_nick \in Talkers \cup {<<>>} /\ nicksSeen \subseteq Speakers  BY DEF EditInv, EditTypeOK
<1>3. nick_list' \in [1..NICK_LIST_SIZE -> Speakers \cup {<<>>}] /\ NicksDistinct'  BY <1>1, NickAdded
<1> QED  BY <1>1, <1>2, <1>3, RedrawnKeeps

LEMMA PrivateTextKeeps ==
  ASSUME EditInv, NEW n \in Talkers, PrivateText(n)
  PROVE  EditInv'
<1>1. /\ last_msg_nick' = n /\ Redrawn /\ UNCHANGED <<input_buf, input_buf_len>>
      /\ nick_list' = nick_list /\ nicksSeen' = nicksSeen
  BY DEF PrivateText
<1>2. /\ nick_list \in [1..NICK_LIST_SIZE -> Speakers \cup {<<>>}] /\ NicksDistinct
      /\ nicksSeen \subseteq Speakers
  BY DEF EditInv, EditTypeOK
<1>3. NicksDistinct'  BY <1>1, <1>2 DEF NicksDistinct
<1> QED  BY <1>1, <1>2, <1>3, RedrawnKeeps

LEMMA NoticeKeeps ==
  ASSUME EditInv, Notice
  PROVE  EditInv'
<1>1. /\ shown' = <<>> /\ hidden' = (input_buf_len > 0) /\ input_buf' = input_buf
      /\ input_buf_len' = input_buf_len /\ UNCHANGED nicks
  BY DEF Notice, nicks
<1>2. /\ input_buf \in Buffer /\ input_buf_len \in 0..LineMax /\ input_buf_len \in Nat
      /\ OneWordOver(input_buf, input_buf_len)
  BY InvIs
<1>3. LineOf(input_buf, 0) = <<>> /\ <<>> \in Seq(Character)  BY <1>2, EmptyLine
<1>4. ~hidden' => shown' = LineOf(input_buf, input_buf_len)
  <2>1. input_buf_len = 0 \/ input_buf_len > 0  BY <1>2
  <2>2. ~hidden' => input_buf_len = 0  BY <2>1, <1>1, Zenon
  <2> QED  BY <2>2, <1>1, <1>3
<1>5. hidden' \in BOOLEAN  BY <1>1
<1> QED  BY <1>1, <1>2, <1>3, <1>4, <1>5, KeyKeeps

LEMMA RegistersNickKeeps ==
  ASSUME EditInv, RegistersNick
  PROVE  EditInv'
<1>1. /\ shown' = <<>> /\ hidden' = FALSE /\ input_buf_len' = 0 /\ input_buf' = input_buf /\ UNCHANGED nicks
  BY DEF RegistersNick, nicks
<1>2. input_buf' \in Buffer  BY <1>1, InvIs
<1> QED  BY <1>1, <1>2, LineGone

-------------------------------------------------------------------------------
(***************************************************************************)
(* Every step.                                                             *)
(***************************************************************************)
LEMMA EditInitial == EditInit => EditInv
<1> SUFFICES ASSUME EditInit PROVE EditInv
  OBVIOUS
<1>1. input_buf \in Buffer /\ input_buf_len = 0 /\ shown = <<>> /\ hidden = FALSE
  BY DEF EditInit, Buffer, Character
<1>2. LineOf(input_buf, 0) = <<>> /\ 0 \in 0..LineMax /\ <<>> \in Seq(Character) /\ OneWordOver(input_buf, 0)
  BY <1>1, EmptyLine
<1>3. nick_list = [i \in 1..NICK_LIST_SIZE |-> <<>>] /\ last_msg_nick = <<>> /\ nicksSeen = {}
  BY DEF EditInit
<1>4. EditTypeOK  BY <1>1, <1>2, <1>3 DEF EditTypeOK, NicksDistinct, Buffer
<1>5. ScreenShowsLine  BY <1>1, <1>2, LineIs DEF ScreenShowsLine
<1> QED  BY <1>1, <1>2, <1>4, <1>5 DEF EditInv

LEMMA TabKeeps ==
  ASSUME EditInv, TabPressed
  PROVE  EditInv' /\ (input_buf_len > 0 => OnlyExtended)
<1>1. input_buf_len \in Nat  BY InvIs
<1>2. CASE input_buf_len = 0
  <2>1. MsgMacro  BY <1>2 DEF TabPressed
  <2> QED  BY <2>1, <1>2, MsgMacroKeeps
<1>3. CASE input_buf_len > 0
  <2>1. nick_completion  BY <1>3 DEF TabPressed
  <2> QED  BY <2>1, <1>3, CompletionKeeps
<1> QED  BY <1>1, <1>2, <1>3

LEMMA EditStep == EditInv /\ [EditNext]_editVars => EditInv'
<1> SUFFICES ASSUME EditInv, [EditNext]_editVars PROVE EditInv'
  OBVIOUS
<1>1. ASSUME NEW c \in Typed \cup {"sp"}, TypeKey(c) PROVE EditInv'  BY <1>1, TypeKeyKeeps
<1>2. CASE ReturnPressed  BY <1>2, ReturnKeeps
<1>3. CASE BackspacePressed  BY <1>3, BackspaceKeeps
<1>4. CASE DeleteLinePressed  BY <1>4, DeleteLineKeeps
<1>5. CASE DeleteWordPressed  BY <1>5, DeleteWordKeeps
<1>6. CASE TabPressed  BY <1>6, TabKeeps
<1>7. ASSUME NEW n \in Speakers, ChannelText(n) PROVE EditInv'  BY <1>7, ChannelTextKeeps
<1>8. ASSUME NEW n \in Talkers, PrivateText(n) PROVE EditInv'  BY <1>8, PrivateTextKeeps
<1>9. CASE Notice  BY <1>9, NoticeKeeps
<1>10. CASE RegistersNick  BY <1>10, RegistersNickKeeps
<1>11. CASE UNCHANGED editVars
  <2>1. UNCHANGED <<input_buf, input_buf_len, nick_list, last_msg_nick, shown, nicksSeen, hidden>>
    BY <1>11 DEF editVars
  <2> QED  BY <2>1, LineIs DEF EditInv, EditTypeOK, NicksDistinct, ScreenShowsLine, OneWordOver, LineOf
<1> QED  BY <1>1, <1>2, <1>3, <1>4, <1>5, <1>6, <1>7, <1>8, <1>9, <1>10, <1>11 DEF EditNext, KeyNext

LEMMA EditInvariant == EditSpec => []EditInv
<1>1. EditInit => EditInv  BY EditInitial
<1>2. EditInv /\ [EditNext]_editVars => EditInv'  BY EditStep
<1> QED  BY <1>1, <1>2, PTL DEF EditSpec

-------------------------------------------------------------------------------
(***************************************************************************)
(* The results.                                                            *)
(***************************************************************************)

(* Whatever is typed, completed, deleted and printed, the line is at most  *)
(* a nick longer than its margin, and every byte written behind it is      *)
(* within the cells the model knows; no nick is in the list twice          *)
(* (handle_keystroke, nick_completion, add_to_nick_list).                  *)
THEOREM EditTypeCorrect == EditSpec => []EditTypeOK
<1>1. EditInv => EditTypeOK  BY DEF EditInv
<1> QED  BY <1>1, EditInvariant, PTL

(* What is on the screen is the line that Return will send, unless a       *)
(* message was printed over it: the backspaces of ctrl-W and of TAB, the   *)
(* bell at the margin and redraw_user_buffer keep the two together.        *)
THEOREM ScreenHolds == EditSpec => []ScreenShowsLine
<1>1. EditInv => ScreenShowsLine  BY DEF EditInv
<1> QED  BY <1>1, EditInvariant, PTL

(* TAB behind a word only adds to the line, and only a nick that has       *)
(* spoken (nick_completion).                                               *)
LEMMA CompletionExtendsHolds == EditSpec => CompletionExtends
<1>1. EditInv /\ [EditNext]_editVars =>
        [TabPressed /\ input_buf_len > 0 =>
           /\ Len(Line') >= Len(Line)
           /\ \A i \in 1..Len(Line) : Fold(Line'[i]) = Fold(Line[i])
           /\ Line' # Line => \E n \in nicksSeen : IsSuffix(n, Line')]_editVars
  BY TabKeeps DEF OnlyExtended
<1> QED  BY <1>1, EditInvariant, PTL DEF EditSpec, CompletionExtends

(* ctrl-W takes away something, and no more than one word with the spaces  *)
(* around it (del_last_word).                                              *)
LEMMA OneWordGone ==
  ASSUME EditInv, DeleteWordPressed
  PROVE  /\ input_buf_len' < input_buf_len
         /\ \A i, j, k \in (input_buf_len')..(input_buf_len - 1) :
              i < j /\ j < k /\ input_buf[i] # "sp" /\ input_buf[k] # "sp" => input_buf[j] # "sp"
<1> DEFINE n == WordEnd
           l == input_buf_len
<1>1. input_buf_len' = n  BY DeleteWordKeeps
<1>2. l > 0 /\ l \in Nat  BY InvIs DEF DeleteWordPressed
<1>3. n \in 0..l /\ n # l  BY <1>2, WordEndIs
<1>4. PICK m \in n..l : /\ \A j \in (m + 1)..l : input_buf[j] = "sp"
                        /\ \A j \in (n + 1)..m : input_buf[j] # "sp"
  BY <1>2, WordEndIs
<1> HIDE DEF n
<1>5. ASSUME NEW i \in n..(l - 1), NEW j \in n..(l - 1), NEW k \in n..(l - 1), i < j, j < k, input_buf[k] # "sp"
      PROVE  input_buf[j] # "sp"
  <2>1. k <= m
    <3>1. ~(k \in (m + 1)..l)  BY <1>4, <1>5
    <3> QED  BY <3>1, <1>2, <1>3
  <2>2. j \in (n + 1)..m  BY <2>1, <1>2, <1>3, <1>5
  <2> QED  BY <2>2, <1>4
<1>6. n < l  BY <1>2, <1>3
<1> QED  BY <1>1, <1>5, <1>6

LEMMA OneWordDeletedHolds == EditSpec => OneWordDeleted
<1>1. EditInv /\ [EditNext]_editVars =>
        [DeleteWordPressed =>
           /\ input_buf_len' < input_buf_len
           /\ \A i, j, k \in (input_buf_len')..(input_buf_len - 1) :
                i < j /\ j < k /\ input_buf[i] # "sp" /\ input_buf[k] # "sp" => input_buf[j] # "sp"]_editVars
  BY OneWordGone
<1> QED  BY <1>1, EditInvariant, PTL DEF EditSpec, OneWordDeleted

(* The two keys that change more of the line than its last character do no *)
(* more to it than they are for: what was typed survives a completion, and *)
(* ctrl-W stops at the word.                                               *)
THEOREM LineEditedHolds == EditSpec => LineEdited
BY CompletionExtendsHolds, OneWordDeletedHolds DEF LineEdited

-------------------------------------------------------------------------------
(* The specification that TLC runs is the session and the editor. *)
LEMMA SessionAndEditor == MCSpec => Spec /\ EditSpec
<1>1. MCInit => Init /\ EditInit  BY DEF MCInit
<1>2. [MCNext]_<<vars, editVars, part>> => [Next]_vars /\ [EditNext]_editVars  BY DEF MCNext
<1> QED  BY <1>1, <1>2, PTL DEF MCSpec, Spec, EditSpec

(* The types of what main() of fujichat.c keeps: the flags and queues of   *)
(* the session, and the line with the length that it may have.             *)
THEOREM SessionAndEditorTypesHold == MCSpec => []TypesOK
BY SessionAndEditor, SessionTypeCorrect, EditTypeCorrect, PTL DEF TypesOK
===============================================================================
