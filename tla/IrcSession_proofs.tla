---------------------------- MODULE IrcSession_proofs ----------------------------
(***************************************************************************)
(* Proofs about IrcSession: for all sets of channels, nicks and commands   *)
(* and any number of sessions, the client's flags agree with what the      *)
(* server was told, answers and the registration go out once, and the      *)
(* client asks of its connection what MessageChannel allows.               *)
(***************************************************************************)
EXTENDS IrcSession, TLAPS

(***************************************************************************)
(* Sequences of messages.                                                  *)
(***************************************************************************)
LEMMA Appended ==
  ASSUME NEW S, NEW s \in Seq(S), NEW m \in S
  PROVE  /\ Append(s, m) \in Seq(S) /\ Len(Append(s, m)) = Len(s) + 1 /\ Len(s) \in Nat
         /\ \A i \in 1..Len(s) : Append(s, m)[i] = s[i]
         /\ Append(s, m)[Len(s) + 1] = m
  OBVIOUS

LEMMA MessagePair ==
  ASSUME NEW m \in Message
  PROVE  /\ m = <<m[1], m[2]>>
         /\ m[1] = "PONG" => m[2] \in Nat
         /\ m[1] \in {"NICK", "REG"} => m[2] \in Nicks
         /\ m[1] = "JOIN" => m[2] \in Channels \cup {None}
  BY DEF Message

(* What a message adds to what was asked of the server. *)
LEMMA AskedByAppend ==
  ASSUME NEW s \in Seq(Message), NEW m \in Message
  PROVE  AskedBy(Append(s, m)) =
           IF m[1] = "JOIN" THEN AskedBy(s) \cup {m[2]}
           ELSE IF m[1] = "PART" THEN AskedBy(s) \ {m[2]}
           ELSE IF m[1] = "QUIT" THEN {} ELSE AskedBy(s)
<1> DEFINE t == Append(s, m)
           n == Len(s)
           Last(u, k) == \A j \in k + 1..Len(u) : u[j] # <<"PART", u[k][2]>> /\ u[j][1] # "QUIT"
           Open(u) == {k \in 1..Len(u) : u[k][1] = "JOIN" /\ Last(u, k)}
<1>1. /\ t \in Seq(Message) /\ Len(t) = n + 1 /\ n \in Nat
      /\ \A i \in 1..n : t[i] = s[i]
      /\ t[n + 1] = m
  BY Appended
<1>2. AskedBy(t) = {t[i][2] : i \in Open(t)} /\ AskedBy(s) = {s[i][2] : i \in Open(s)}
  BY DEF AskedBy
<1>3. m = <<m[1], m[2]>>  BY MessagePair
<1> HIDE DEF t, n
<1>4. \A k \in 1..n : Last(t, k) <=> Last(s, k) /\ m # <<"PART", s[k][2]>> /\ m[1] # "QUIT"
  <2> TAKE k \in 1..n
  <2>1. k + 1..Len(t) = (k + 1..n) \cup {n + 1}  BY <1>1
  <2>2. t[k] = s[k] /\ \A j \in k + 1..n : t[j] = s[j]  BY <1>1
  <2>3. Len(s) = n  BY DEF n
  <2> QED  BY <1>1, <2>1, <2>2, <2>3
<1>5. Last(t, n + 1)
  BY <1>1
<1>6. 1..Len(t) = (1..n) \cup {n + 1} /\ 1..Len(s) = 1..n
  BY <1>1 DEF n
<1>7. \A k : k \in Open(t) <=> \/ k \in Open(s) /\ m # <<"PART", s[k][2]>> /\ m[1] # "QUIT"
                               \/ k = n + 1 /\ m[1] = "JOIN"
  BY <1>1, <1>4, <1>5, <1>6
<1>8. \A k \in Open(s) : t[k] = s[k] /\ k # n + 1
  BY <1>1, <1>6
<1> HIDE DEF Open
<1>9. \A k \in Open(t) : t[k][2] = IF k = n + 1 THEN m[2] ELSE s[k][2]
  BY <1>1, <1>7, <1>8
<1>10. \A c : c \in AskedBy(t) <=> \/ c \in AskedBy(s) /\ m # <<"PART", c>> /\ m[1] # "QUIT"
                                   \/ c = m[2] /\ m[1] = "JOIN"
  <2> TAKE c
  <2>1. ASSUME c \in AskedBy(t) PROVE \/ c \in AskedBy(s) /\ m # <<"PART", c>> /\ m[1] # "QUIT"
                                      \/ c = m[2] /\ m[1] = "JOIN"
    <3>1. PICK k \in Open(t) : c = t[k][2]  BY <1>2, <2>1
    <3> QED  BY <1>2, <1>7, <1>8, <1>9, <3>1
  <2>2. ASSUME c \in AskedBy(s), m # <<"PART", c>>, m[1] # "QUIT" PROVE c \in AskedBy(t)
    <3>1. PICK k \in Open(s) : c = s[k][2]  BY <1>2, <2>2
    <3>2. k \in Open(t) /\ t[k] = s[k]  BY <1>7, <1>8, <2>2, <3>1
    <3> QED  BY <1>2, <3>1, <3>2
  <2>3. ASSUME c = m[2], m[1] = "JOIN" PROVE c \in AskedBy(t)
    <3>1. n + 1 \in Open(t)  BY <1>7, <2>3
    <3> QED  BY <1>1, <1>2, <2>3, <3>1
  <2> QED  BY <2>1, <2>2, <2>3
<1>11. \A c : m = <<"PART", c>> <=> m[1] = "PART" /\ m[2] = c
  BY <1>3
<1> HIDE DEF t
<1>12. CASE m[1] = "JOIN"
  <2>1. AskedBy(t) = AskedBy(s) \cup {m[2]}  BY <1>10, <1>11, <1>12
  <2> QED  BY <1>12, <2>1 DEF t
<1>13. CASE m[1] = "PART"
  <2>1. AskedBy(t) = AskedBy(s) \ {m[2]}  BY <1>10, <1>11, <1>13
  <2> QED  BY <1>13, <2>1 DEF t
<1>14. CASE m[1] = "QUIT"
  <2>1. AskedBy(t) = {}  BY <1>10, <1>14
  <2> QED  BY <1>14, <2>1 DEF t
<1>15. CASE m[1] \notin {"JOIN", "PART", "QUIT"}
  <2>1. AskedBy(t) = AskedBy(s)  BY <1>10, <1>11, <1>15
  <2> QED  BY <1>15, <2>1 DEF t
<1> QED  BY <1>12, <1>13, <1>14, <1>15

(* The last of some kinds of messages, when another one comes. *)
LEMMA LastAppend ==
  ASSUME NEW s \in Seq(Message), NEW m \in Message, NEW K
  PROVE  /\ \A i \in 1..Len(s) : LastOf(Append(s, m), K, i) <=> LastOf(s, K, i) /\ m[1] \notin K
         /\ LastOf(Append(s, m), K, Len(s) + 1) <=> m[1] \in K
<1> DEFINE t == Append(s, m)
           n == Len(s)
<1>1. /\ Len(t) = n + 1 /\ n \in Nat /\ t[n + 1] = m
      /\ \A i \in 1..n : t[i] = s[i]
  BY Appended
<1>2. Len(s) = n  OBVIOUS
<1> HIDE DEF t, n
<1>3. ASSUME NEW i \in 1..n PROVE LastOf(t, K, i) <=> LastOf(s, K, i) /\ m[1] \notin K
  <2>1. i + 1..Len(t) = (i + 1..n) \cup {n + 1}  BY <1>1
  <2>2. t[i] = s[i] /\ \A j \in i + 1..n : t[j] = s[j]  BY <1>1
  <2> QED  BY <1>1, <1>2, <2>1, <2>2 DEF LastOf
<1>4. LastOf(t, K, n + 1) <=> m[1] \in K
  BY <1>1 DEF LastOf
<1> QED  BY <1>2, <1>3, <1>4 DEF t

LEMMA NickInAppend ==
  ASSUME NEW s \in Seq(Message), NEW m \in Message
  PROVE  NickIn(Append(s, m)) = IF m[1] \in {"NICK", "REG"} THEN {m[2]} ELSE NickIn(s)
<1> DEFINE t == Append(s, m)
           n == Len(s)
           K == {"NICK", "REG"}
           L(u) == {k \in 1..Len(u) : LastOf(u, K, k)}
<1>1. /\ Len(t) = n + 1 /\ n \in Nat /\ t[n + 1] = m
      /\ \A i \in 1..n : t[i] = s[i]
  BY Appended
<1>2. NickIn(t) = {t[i][2] : i \in L(t)} /\ NickIn(s) = {s[i][2] : i \in L(s)}
  BY DEF NickIn
<1>3. /\ \A i \in 1..n : LastOf(t, K, i) <=> LastOf(s, K, i) /\ m[1] \notin K
      /\ LastOf(t, K, n + 1) <=> m[1] \in K
  <2> HIDE DEF K
  <2> QED  BY LastAppend
<1>4. 1..Len(t) = (1..n) \cup {n + 1} /\ 1..Len(s) = 1..n
  BY <1>1
<1> HIDE DEF t, n, K
<1>5. CASE m[1] \in K
  <2>1. L(t) = {n + 1}  BY <1>1, <1>3, <1>4, <1>5
  <2>2. NickIn(t) = {m[2]}  BY <1>1, <1>2, <2>1
  <2> QED  BY <1>5, <2>2 DEF t, K
<1>6. CASE m[1] \notin K
  <2>1. L(t) = L(s)  BY <1>1, <1>3, <1>4, <1>6
  <2>2. \A i \in L(s) : t[i] = s[i]  BY <1>1, <1>4
  <2>3. NickIn(t) = NickIn(s)  BY <1>2, <2>1, <2>2
  <2> QED  BY <1>6, <2>3 DEF t, K
<1> QED  BY <1>5, <1>6

LEMMA SaysAwayAppend ==
  ASSUME NEW s \in Seq(Message), NEW m \in Message
  PROVE  SaysAway(Append(s, m)) <=> IF m[1] \in {"AWAY", "BACK"} THEN m[1] = "AWAY" ELSE SaysAway(s)
<1> DEFINE t == Append(s, m)
           n == Len(s)
           K == {"AWAY", "BACK"}
<1>1. /\ Len(t) = n + 1 /\ n \in Nat /\ t[n + 1] = m
      /\ \A i \in 1..n : t[i] = s[i]
  BY Appended
<1>2. /\ SaysAway(t) <=> \E i \in 1..Len(t) : t[i][1] = "AWAY" /\ LastOf(t, K, i)
      /\ SaysAway(s) <=> \E i \in 1..Len(s) : s[i][1] = "AWAY" /\ LastOf(s, K, i)
  BY DEF SaysAway
<1>3. /\ \A i \in 1..n : LastOf(t, K, i) <=> LastOf(s, K, i) /\ m[1] \notin K
      /\ LastOf(t, K, n + 1) <=> m[1] \in K
  <2> HIDE DEF K
  <2> QED  BY LastAppend
<1>4. 1..Len(t) = (1..n) \cup {n + 1} /\ 1..Len(s) = 1..n
  BY <1>1
<1> HIDE DEF t, n
<1>5. CASE m[1] \in K
  <2>1. SaysAway(t) <=> m[1] = "AWAY"  BY <1>1, <1>2, <1>3, <1>4, <1>5
  <2> QED  BY <1>5, <2>1 DEF t
<1>6. CASE m[1] \notin K
  <2>1. SaysAway(t) <=> SaysAway(s)  BY <1>1, <1>2, <1>3, <1>4, <1>6
  <2> QED  BY <1>6, <2>1 DEF t
<1> QED  BY <1>5, <1>6

LEMMA RegistrationsAppend ==
  ASSUME NEW s \in Seq(Message), NEW m \in Message
  PROVE  /\ m[1] # "REG" => Registrations(Append(s, m)) = Registrations(s)
         /\ m[1] = "REG" => Registrations(Append(s, m)) = Registrations(s) \cup {Len(s) + 1}
<1>1. /\ Len(Append(s, m)) = Len(s) + 1 /\ Len(s) \in Nat /\ Append(s, m)[Len(s) + 1] = m
      /\ \A i \in 1..Len(s) : Append(s, m)[i] = s[i]
  BY Appended
<1>2. 1..Len(Append(s, m)) = (1..Len(s)) \cup {Len(s) + 1}
  BY <1>1
<1> QED  BY <1>1, <1>2 DEF Registrations

LEMMA NothingSaid ==
  AskedBy(<<>>) = {} /\ ~SaysAway(<<>>) /\ NickIn(<<>>) = {} /\ Registrations(<<>>) = {}
  BY DEF AskedBy, SaysAway, NickIn, Registrations

-------------------------------------------------------------------------------
(***************************************************************************)
(* What a function that may send something does to the record cl.          *)
(***************************************************************************)
(* From c to d, one message of M at most was given to telnet_send; without *)
(* harm, it was taken.                                                     *)
Talks(c, d, M) ==
  /\ d \in Client /\ c.harm \subseteq d.harm
  /\ \/ d.text = c.text /\ d.arrived = c.arrived
     \/ c.text = None /\ d.text \in M /\ ~d.arrived
  /\ d.harm = {} =>
       \/ d = c
       \/ /\ c.text = None /\ link = "open"
          /\ d.text \in M /\ ~d.arrived /\ ~d.mangled /\ d.sent = Append(c.sent, d.text)

(* The client's flags are what it has told the server. *)
Agrees(c, isAway, registered) ==
  /\ AskedBy(c.sent) = IF c.joined_channel THEN {c.channel} ELSE {}
  /\ SaysAway(c.sent) <=> isAway
  /\ NickIn(c.sent) \subseteq {c.nick}
  /\ registered <=> Registrations(c.sent) # {}
  /\ \A i, j \in Registrations(c.sent) : i = j

LEMMA SendFields ==
  ASSUME NEW c \in Client, NEW cmd, NEW arg, <<cmd, arg>> \in Message, tstate \in BOOLEAN,
         NEW d, d = telnet_send(c, cmd, arg)
  PROVE  /\ d \in Client
         /\ d.joined_channel = c.joined_channel /\ d.channel = c.channel /\ d.nick = c.nick
         /\ \/ d.text = c.text /\ d.arrived = c.arrived
            \/ c.text = None /\ d.text = <<cmd, arg>> /\ ~d.arrived
         /\ c.harm \subseteq d.harm
         /\ d.harm = {} => /\ c.text = None /\ link = "open"
                           /\ d.text = <<cmd, arg>> /\ ~d.arrived /\ ~d.mangled
                           /\ d.sent = Append(c.sent, <<cmd, arg>>)
<1> DEFINE taken == tstate /\ c.text = None
           live  == link = "open"
           text    == IF taken THEN <<cmd, arg>> ELSE c.text
           arrived == IF taken THEN FALSE ELSE c.arrived
           mangled == ~taken /\ c.text # None /\ (c.mangled \/ ~c.arrived)
           sent    == IF taken /\ live THEN Append(c.sent, <<cmd, arg>>) ELSE c.sent
           calls   == c.calls + 1
           harm    == (c.harm \cup (IF c.text # None THEN {"refused"} ELSE {}))
                        \cup (IF taken /\ live THEN {} ELSE {"lost"})
<1>1. d = [c EXCEPT !.text = text, !.arrived = arrived, !.mangled = mangled, !.sent = sent,
                    !.calls = calls, !.harm = harm]
  BY DEF telnet_send
<1>2. /\ c.text \in Message \cup {None} /\ c.arrived \in BOOLEAN /\ c.mangled \in BOOLEAN
      /\ c.sent \in Seq(Message) /\ c.calls \in Nat
      /\ c.harm \subseteq {"refused", "lost", "autojoin", "stillAway", "nickTaken"}
  BY DEF Client
<1>3. text \in Message \cup {None}  BY <1>2
<1>4. arrived \in BOOLEAN /\ mangled \in BOOLEAN  BY <1>2
<1>5. sent \in Seq(Message)  BY <1>2
<1>6. calls \in Nat  BY <1>2
<1>7. harm \in SUBSET {"refused", "lost", "autojoin", "stillAway", "nickTaken"}  BY <1>2
<1>8. c.harm \subseteq harm /\ (harm = {} => taken /\ live)
  OBVIOUS
<1>9. text = (IF taken THEN <<cmd, arg>> ELSE c.text) /\ arrived = (IF taken THEN FALSE ELSE c.arrived)
      /\ (taken => ~mangled) /\ (taken /\ live => sent = Append(c.sent, <<cmd, arg>>))
  OBVIOUS
<1> HIDE DEF text, arrived, mangled, sent, calls, harm
<1>10. d \in Client
  BY <1>1, <1>3, <1>4, <1>5, <1>6, <1>7, Zenon DEF Client
<1>11. /\ d.text = text /\ d.arrived = arrived /\ d.mangled = mangled /\ d.sent = sent
       /\ d.harm = harm
       /\ d.joined_channel = c.joined_channel /\ d.channel = c.channel /\ d.nick = c.nick
  BY <1>1 DEF Client
<1> QED  BY <1>8, <1>9, <1>10, <1>11

(* What the messages taken say after a message cmd, arg. *)
Tells(c, d, cmd, arg) ==
  /\ AskedBy(d.sent) = IF cmd = "JOIN" THEN AskedBy(c.sent) \cup {arg}
                       ELSE IF cmd = "PART" THEN AskedBy(c.sent) \ {arg}
                       ELSE IF cmd = "QUIT" THEN {} ELSE AskedBy(c.sent)
  /\ SaysAway(d.sent) <=> IF cmd \in {"AWAY", "BACK"} THEN cmd = "AWAY" ELSE SaysAway(c.sent)
  /\ NickIn(d.sent) = IF cmd \in {"NICK", "REG"} THEN {arg} ELSE NickIn(c.sent)
  /\ cmd # "REG" => Registrations(d.sent) = Registrations(c.sent)
  /\ cmd = "REG" => Registrations(d.sent) = Registrations(c.sent) \cup {Len(c.sent) + 1}

(* A message goes out after the flags were set: from c over e to d. *)
LEMMA Said ==
  ASSUME NEW c \in Client, NEW e \in Client, NEW cmd, NEW arg, <<cmd, arg>> \in Message,
         tstate \in BOOLEAN,
         e.text = c.text, e.arrived = c.arrived, e.sent = c.sent, c.harm \subseteq e.harm,
         NEW d, d = telnet_send(e, cmd, arg)
  PROVE  /\ Talks(c, d, {<<cmd, arg>>})
         /\ d.joined_channel = e.joined_channel /\ d.channel = e.channel /\ d.nick = e.nick
         /\ d.harm = {} => link = "open" /\ e.harm = {} /\ Tells(c, d, cmd, arg)
<1> DEFINE m == <<cmd, arg>>
<1>1. /\ d \in Client
      /\ d.joined_channel = e.joined_channel /\ d.channel = e.channel /\ d.nick = e.nick
      /\ \/ d.text = e.text /\ d.arrived = e.arrived
         \/ e.text = None /\ d.text = m /\ ~d.arrived
      /\ e.harm \subseteq d.harm
      /\ d.harm = {} => /\ e.text = None /\ link = "open"
                        /\ d.text = m /\ ~d.arrived /\ ~d.mangled
                        /\ d.sent = Append(e.sent, m)
  BY SendFields
<1>2. Talks(c, d, {m})
  BY <1>1 DEF Talks
<1>3. c.sent \in Seq(Message) /\ m \in Message /\ m[1] = cmd /\ m[2] = arg
  BY DEF Client
<1>4. ASSUME d.harm = {} PROVE link = "open" /\ e.harm = {} /\ Tells(c, d, cmd, arg)
  <2>1. d.sent = Append(c.sent, m) /\ e.harm = {} /\ link = "open"  BY <1>1, <1>4
  <2> HIDE DEF m
  <2>2. AskedBy(d.sent) = IF cmd = "JOIN" THEN AskedBy(c.sent) \cup {arg}
                          ELSE IF cmd = "PART" THEN AskedBy(c.sent) \ {arg}
                          ELSE IF cmd = "QUIT" THEN {} ELSE AskedBy(c.sent)
    BY <1>3, <2>1, AskedByAppend
  <2>3. SaysAway(d.sent) <=> IF cmd \in {"AWAY", "BACK"} THEN cmd = "AWAY" ELSE SaysAway(c.sent)
    BY <1>3, <2>1, SaysAwayAppend
  <2>4. NickIn(d.sent) = IF cmd \in {"NICK", "REG"} THEN {arg} ELSE NickIn(c.sent)
    BY <1>3, <2>1, NickInAppend
  <2>5. /\ cmd # "REG" => Registrations(d.sent) = Registrations(c.sent)
        /\ cmd = "REG" => Registrations(d.sent) = Registrations(c.sent) \cup {Len(c.sent) + 1}
    BY <1>3, <2>1, RegistrationsAppend
  <2> QED  BY <2>1, <2>2, <2>3, <2>4, <2>5 DEF Tells
<1> QED  BY <1>1, <1>2, <1>4

(* A function that sends at most one message of M, and keeps up what the   *)
(* flags say.                                                              *)
KeepsWord(c, d, M) ==
  /\ Talks(c, d, M)
  /\ \A isAway, registered \in BOOLEAN :
       d.harm = {} /\ Agrees(c, isAway, registered) => Agrees(d, isAway, registered)

(* One whose message, if any, is not a PONG. *)
Quiet(c, d) ==
  \E M \in SUBSET Message : (\A m \in M : m[1] # "PONG") /\ KeepsWord(c, d, M)

LEMMA QuietIfOne ==
  ASSUME NEW c, NEW d, NEW m \in Message, m[1] # "PONG", KeepsWord(c, d, {m})
  PROVE  Quiet(c, d)
<1>1. {m} \in SUBSET Message /\ \A n \in {m} : n[1] # "PONG"
  OBVIOUS
<1> QED  BY <1>1 DEF Quiet

LEMMA Silent == ASSUME NEW c \in Client PROVE KeepsWord(c, c, {}) /\ Quiet(c, c)
<1>1. KeepsWord(c, c, {})
  BY DEF KeepsWord, Talks
<1>2. {} \in SUBSET Message /\ \A n \in {} : n[1] # "PONG"
  OBVIOUS
<1> QED  BY <1>1, <1>2 DEF Quiet

(* One that sends what is neither about the channel, nor about being away, *)
(* nor about the nick.                                                     *)
LEMMA OnlySent ==
  ASSUME NEW c \in Client, NEW cmd, NEW arg, <<cmd, arg>> \in Message, tstate \in BOOLEAN,
         cmd \notin {"JOIN", "PART", "QUIT", "AWAY", "BACK", "NICK", "REG"}
  PROVE  /\ KeepsWord(c, telnet_send(c, cmd, arg), {<<cmd, arg>>})
         /\ cmd # "PONG" => Quiet(c, telnet_send(c, cmd, arg))
<1>1. PICK d : d = telnet_send(c, cmd, arg)
  OBVIOUS
<1>2. /\ Talks(c, d, {<<cmd, arg>>})
      /\ d.joined_channel = c.joined_channel /\ d.channel = c.channel /\ d.nick = c.nick
      /\ d.harm = {} => Tells(c, d, cmd, arg)
  BY <1>1, Said
<1>3. ASSUME d.harm = {}
      PROVE  /\ AskedBy(d.sent) = AskedBy(c.sent) /\ (SaysAway(d.sent) <=> SaysAway(c.sent))
             /\ NickIn(d.sent) = NickIn(c.sent) /\ Registrations(d.sent) = Registrations(c.sent)
  BY <1>2, <1>3 DEF Tells
<1>4. KeepsWord(c, d, {<<cmd, arg>>})
  BY <1>2, <1>3 DEF KeepsWord, Agrees
<1>5. cmd # "PONG" => Quiet(c, d)
  BY <1>4, QuietIfOne
<1> QED  BY <1>1, <1>4, <1>5

-------------------------------------------------------------------------------
(***************************************************************************)
(* The commands of the user and the lines of the server.                   *)
(***************************************************************************)
LEMMA JoinKeepsWord ==
  ASSUME NEW c \in Client, tstate \in BOOLEAN, NEW arg \in Channels \cup {None}
  PROVE  Quiet(c, cmd_join(c, arg))
<1> DEFINE e == [c EXCEPT !.joined_channel = TRUE, !.channel = arg]
<1>1. CASE c.joined_channel /\ arg = None
  <2>1. cmd_join(c, arg) = telnet_send(c, "JOIN", c.channel)  BY <1>1 DEF cmd_join
  <2>2. <<"JOIN", c.channel>> \in Message  BY DEF Client, Message
  <2>3. PICK d : d = telnet_send(c, "JOIN", c.channel)  OBVIOUS
  <2>4. /\ Talks(c, d, {<<"JOIN", c.channel>>})
        /\ d.joined_channel = c.joined_channel /\ d.channel = c.channel /\ d.nick = c.nick
        /\ d.harm = {} => Tells(c, d, "JOIN", c.channel)
    BY <2>2, <2>3, Said
  <2>5. ASSUME d.harm = {} PROVE AskedBy(d.sent) = AskedBy(c.sent) \cup {c.channel}
    BY <2>4, <2>5 DEF Tells
  <2>6. ASSUME d.harm = {}
        PROVE  /\ SaysAway(d.sent) <=> SaysAway(c.sent)
               /\ NickIn(d.sent) = NickIn(c.sent) /\ Registrations(d.sent) = Registrations(c.sent)
    BY <2>4, <2>6 DEF Tells
  <2>7. KeepsWord(c, d, {<<"JOIN", c.channel>>})
    BY <1>1, <2>4, <2>5, <2>6 DEF KeepsWord, Agrees
  <2> QED  BY <2>1, <2>2, <2>3, <2>7, QuietIfOne
<1>2. CASE ~c.joined_channel /\ arg # None
  <2>1. cmd_join(c, arg) = telnet_send(e, "JOIN", arg)  BY <1>2 DEF cmd_join
  <2>2. <<"JOIN", arg>> \in Message  BY DEF Message
  <2>3. e \in Client  BY Zenon DEF Client
  <2>4. /\ e.joined_channel = TRUE /\ e.channel = arg /\ e.nick = c.nick
        /\ e.text = c.text /\ e.arrived = c.arrived /\ e.sent = c.sent /\ e.harm = c.harm
    BY DEF Client
  <2> HIDE DEF e
  <2>5. PICK d : d = telnet_send(e, "JOIN", arg)  OBVIOUS
  <2>6. /\ Talks(c, d, {<<"JOIN", arg>>})
        /\ d.joined_channel = TRUE /\ d.channel = arg /\ d.nick = c.nick
        /\ d.harm = {} => Tells(c, d, "JOIN", arg)
    BY <2>2, <2>3, <2>4, <2>5, Said
  <2>7. ASSUME d.harm = {} PROVE AskedBy(d.sent) = AskedBy(c.sent) \cup {arg}
    BY <2>6, <2>7 DEF Tells
  <2>8. ASSUME d.harm = {}
        PROVE  /\ SaysAway(d.sent) <=> SaysAway(c.sent)
               /\ NickIn(d.sent) = NickIn(c.sent) /\ Registrations(d.sent) = Registrations(c.sent)
    BY <2>6, <2>8 DEF Tells
  <2>9. KeepsWord(c, d, {<<"JOIN", arg>>})
    BY <1>2, <2>6, <2>7, <2>8 DEF KeepsWord, Agrees
  <2> QED  BY <2>1, <2>2, <2>5, <2>9, QuietIfOne
<1>3. CASE ~(c.joined_channel /\ arg = None) /\ ~(~c.joined_channel /\ arg # None)
  <2>1. cmd_join(c, arg) = c  BY <1>3 DEF cmd_join
  <2> QED  BY <2>1, Silent
<1> QED  BY <1>1, <1>2, <1>3

(* PART and QUIT. *)
LEMMA LeavingKeepsWord ==
  ASSUME NEW c \in Client, tstate \in BOOLEAN, NEW cmd \in {"PART", "QUIT"}, NEW arg,
         arg = IF cmd = "PART" THEN c.channel ELSE None
  PROVE  /\ <<cmd, arg>> \in Message
         /\ Quiet(c, telnet_send([c EXCEPT !.joined_channel = FALSE], cmd, arg))
<1> DEFINE e == [c EXCEPT !.joined_channel = FALSE]
<1>1. <<cmd, arg>> \in Message  BY DEF Message, Client
<1>2. e \in Client  BY Zenon DEF Client
<1>3. /\ e.joined_channel = FALSE /\ e.channel = c.channel /\ e.nick = c.nick
      /\ e.text = c.text /\ e.arrived = c.arrived /\ e.sent = c.sent /\ e.harm = c.harm
  BY DEF Client
<1> HIDE DEF e
<1>4. PICK d : d = telnet_send(e, cmd, arg)  OBVIOUS
<1>5. /\ Talks(c, d, {<<cmd, arg>>})
      /\ d.joined_channel = FALSE /\ d.channel = c.channel /\ d.nick = c.nick
      /\ d.harm = {} => Tells(c, d, cmd, arg)
  BY <1>1, <1>2, <1>3, <1>4, Said
<1>6. ASSUME d.harm = {}
      PROVE  AskedBy(d.sent) = IF cmd = "PART" THEN AskedBy(c.sent) \ {c.channel} ELSE {}
  BY <1>5, <1>6 DEF Tells
<1>7. ASSUME d.harm = {}
      PROVE  /\ SaysAway(d.sent) <=> SaysAway(c.sent)
             /\ NickIn(d.sent) = NickIn(c.sent) /\ Registrations(d.sent) = Registrations(c.sent)
  BY <1>5, <1>7 DEF Tells
<1>8. KeepsWord(c, d, {<<cmd, arg>>})
  <2>1. ASSUME d.harm = {}, AskedBy(c.sent) = IF c.joined_channel THEN {c.channel} ELSE {}
        PROVE  AskedBy(d.sent) = {}
    BY <1>6, <2>1
  <2> QED  BY <1>5, <1>7, <2>1 DEF KeepsWord, Agrees
<1>9. Quiet(c, d)
  BY <1>1, <1>8, QuietIfOne
<1> QED  BY <1>1, <1>4, <1>9 DEF e

LEMMA NickKeepsWord ==
  ASSUME NEW c \in Client, tstate \in BOOLEAN, NEW arg \in Nicks
  PROVE  Quiet(c, cmd_nick(c, arg))
<1> DEFINE e == [c EXCEPT !.nick = arg]
<1>1. <<"NICK", arg>> \in Message  BY DEF Message
<1>2. e \in Client  BY Zenon DEF Client
<1>3. /\ e.joined_channel = c.joined_channel /\ e.channel = c.channel /\ e.nick = arg
      /\ e.text = c.text /\ e.arrived = c.arrived /\ e.sent = c.sent /\ e.harm = c.harm
  BY DEF Client
<1>4. cmd_nick(c, arg) = telnet_send(e, "NICK", arg)  BY DEF cmd_nick
<1> HIDE DEF e
<1>5. PICK d : d = telnet_send(e, "NICK", arg)  OBVIOUS
<1>6. /\ Talks(c, d, {<<"NICK", arg>>})
      /\ d.joined_channel = c.joined_channel /\ d.channel = c.channel /\ d.nick = arg
      /\ d.harm = {} => Tells(c, d, "NICK", arg)
  BY <1>1, <1>2, <1>3, <1>5, Said
<1>7. ASSUME d.harm = {}
      PROVE  AskedBy(d.sent) = AskedBy(c.sent) /\ NickIn(d.sent) = {arg}
  BY <1>6, <1>7 DEF Tells
<1>8. ASSUME d.harm = {}
      PROVE  (SaysAway(d.sent) <=> SaysAway(c.sent)) /\ Registrations(d.sent) = Registrations(c.sent)
  BY <1>6, <1>8 DEF Tells
<1>9. KeepsWord(c, d, {<<"NICK", arg>>})
  BY <1>6, <1>7, <1>8 DEF KeepsWord, Agrees
<1>10. Quiet(c, d)
  BY <1>1, <1>9, QuietIfOne
<1> QED  BY <1>4, <1>5, <1>10

(* Whatever the user enters. *)
LEMMA CommandKeepsWord ==
  ASSUME NEW line \in Commands, tstate \in BOOLEAN, cl \in Client
  PROVE  Quiet(cl, handle_command(cl, line[1], line[2]))
<1> DEFINE cmd == line[1]
           arg == line[2]
<1>1. \/ cmd \in {"JOIN", "PART", "QUIT", "ME", "TEXT", "OTHER"} /\ arg \in Channels \cup {None}
      \/ cmd = "NICK" /\ arg \in Nicks
  BY SessionAssumption
<1> HIDE DEF cmd, arg
<1>2. cl.channel \in Channels \cup {None}  BY DEF Client
<1>3. CASE cmd = "JOIN"
  <2>1. handle_command(cl, cmd, arg) = cmd_join(cl, arg)  BY <1>3 DEF handle_command
  <2>2. arg \in Channels \cup {None}  BY <1>1, <1>3
  <2> QED  BY <2>1, <2>2, JoinKeepsWord DEF cmd, arg
<1>4. CASE cmd = "PART"
  <2>1. handle_command(cl, cmd, arg) = telnet_send([cl EXCEPT !.joined_channel = FALSE], "PART", cl.channel)
    BY <1>4 DEF handle_command, cmd_part
  <2>2. /\ <<"PART", cl.channel>> \in Message
        /\ Quiet(cl, telnet_send([cl EXCEPT !.joined_channel = FALSE], "PART", cl.channel))
    BY LeavingKeepsWord
  <2> QED  BY <2>1, <2>2 DEF cmd, arg
<1>5. CASE cmd = "QUIT"
  <2>1. handle_command(cl, cmd, arg) = telnet_send([cl EXCEPT !.joined_channel = FALSE], "QUIT", None)
    BY <1>5 DEF handle_command, cmd_quit
  <2>2. /\ <<"QUIT", None>> \in Message
        /\ Quiet(cl, telnet_send([cl EXCEPT !.joined_channel = FALSE], "QUIT", None))
    BY LeavingKeepsWord
  <2> QED  BY <2>1, <2>2 DEF cmd, arg
<1>6. CASE cmd = "ME"
  <2>1. handle_command(cl, cmd, arg) = telnet_send(cl, "ACTION", cl.channel)
    BY <1>6 DEF handle_command, do_me
  <2>2. <<"ACTION", cl.channel>> \in Message  BY <1>2 DEF Message
  <2>3. Quiet(cl, telnet_send(cl, "ACTION", cl.channel))  BY <2>2, OnlySent
  <2> QED  BY <2>1, <2>3 DEF cmd, arg
<1>7. CASE cmd = "TEXT"
  <2>1. handle_command(cl, cmd, arg) =
          IF cl.joined_channel THEN telnet_send(cl, "PRIVMSG", cl.channel) ELSE cl
    BY <1>7 DEF handle_command, say
  <2>2. <<"PRIVMSG", cl.channel>> \in Message  BY <1>2 DEF Message
  <2>3. Quiet(cl, telnet_send(cl, "PRIVMSG", cl.channel))  BY <2>2, OnlySent
  <2> QED  BY <2>1, <2>3, Silent DEF cmd, arg
<1>8. CASE cmd = "NICK"
  <2>1. handle_command(cl, cmd, arg) = cmd_nick(cl, arg)  BY <1>8 DEF handle_command
  <2>2. arg \in Nicks  BY <1>1, <1>8
  <2> QED  BY <2>1, <2>2, NickKeepsWord DEF cmd, arg
<1>9. CASE cmd = "OTHER"
  <2>1. handle_command(cl, cmd, arg) = telnet_send(cl, "OTHER", None)  BY <1>9 DEF handle_command
  <2>2. <<"OTHER", None>> \in Message  BY DEF Message
  <2>3. Quiet(cl, telnet_send(cl, "OTHER", None))  BY <2>2, OnlySent
  <2> QED  BY <2>1, <2>3 DEF cmd, arg
<1> QED  BY <1>1, <1>3, <1>4, <1>5, <1>6, <1>7, <1>8, <1>9

(* The end of the MOTD. *)
LEMMA MotdKeepsWord ==
  ASSUME NEW c \in Client, tstate \in BOOLEAN
  PROVE  Quiet(c, do_server_msg(c))
<1> DEFINE e == [c EXCEPT
                  !.harm = @ \cup (IF c.joined_channel /\ c.channel # AutoChannel THEN {"autojoin"} ELSE {}),
                  !.channel = AutoChannel, !.joined_channel = TRUE]
<1>1. CASE AutoChannel = None
  <2>1. do_server_msg(c) = c  BY <1>1 DEF do_server_msg
  <2> QED  BY <2>1, Silent
<1>2. CASE AutoChannel # None
  <2>1. do_server_msg(c) = telnet_send(e, "JOIN", AutoChannel)  BY <1>2 DEF do_server_msg
  <2>2. <<"JOIN", AutoChannel>> \in Message /\ AutoChannel \in Channels \cup {None}
    BY SessionAssumption DEF Message
  <2>3. e \in Client  BY <2>2, Zenon DEF Client
  <2>4. /\ e.joined_channel = TRUE /\ e.channel = AutoChannel /\ e.nick = c.nick
        /\ e.text = c.text /\ e.arrived = c.arrived /\ e.sent = c.sent /\ c.harm \subseteq e.harm
        /\ e.harm = {} => ~c.joined_channel \/ c.channel = AutoChannel
    BY DEF Client
  <2> HIDE DEF e
  <2>5. PICK d : d = telnet_send(e, "JOIN", AutoChannel)  OBVIOUS
  <2>6. /\ Talks(c, d, {<<"JOIN", AutoChannel>>})
        /\ d.joined_channel = TRUE /\ d.channel = AutoChannel /\ d.nick = c.nick
        /\ d.harm = {} => e.harm = {} /\ Tells(c, d, "JOIN", AutoChannel)
    BY <2>2, <2>3, <2>4, <2>5, Said
  <2>7. ASSUME d.harm = {} PROVE e.harm = {} /\ AskedBy(d.sent) = AskedBy(c.sent) \cup {AutoChannel}
    BY <2>6, <2>7 DEF Tells
  <2>8. ASSUME d.harm = {}
        PROVE  /\ SaysAway(d.sent) <=> SaysAway(c.sent)
               /\ NickIn(d.sent) = NickIn(c.sent) /\ Registrations(d.sent) = Registrations(c.sent)
    BY <2>6, <2>8 DEF Tells
  <2>9. KeepsWord(c, d, {<<"JOIN", AutoChannel>>})
    BY <2>4, <2>6, <2>7, <2>8 DEF KeepsWord, Agrees
  <2> QED  BY <2>1, <2>2, <2>5, <2>9, QuietIfOne
<1> QED  BY <1>1, <1>2

LEMMA PongKeepsWord ==
  ASSUME NEW c \in Client, tstate \in BOOLEAN, NEW k \in Nat
  PROVE  KeepsWord(c, do_pong(c, k), {<<"PONG", k>>})
<1> DEFINE e == [c EXCEPT !.pings = @ \cup {k}]
<1>1. <<"PONG", k>> \in Message  BY DEF Message
<1>2. e \in Client  BY Zenon DEF Client
<1>3. /\ e.joined_channel = c.joined_channel /\ e.channel = c.channel /\ e.nick = c.nick
      /\ e.text = c.text /\ e.arrived = c.arrived /\ e.sent = c.sent /\ e.harm = c.harm
  BY DEF Client
<1>4. do_pong(c, k) = telnet_send(e, "PONG", k)  BY DEF do_pong
<1> HIDE DEF e
<1>5. PICK d : d = telnet_send(e, "PONG", k)  OBVIOUS
<1>6. /\ Talks(c, d, {<<"PONG", k>>})
      /\ d.joined_channel = c.joined_channel /\ d.channel = c.channel /\ d.nick = c.nick
      /\ d.harm = {} => Tells(c, d, "PONG", k)
  BY <1>1, <1>2, <1>3, <1>5, Said
<1>7. ASSUME d.harm = {} PROVE AskedBy(d.sent) = AskedBy(c.sent)
  BY <1>6, <1>7 DEF Tells
<1>8. ASSUME d.harm = {}
      PROVE  /\ SaysAway(d.sent) <=> SaysAway(c.sent)
             /\ NickIn(d.sent) = NickIn(c.sent) /\ Registrations(d.sent) = Registrations(c.sent)
  BY <1>6, <1>8 DEF Tells
<1>9. KeepsWord(c, d, {<<"PONG", k>>})
  BY <1>6, <1>7, <1>8 DEF KeepsWord, Agrees
<1> QED  BY <1>4, <1>5, <1>9

ServerLines == ({"PING"} \X Nat) \cup ({"CTCP"} \X Nicks) \cup {<<"MOTDEND", None>>}

(* Whatever the server says; a PONG is sent for a PING only. *)
LEMMA LineKeepsWord ==
  ASSUME NEW c \in Client, tstate \in BOOLEAN, NEW line \in ServerLines
  PROVE  \/ Quiet(c, HandleLine(c, line))
         \/ /\ line[1] = "PING" /\ line[2] \in Nat
            /\ KeepsWord(c, HandleLine(c, line), {<<"PONG", line[2]>>})
<1>1. CASE line[1] = "PING"
  <2>1. HandleLine(c, line) = do_pong(c, line[2])  BY <1>1 DEF HandleLine
  <2>2. line[2] \in Nat  BY <1>1 DEF ServerLines
  <2>3. KeepsWord(c, do_pong(c, line[2]), {<<"PONG", line[2]>>})  BY <2>2, PongKeepsWord
  <2> QED  BY <1>1, <2>1, <2>2, <2>3
<1>2. CASE line[1] = "MOTDEND"
  <2>1. HandleLine(c, line) = do_server_msg(c)  BY <1>2 DEF HandleLine
  <2> QED  BY <2>1, MotdKeepsWord
<1>3. CASE line[1] = "CTCP"
  <2>1. HandleLine(c, line) = IF line[2] = c.nick THEN telnet_send(c, "NOTICE", None) ELSE c
    BY <1>3 DEF HandleLine, do_msg
  <2>2. <<"NOTICE", None>> \in Message  BY DEF Message
  <2>3. Quiet(c, telnet_send(c, "NOTICE", None))  BY <2>2, OnlySent
  <2> QED  BY <2>1, <2>3, Silent
<1> QED  BY <1>1, <1>2, <1>3 DEF ServerLines
-------------------------------------------------------------------------------
(***************************************************************************)
(* The inductive invariant.                                                *)
(***************************************************************************)
(* The flags and the link.  While no message can be sent, the flags may be *)
(* changed, but not without harm.                                          *)
Phases ==
  /\ phase = "prompt" => link = "closed" /\ ~connected /\ ~nick_registered /\ ~cl.joined_channel
  /\ done => link = "closed"
  /\ link = "open" => connected
  /\ link = "opening" => /\ ~connected /\ ~nick_registered /\ got = <<>>
                         /\ cl.harm = {} => cl.sent = <<>> /\ ~cl.joined_channel /\ ~away

(* The slot is all there is between the client and the server. *)
InSlot ==
  /\ cl.text = None \/ cl.arrived => got = cl.sent
  /\ cl.text # None /\ ~cl.arrived => cl.sent = Append(got, cl.text) /\ ~cl.mangled

InTouch == connected /\ cl.harm = {} => InSlot /\ Agrees(cl, away, nick_registered)

(* The PINGs on their way are behind those answered, and ahead of those to *)
(* come; a PONG on its way is in between.                                  *)
PingOrder ==
  /\ \A i \in 1..Len(lines) : lines[i][1] = "PING" =>
       /\ lines[i][2] <= said
       /\ \A j \in i + 1..Len(lines) : lines[j][1] = "PING" => lines[i][2] < lines[j][2]
  /\ \A i \in 1..Len(got), j \in 1..Len(lines) :
       got[i][1] = "PONG" /\ lines[j][1] = "PING" => got[i][2] < lines[j][2]
  /\ link = "open" /\ cl.text # None /\ ~cl.arrived /\ cl.text[1] = "PONG" =>
       /\ cl.text[2] <= said
       /\ \A i \in 1..Len(got) : got[i][1] = "PONG" => got[i][2] < cl.text[2]
       /\ \A j \in 1..Len(lines) : lines[j][1] = "PING" => cl.text[2] < lines[j][2]

SessionInv == TypeOK /\ Phases /\ InTouch /\ PingOrder /\ PongsAnswerPings

-------------------------------------------------------------------------------
(***************************************************************************)
(* What the actions do to the record cl.                                   *)
(***************************************************************************)
(* What the user makes the client say. *)
LEMMA KeysSpeak ==
  ASSUME TypeOK, MacroKey \/ \E line \in Commands : ReturnKey(line)
  PROVE  Quiet(cl, cl')
<1>1. cl \in Client /\ tstate \in BOOLEAN /\ cl.channel \in Channels \cup {None}
  BY DEF TypeOK, Client
<1>2. CASE MacroKey
  <2>1. cl' = IF cl.joined_channel THEN telnet_send(cl, "NAMES", cl.channel) ELSE cl
    BY <1>2 DEF MacroKey
  <2>2. <<"NAMES", cl.channel>> \in Message  BY <1>1 DEF Message
  <2>3. Quiet(cl, telnet_send(cl, "NAMES", cl.channel))  BY <1>1, <2>2, OnlySent
  <2> QED  BY <1>1, <2>1, <2>3, Silent
<1>3. CASE \E line \in Commands : ReturnKey(line)
  <2>1. PICK line \in Commands : ReturnKey(line)  BY <1>3
  <2>2. cl' = handle_command(cl, line[1], line[2])  BY <2>1 DEF ReturnKey
  <2> QED  BY <1>1, <2>1, <2>2, CommandKeepsWord
<1> QED  BY <1>2, <1>3

LEMMA ServerLinesTyped == TypeOK => lines \in Seq(ServerLines)
  BY Zenon DEF TypeOK, ServerLines

LEMMA LinesSpeak ==
  ASSUME TypeOK, NextLine
  PROVE  /\ lines # <<>> /\ Head(lines) \in ServerLines
         /\ \/ Quiet(cl, cl')
            \/ /\ Head(lines)[1] = "PING" /\ Head(lines)[2] \in Nat
               /\ KeepsWord(cl, cl', {<<"PONG", Head(lines)[2]>>})
<1>1. cl \in Client /\ tstate \in BOOLEAN
  BY DEF TypeOK
<1>2. lines # <<>> /\ Head(lines) \in ServerLines
  BY ServerLinesTyped DEF NextLine
<1>3. cl' = HandleLine(cl, Head(lines))
  BY DEF NextLine
<1> DEFINE line == Head(lines)
<1> HIDE DEF line
<1>4. line \in ServerLines /\ cl' = HandleLine(cl, line)
  BY <1>2, <1>3 DEF line
<1>5. \/ Quiet(cl, cl')
      \/ /\ line[1] = "PING" /\ line[2] \in Nat
         /\ KeepsWord(cl, cl', {<<"PONG", line[2]>>})
  BY <1>1, <1>4, LineKeepsWord
<1> QED  BY <1>2, <1>5, Zenon DEF line

(* Going away and coming back: the flag changes with the message. *)
LEMMA AwaySpeaks ==
  ASSUME TypeOK, AutoAway
  PROVE  \/ cl' = cl /\ away' = away
         \/ \E m \in Message :
              /\ m[1] # "PONG" /\ Talks(cl, cl', {m}) /\ away' \in BOOLEAN
              /\ cl'.joined_channel = cl.joined_channel /\ (cl'.harm = {} => link = "open")
              /\ cl'.harm = {} /\ Agrees(cl, away, nick_registered) => Agrees(cl', away', nick_registered)
<1>1. cl \in Client /\ tstate \in BOOLEAN
  BY DEF TypeOK
<1>2. ASSUME NEW cmd \in {"AWAY", "BACK"}, cl' = telnet_send(cl, cmd, None), away' = (cmd = "AWAY")
      PROVE  \E m \in Message :
              /\ m[1] # "PONG" /\ Talks(cl, cl', {m}) /\ away' \in BOOLEAN
              /\ cl'.joined_channel = cl.joined_channel /\ (cl'.harm = {} => link = "open")
              /\ cl'.harm = {} /\ Agrees(cl, away, nick_registered) => Agrees(cl', away', nick_registered)
  <2>1. <<cmd, None>> \in Message  BY DEF Message
  <2>2. /\ Talks(cl, cl', {<<cmd, None>>})
        /\ cl'.joined_channel = cl.joined_channel /\ cl'.channel = cl.channel /\ cl'.nick = cl.nick
        /\ cl'.harm = {} => link = "open" /\ Tells(cl, cl', cmd, None)
    BY <1>1, <1>2, <2>1, Said
  <2>3. ASSUME cl'.harm = {}
        PROVE  /\ AskedBy(cl'.sent) = AskedBy(cl.sent) /\ (SaysAway(cl'.sent) <=> away')
               /\ NickIn(cl'.sent) = NickIn(cl.sent) /\ Registrations(cl'.sent) = Registrations(cl.sent)
    BY <1>2, <2>2, <2>3 DEF Tells
  <2>4. cl'.harm = {} /\ Agrees(cl, away, nick_registered) => Agrees(cl', away', nick_registered)
    BY <2>2, <2>3 DEF Agrees
  <2>5. <<cmd, None>>[1] # "PONG" /\ away' \in BOOLEAN  BY <1>2
  <2> QED  BY <2>1, <2>2, <2>4, <2>5
<1>3. CASE away' = FALSE /\ cl' = telnet_send(cl, "BACK", None)
  BY <1>2, <1>3
<1>4. CASE away' = TRUE /\ cl' = telnet_send(cl, "AWAY", None)
  BY <1>2, <1>4
<1>5. \/ away' = FALSE /\ cl' = telnet_send(cl, "BACK", None)
      \/ away' = TRUE /\ cl' = telnet_send(cl, "AWAY", None)
      \/ cl' = cl /\ away' = away
  BY DEF AutoAway
<1> QED  BY <1>3, <1>4, <1>5

(* Registration: likewise for nick_registered. *)
LEMMA RegisterSpeaks ==
  ASSUME TypeOK, Register
  PROVE  \/ cl' = cl /\ nick_registered' = nick_registered
         \/ \E m \in Message :
              /\ m[1] # "PONG" /\ Talks(cl, cl', {m}) /\ connected /\ nick_registered' \in BOOLEAN
              /\ cl'.joined_channel = cl.joined_channel
              /\ cl'.harm = {} /\ Agrees(cl, away, nick_registered) => Agrees(cl', away, nick_registered')
<1>1. cl \in Client /\ tstate \in BOOLEAN /\ cl.nick \in Nicks
  BY DEF TypeOK, Client
<1>2. CASE /\ connected /\ ~nick_registered
           /\ cl' = telnet_send(cl, "REG", cl.nick) /\ nick_registered' = TRUE
  <2>1. <<"REG", cl.nick>> \in Message  BY <1>1 DEF Message
  <2>2. /\ Talks(cl, cl', {<<"REG", cl.nick>>})
        /\ cl'.joined_channel = cl.joined_channel /\ cl'.channel = cl.channel /\ cl'.nick = cl.nick
        /\ cl'.harm = {} => Tells(cl, cl', "REG", cl.nick)
    BY <1>1, <1>2, <2>1, Said
  <2>3. ASSUME cl'.harm = {}
        PROVE  /\ AskedBy(cl'.sent) = AskedBy(cl.sent) /\ (SaysAway(cl'.sent) <=> SaysAway(cl.sent))
               /\ NickIn(cl'.sent) = {cl.nick}
               /\ Registrations(cl'.sent) = Registrations(cl.sent) \cup {Len(cl.sent) + 1}
    BY <2>2, <2>3 DEF Tells
  <2>4. ASSUME cl'.harm = {}, Agrees(cl, away, nick_registered) PROVE Agrees(cl', away, nick_registered')
    <3>1. Registrations(cl.sent) = {}  BY <1>2, <2>4 DEF Agrees
    <3>2. Registrations(cl'.sent) = {Len(cl.sent) + 1}  BY <2>3, <2>4, <3>1
    <3> QED  BY <1>2, <2>2, <2>3, <2>4, <3>2 DEF Agrees
  <2>5. <<"REG", cl.nick>>[1] # "PONG" /\ nick_registered' \in BOOLEAN  BY <1>2
  <2> QED  BY <1>2, <2>1, <2>2, <2>4, <2>5
<1>3. \/ /\ connected /\ ~nick_registered
         /\ cl' = telnet_send(cl, "REG", cl.nick) /\ nick_registered' = TRUE
      \/ cl' = cl /\ nick_registered' = nick_registered
  BY DEF Register
<1> QED  BY <1>2, <1>3

-------------------------------------------------------------------------------
(***************************************************************************)
(* Types.                                                                  *)
(***************************************************************************)
LEMMA NickInTyped == ASSUME NEW s \in Seq(Message) PROVE NickIn(s) \subseteq Nicks
<1> SUFFICES ASSUME NEW i \in 1..Len(s), LastOf(s, {"NICK", "REG"}, i) PROVE s[i][2] \in Nicks
  BY DEF NickIn
<1> DEFINE m == s[i]
<1>1. m \in Message /\ m[1] \in {"NICK", "REG"}
  BY DEF LastOf
<1> HIDE DEF m
<1>2. m[2] \in Nicks  BY <1>1, MessagePair
<1> QED  BY <1>2 DEF m

LEMMA ClientTyped ==
  ASSUME TypeOK, Next
  PROVE  cl' \in Client
<1>0. cl \in Client /\ away \in BOOLEAN
  BY DEF TypeOK
<1>1. CASE StartSession
  <2>1. /\ <<>> \in Seq(Message) /\ 0 \in Nat /\ {} \in SUBSET Nat
        /\ (IF away THEN {"stillAway"} ELSE {}) \in SUBSET {"refused", "lost", "autojoin", "stillAway", "nickTaken"}
    BY <1>0
  <2> QED  BY <1>0, <1>1, <2>1, Zenon DEF StartSession, Client
<1>2. CASE telnet_connected
  <2>1. None \in Message \cup {None}  OBVIOUS
  <2> QED  BY <1>0, <1>2, <2>1, Zenon DEF telnet_connected, Client
<1>3. CASE Acked
  BY <1>0, <1>3, Zenon DEF Acked, Client
<1>4. CASE MacroKey \/ \E line \in Commands : ReturnKey(line)
  BY <1>0, <1>4, KeysSpeak DEF Quiet, KeepsWord, Talks
<1>5. CASE NextLine
  BY <1>0, <1>5, LinesSpeak DEF Quiet, KeepsWord, Talks
<1>6. CASE AutoAway
  BY <1>0, <1>6, AwaySpeaks DEF Talks
<1>7. CASE Register
  BY <1>0, <1>7, RegisterSpeaks DEF Talks
<1>8. CASE Check
  <2>1. CASE done  BY <1>0, <1>8, <2>1, Zenon DEF Check, Client
  <2> QED  BY <1>0, <1>8, <2>1 DEF Check
<1>9. CASE Arrive
  <2>1. CASE cl' = [cl EXCEPT !.arrived = TRUE]  BY <1>0, <2>1, Zenon DEF Client
  <2>2. CASE cl' = [cl EXCEPT !.arrived = TRUE, !.harm = @ \cup {"nickTaken"}]
    <3>1. cl.harm \cup {"nickTaken"} \in SUBSET {"refused", "lost", "autojoin", "stillAway", "nickTaken"}
      BY <1>0 DEF Client
    <3> QED  BY <1>0, <2>2, <3>1, Zenon DEF Client
  <2> QED  BY <1>0, <1>9, <2>1, <2>2 DEF Arrive
<1>10. CASE Idle \/ EndOfSegment \/ Closed \/ NoKey \/ EditKey \/ ServerLine \/ TimerExpires \/ AtractOn
  BY <1>0, <1>10 DEF Idle, EndOfSegment, Closed, NoKey, EditKey, ServerLine, TimerExpires, AtractOn, LoopUnchanged
<1> QED  BY <1>1, <1>2, <1>3, <1>4, <1>5, <1>6, <1>7, <1>8, <1>9, <1>10 DEF Next, Loop, Net, Key

LEMMA TypeKept == ASSUME TypeOK, [Next]_vars PROVE TypeOK'
<1>1. CASE UNCHANGED vars
  BY <1>1 DEF TypeOK, vars, flags, env, Client, Message
<1>2. CASE Next
  <2>1. cl' \in Client
    BY <1>2, ClientTyped
  <2>2. got' \in Seq(Message)
    <3>1. CASE Arrive
      <4>1. cl.text # None /\ cl.text \in Message \cup {None} /\ Garbled \in Message
        BY <3>1 DEF Arrive, TypeOK, Client, Garbled, Message
      <4>2. got' = got \/ \E m \in Message : got' = Append(got, m)
        BY <3>1, <4>1 DEF Arrive
      <4>3. got \in Seq(Message)  BY DEF TypeOK
      <4> QED  BY <4>2, <4>3, Appended
    <3>2. CASE ~Arrive
      <4>1. got' = got \/ got' = <<>>
        BY <1>2, <3>2 DEF Next, Loop, Net, Key, StartSession, Idle, telnet_connected, Acked, NextLine,
          EndOfSegment, SegmentUnchanged, Closed, NoKey, EditKey, MacroKey, ReturnKey, KeyUnchanged,
          AutoAway, Register, Check, ServerLine, TimerExpires, AtractOn, LoopUnchanged, env
      <4>2. got \in Seq(Message) /\ <<>> \in Seq(Message)  BY DEF TypeOK
      <4> QED  BY <4>1, <4>2
    <3> QED  BY <3>1, <3>2
  <2>3. lines' \in Seq(ServerLines)
    <3>1. lines \in Seq(ServerLines)  BY ServerLinesTyped
    <3>2. CASE ServerLine
      <4>1. said + 1 \in Nat  BY SessionAssumption DEF TypeOK
      <4>2. NickIn(got) \subseteq Nicks  BY NickInTyped DEF TypeOK
      <4>3. \E l \in ServerLines : lines' = Append(lines, l)
        <5>1. \/ lines' = Append(lines, <<"PING", said + 1>>)
              \/ \E nick \in NickIn(got) : lines' = Append(lines, <<"CTCP", nick>>)
              \/ lines' = Append(lines, <<"MOTDEND", None>>)
          BY <3>2 DEF ServerLine
        <5>2. /\ <<"PING", said + 1>> \in ServerLines /\ <<"MOTDEND", None>> \in ServerLines
              /\ \A nick \in NickIn(got) : <<"CTCP", nick>> \in ServerLines
          BY <4>1, <4>2 DEF ServerLines
        <5> QED  BY <5>1, <5>2
      <4> QED  BY <3>1, <4>3, Appended
    <3>3. CASE NextLine
      <4>1. lines # <<>> /\ lines' = Tail(lines)  BY <3>3 DEF NextLine
      <4> QED  BY <3>1, <4>1
    <3>4. CASE ~ServerLine /\ ~NextLine
      <4>1. lines' = lines \/ lines' = <<>>
        BY <1>2, <3>4 DEF Next, Loop, Net, Key, StartSession, Idle, telnet_connected, Acked,
          EndOfSegment, SegmentUnchanged, Closed, NoKey, EditKey, MacroKey, ReturnKey, KeyUnchanged,
          AutoAway, Register, Check, Arrive, TimerExpires, AtractOn, LoopUnchanged, env
      <4>2. <<>> \in Seq(ServerLines)  OBVIOUS
      <4> QED  BY <3>1, <4>1, <4>2
    <3> QED  BY <3>2, <3>3, <3>4
  <2>4. /\ sess' \in 0..MaxSessions /\ said' \in 0..MaxLines
        /\ phase' \in {"prompt", "net", "lines", "key", "away", "register", "check"}
        /\ regTimer' \in {"running", "expired"} /\ link' \in {"closed", "opening", "open"}
    <3>1. sess \in 0..MaxSessions /\ said \in 0..MaxLines /\ MaxSessions \in Nat /\ MaxLines \in Nat
      BY SessionAssumption DEF TypeOK
    <3>2. /\ phase \in {"prompt", "net", "lines", "key", "away", "register", "check"}
          /\ regTimer \in {"running", "expired"} /\ link \in {"closed", "opening", "open"}
      BY DEF TypeOK
    <3> QED  BY <1>2, <3>1, <3>2 DEF Next, Loop, Net, Key, StartSession, Idle, telnet_connected, Acked,
          NextLine, EndOfSegment, SegmentUnchanged, Closed, NoKey, EditKey, MacroKey, ReturnKey,
          KeyUnchanged, AutoAway, Register, Check, Arrive, ServerLine, TimerExpires, AtractOn,
          LoopUnchanged, env
  <2>5. /\ done' \in BOOLEAN /\ connected' \in BOOLEAN /\ nick_registered' \in BOOLEAN
        /\ away' \in BOOLEAN /\ typing' \in BOOLEAN /\ atract' \in BOOLEAN /\ tstate' \in BOOLEAN
    <3>1. /\ done \in BOOLEAN /\ connected \in BOOLEAN /\ nick_registered \in BOOLEAN
          /\ away \in BOOLEAN /\ typing \in BOOLEAN /\ atract \in BOOLEAN /\ tstate \in BOOLEAN
      BY DEF TypeOK
    <3>2. done' \in BOOLEAN /\ connected' \in BOOLEAN /\ nick_registered' \in BOOLEAN /\ away' \in BOOLEAN
      BY <1>2, <3>1 DEF Next, Loop, Net, Key, StartSession, Idle, telnet_connected, Acked,
          NextLine, EndOfSegment, SegmentUnchanged, Closed, NoKey, EditKey, MacroKey, ReturnKey,
          KeyUnchanged, AutoAway, Register, Check, Arrive, ServerLine, TimerExpires, AtractOn,
          LoopUnchanged, env, flags
    <3>3. typing' \in BOOLEAN /\ atract' \in BOOLEAN /\ tstate' \in BOOLEAN
      BY <1>2, <3>1 DEF Next, Loop, Net, Key, StartSession, Idle, telnet_connected, Acked,
          NextLine, EndOfSegment, SegmentUnchanged, Closed, NoKey, EditKey, MacroKey, ReturnKey,
          KeyUnchanged, AutoAway, Register, Check, Arrive, ServerLine, TimerExpires, AtractOn,
          LoopUnchanged, env, flags
    <3> QED  BY <3>2, <3>3
  <2>6. lines' \in Seq(({"PING"} \X Nat) \cup ({"CTCP"} \X Nicks) \cup {<<"MOTDEND", None>>})
    BY <2>3, Zenon DEF ServerLines
  <2> QED  BY <2>1, <2>2, <2>4, <2>5, <2>6, Zenon DEF TypeOK
<1> QED  BY <1>1, <1>2

-------------------------------------------------------------------------------
(***************************************************************************)
(* The flags and the link.                                                 *)
(***************************************************************************)
(* What a talking action leaves alone, and that nothing is without harm    *)
(* while the connection is not open.                                       *)
LEMMA TalkOpen ==
  ASSUME NEW c \in Client, NEW d, NEW M, Talks(c, d, M), d.harm = {}
  PROVE  c.harm = {} /\ (d = c \/ link = "open")
  BY DEF Talks

LEMMA PhasesKept == ASSUME TypeOK, Phases, [Next]_vars PROVE Phases'
<1>1. CASE UNCHANGED vars
  BY <1>1 DEF Phases, vars, flags, env
<1>2. CASE StartSession
  BY <1>2 DEF StartSession, Phases, TypeOK, Client, flags
<1>3. CASE telnet_connected
  BY <1>3 DEF telnet_connected, Phases, TypeOK
<1>4. CASE Acked
  <2>1. cl'.harm = cl.harm /\ cl'.sent = cl.sent /\ cl'.joined_channel = cl.joined_channel
    BY <1>4 DEF Acked, TypeOK, Client
  <2> QED  BY <1>4, <2>1 DEF Acked, SegmentUnchanged, Phases, flags
<1>5. CASE NextLine
  BY <1>5 DEF NextLine, SegmentUnchanged, Phases, flags
<1>6. CASE MacroKey \/ \E line \in Commands : ReturnKey(line)
  <2>1. PICK M : Talks(cl, cl', M)  BY <1>6, KeysSpeak DEF Quiet, KeepsWord
  <2>2. cl'.harm = {} => cl.harm = {} /\ (cl' = cl \/ link = "open")  BY <2>1, TalkOpen DEF TypeOK
  <2>3. /\ phase' = "away" /\ UNCHANGED <<done, connected, nick_registered, away, link, got>>
    BY <1>6 DEF MacroKey, ReturnKey, KeyUnchanged, flags, env
  <2> QED  BY <2>2, <2>3 DEF Phases
<1>7. CASE AutoAway
  <2>1. \/ cl' = cl /\ away' = away
        \/ /\ cl'.harm = {} => link = "open"
           /\ \E m \in Message : Talks(cl, cl', {m})
    BY <1>7, AwaySpeaks
  <2>2. cl'.harm = {} => cl.harm = {} /\ ((cl' = cl /\ away' = away) \/ link = "open")
    BY <2>1, TalkOpen DEF TypeOK, Talks
  <2>3. phase' = "register" /\ UNCHANGED <<done, connected, nick_registered, link, got>>
    BY <1>7 DEF AutoAway, flags, env
  <2> QED  BY <2>2, <2>3 DEF Phases
<1>8. CASE Register
  <2>1. \/ cl' = cl /\ nick_registered' = nick_registered
        \/ connected
    BY <1>8, RegisterSpeaks
  <2>2. phase' = "check" /\ UNCHANGED <<done, connected, away, link, got>>
    BY <1>8 DEF Register, env
  <2> QED  BY <2>1, <2>2 DEF Phases
<1>9. CASE Check
  <2>1. CASE done
    <3>1. cl'.joined_channel = FALSE  BY <1>9, <2>1 DEF Check, TypeOK, Client
    <3> QED  BY <1>9, <2>1, <3>1 DEF Check, Phases, env
  <2>2. CASE ~done
    BY <1>9, <2>2 DEF Check, Phases, env, flags
  <2> QED  BY <2>1, <2>2 
<1>10. CASE Arrive
  BY <1>10 DEF Arrive, LoopUnchanged, Phases, flags
<1>11. CASE Idle \/ EndOfSegment \/ Closed \/ NoKey \/ EditKey
  BY <1>11 DEF Idle, EndOfSegment, SegmentUnchanged, Closed, NoKey, EditKey, KeyUnchanged, Phases, flags, env
<1>12. CASE ServerLine \/ TimerExpires \/ AtractOn
  BY <1>12 DEF ServerLine, TimerExpires, AtractOn, LoopUnchanged, Phases, flags, env
<1> QED  BY <1>1, <1>2, <1>3, <1>4, <1>5, <1>6, <1>7, <1>8, <1>9, <1>10, <1>11, <1>12
         DEF Next, Loop, Net, Key

-------------------------------------------------------------------------------
(***************************************************************************)
(* The slot, and what the server was told.                                 *)
(***************************************************************************)
(* Whatever the client says through the slot leaves it in touch. *)
(* What the arrival of the pending message leaves, whichever it is. *)
LEMMA ArriveIs ==
  ASSUME cl \in Client, Arrive
  PROVE  /\ link = "open" /\ link' = link /\ cl.text # None /\ ~cl.arrived /\ cl'.arrived = TRUE
         /\ cl'.text = cl.text /\ cl'.sent = cl.sent /\ cl'.nick = cl.nick /\ cl.harm \subseteq cl'.harm
         /\ cl'.joined_channel = cl.joined_channel /\ cl'.channel = cl.channel
         /\ UNCHANGED <<connected, away, nick_registered>>
         /\ cl'.harm = {} =>
              \E m \in {cl.text} \cup IF cl.mangled THEN {Garbled} ELSE {} : got' = Append(got, m)
<1>1. /\ link = "open" /\ link' = link /\ cl.text # None /\ ~cl.arrived
      /\ UNCHANGED <<connected, away, nick_registered>>
  BY DEF Arrive, LoopUnchanged, flags
<1>2. cl.harm \in SUBSET {"refused", "lost", "autojoin", "stillAway", "nickTaken"}
  BY DEF Client
<1>3. CASE /\ \E m \in {cl.text} \cup IF cl.mangled THEN {Garbled} ELSE {} : got' = Append(got, m)
           /\ cl' = [cl EXCEPT !.arrived = TRUE]
  <2>1. /\ cl'.arrived = TRUE /\ cl'.text = cl.text /\ cl'.sent = cl.sent /\ cl'.nick = cl.nick
        /\ cl'.harm = cl.harm /\ cl'.joined_channel = cl.joined_channel /\ cl'.channel = cl.channel
    BY <1>3 DEF Client
  <2> QED  BY <1>1, <1>3, <2>1
<1>4. CASE cl' = [cl EXCEPT !.arrived = TRUE, !.harm = @ \cup {"nickTaken"}]
  <2>1. /\ cl'.arrived = TRUE /\ cl'.text = cl.text /\ cl'.sent = cl.sent /\ cl'.nick = cl.nick
        /\ cl'.harm = cl.harm \cup {"nickTaken"} /\ cl'.joined_channel = cl.joined_channel
        /\ cl'.channel = cl.channel
    BY <1>4 DEF Client
  <2> QED  BY <1>1, <2>1
<1> QED  BY <1>3, <1>4 DEF Arrive

LEMMA TalkInTouch ==
  ASSUME TypeOK, InTouch, NEW M \in SUBSET Message, Talks(cl, cl', M),
         connected' = connected, got' = got,
         cl'.harm = {} /\ Agrees(cl, away, nick_registered) => Agrees(cl', away', nick_registered')
  PROVE  InTouch'
<1> SUFFICES ASSUME connected, cl'.harm = {} PROVE InSlot' /\ Agrees(cl', away', nick_registered')
  BY DEF InTouch, Agrees
<1>1. cl.harm = {} /\ InSlot /\ Agrees(cl, away, nick_registered)
  BY DEF Talks, InTouch
<1>2. Agrees(cl', away', nick_registered')
  BY <1>1
<1>3. CASE cl' = cl
  BY <1>1, <1>2, <1>3 DEF InSlot
<1>4. CASE /\ cl.text = None
           /\ cl'.text \in M /\ ~cl'.arrived /\ ~cl'.mangled /\ cl'.sent = Append(cl.sent, cl'.text)
  <2>1. cl'.text # None  BY <1>4, SessionAssumption
  <2>2. got' = cl.sent  BY <1>1, <1>4 DEF InSlot
  <2> QED  BY <1>2, <1>4, <2>1, <2>2 DEF InSlot
<1> QED  BY <1>3, <1>4 DEF Talks

LEMMA KeepsWordInTouch ==
  ASSUME TypeOK, InTouch, NEW M \in SUBSET Message, KeepsWord(cl, cl', M),
         connected' = connected, got' = got, away' = away, nick_registered' = nick_registered
  PROVE  InTouch'
<1>1. away \in BOOLEAN /\ nick_registered \in BOOLEAN
  BY DEF TypeOK
<1>2. /\ Talks(cl, cl', M)
      /\ cl'.harm = {} /\ Agrees(cl, away, nick_registered) => Agrees(cl', away, nick_registered)
  BY <1>1 DEF KeepsWord
<1> QED  BY <1>2, TalkInTouch

(* Two records with the same channel, nick and messages agree alike. *)
LEMMA AgreesAlike ==
  ASSUME NEW c, NEW d, NEW isAway, NEW registered, Agrees(c, isAway, registered),
         d.joined_channel = c.joined_channel, d.channel = c.channel, d.nick = c.nick, d.sent = c.sent
  PROVE  Agrees(d, isAway, registered)
  BY DEF Agrees

LEMMA InTouchKept == ASSUME TypeOK, Phases, InTouch, [Next]_vars PROVE InTouch'
<1>0. cl \in Client
  BY DEF TypeOK
<1>1. CASE UNCHANGED vars
  BY <1>1 DEF InTouch, InSlot, Agrees, vars, flags, env
<1>2. CASE StartSession
  BY <1>2 DEF StartSession, Phases, InTouch, flags
<1>3. CASE telnet_connected
  <2>1. /\ cl'.text = None /\ cl'.sent = cl.sent /\ cl'.harm = cl.harm /\ cl'.nick = cl.nick
        /\ cl'.joined_channel = cl.joined_channel /\ cl'.channel = cl.channel
        /\ UNCHANGED <<got, away, nick_registered>> /\ link = "opening"
    BY <1>0, <1>3 DEF telnet_connected, Client
  <2> SUFFICES ASSUME cl'.harm = {} PROVE InSlot' /\ Agrees(cl', away', nick_registered')
    BY DEF InTouch, Agrees
  <2>2. cl.sent = <<>> /\ got = <<>> /\ ~cl.joined_channel /\ ~away /\ ~nick_registered
    BY <2>1 DEF Phases
  <2>3. InSlot'  BY <2>1, <2>2 DEF InSlot
  <2>4. Agrees(cl', away', nick_registered')
    <3>1. cl'.joined_channel = FALSE /\ cl'.sent = <<>>  BY <2>1, <2>2 DEF TypeOK, Client
    <3> QED  BY <2>1, <2>2, <3>1, NothingSaid DEF Agrees
  <2> QED  BY <2>3, <2>4
<1>4. CASE Acked
  <2>1. /\ cl'.text = None /\ cl'.sent = cl.sent /\ cl'.harm = cl.harm /\ cl'.nick = cl.nick
        /\ cl'.joined_channel = cl.joined_channel /\ cl'.channel = cl.channel
        /\ UNCHANGED <<got, away, nick_registered, connected>> /\ cl.arrived
    BY <1>0, <1>4 DEF Acked, SegmentUnchanged, flags, Client
  <2> QED  BY <2>1, AgreesAlike DEF InTouch, InSlot, Agrees
<1>5. CASE NextLine
  <2>1. \E M \in SUBSET Message : KeepsWord(cl, cl', M)
    <3>1. ASSUME NEW k \in Nat PROVE {<<"PONG", k>>} \in SUBSET Message  BY DEF Message
    <3> QED  BY <1>5, <3>1, LinesSpeak DEF Quiet
  <2>2. UNCHANGED <<connected, got, away, nick_registered>>
    BY <1>5 DEF NextLine, SegmentUnchanged, flags
  <2> QED  BY <2>1, <2>2, KeepsWordInTouch
<1>6. CASE MacroKey \/ \E line \in Commands : ReturnKey(line)
  <2>1. \E M \in SUBSET Message : KeepsWord(cl, cl', M)
    BY <1>6, KeysSpeak DEF Quiet
  <2>2. UNCHANGED <<connected, got, away, nick_registered>>
    BY <1>6 DEF MacroKey, ReturnKey, KeyUnchanged, flags, env
  <2> QED  BY <2>1, <2>2, KeepsWordInTouch
<1>7. CASE AutoAway
  <2>1. UNCHANGED <<connected, nick_registered, got>>  BY <1>7 DEF AutoAway, flags, env
  <2>2. CASE cl' = cl /\ away' = away
    BY <2>1, <2>2 DEF InTouch, InSlot, Agrees
  <2>3. CASE \E m \in Message :
               /\ Talks(cl, cl', {m})
               /\ cl'.harm = {} /\ Agrees(cl, away, nick_registered) => Agrees(cl', away', nick_registered)
    <3>1. PICK m \in Message :
               /\ Talks(cl, cl', {m})
               /\ cl'.harm = {} /\ Agrees(cl, away, nick_registered) => Agrees(cl', away', nick_registered)
      BY <2>3
    <3>2. {m} \in SUBSET Message  OBVIOUS
    <3> QED  BY <2>1, <3>1, <3>2, TalkInTouch
  <2> QED  BY <1>7, <2>2, <2>3, AwaySpeaks
<1>8. CASE Register
  <2>1. UNCHANGED <<connected, away, got>>  BY <1>8 DEF Register, env
  <2>2. CASE cl' = cl /\ nick_registered' = nick_registered
    BY <2>1, <2>2 DEF InTouch, InSlot, Agrees
  <2>3. CASE \E m \in Message :
               /\ Talks(cl, cl', {m})
               /\ cl'.harm = {} /\ Agrees(cl, away, nick_registered) => Agrees(cl', away, nick_registered')
    <3>1. PICK m \in Message :
               /\ Talks(cl, cl', {m})
               /\ cl'.harm = {} /\ Agrees(cl, away, nick_registered) => Agrees(cl', away, nick_registered')
      BY <2>3
    <3>2. {m} \in SUBSET Message  OBVIOUS
    <3> QED  BY <2>1, <3>1, <3>2, TalkInTouch
  <2> QED  BY <1>8, <2>2, <2>3, RegisterSpeaks
<1>9. CASE Check
  BY <1>9 DEF Check, InTouch, InSlot, Agrees, flags, env
<1>10. CASE Arrive
  <2>1. /\ cl.text # None /\ ~cl.arrived /\ cl'.arrived = TRUE
        /\ cl'.text = cl.text /\ cl'.sent = cl.sent /\ cl'.nick = cl.nick /\ cl.harm \subseteq cl'.harm
        /\ cl'.joined_channel = cl.joined_channel /\ cl'.channel = cl.channel
        /\ UNCHANGED <<connected, away, nick_registered>>
    BY <1>0, <1>10, ArriveIs
  <2>2. cl'.harm = {} => \E m \in {cl.text} \cup IF cl.mangled THEN {Garbled} ELSE {} : got' = Append(got, m)
    BY <1>0, <1>10, ArriveIs
  <2> SUFFICES ASSUME connected, cl'.harm = {} PROVE InSlot' /\ Agrees(cl', away', nick_registered')
    BY <2>1 DEF InTouch, Agrees
  <2>3. cl.harm = {} /\ cl.sent = Append(got, cl.text) /\ ~cl.mangled /\ Agrees(cl, away, nick_registered)
    BY <2>1 DEF InTouch, InSlot
  <2>4. got' = cl.sent  BY <2>2, <2>3
  <2>5. InSlot'  BY <2>1, <2>4 DEF InSlot
  <2> QED  BY <2>1, <2>3, <2>5, AgreesAlike
<1>11. CASE Idle \/ EndOfSegment \/ Closed \/ NoKey \/ EditKey
  BY <1>11 DEF Idle, EndOfSegment, SegmentUnchanged, Closed, NoKey, EditKey, KeyUnchanged, InTouch,
               InSlot, Agrees, flags, env
<1>12. CASE ServerLine \/ TimerExpires \/ AtractOn
  BY <1>12 DEF ServerLine, TimerExpires, AtractOn, LoopUnchanged, InTouch, InSlot, Agrees, flags, env
<1> QED  BY <1>1, <1>2, <1>3, <1>4, <1>5, <1>6, <1>7, <1>8, <1>9, <1>10, <1>11, <1>12
         DEF Next, Loop, Net, Key

-------------------------------------------------------------------------------
(***************************************************************************)
(* PINGs and PONGs.                                                        *)
(***************************************************************************)
Pending(c) == c.text # None /\ ~c.arrived /\ c.text[1] = "PONG"

LEMMA SameWires ==
  ASSUME PingOrder, PongsAnswerPings, got' = got, lines' = lines, said' = said,
         link' = "open" /\ Pending(cl') => link = "open" /\ Pending(cl) /\ cl'.text = cl.text
  PROVE  PingOrder' /\ PongsAnswerPings'
  BY DEF PingOrder, PongsAnswerPings, Pending

LEMMA QuietOnWires ==
  ASSUME NEW c, NEW d, NEW M, Talks(c, d, M), \A m \in M : m[1] # "PONG", Pending(d)
  PROVE  Pending(c) /\ d.text = c.text
  BY DEF Talks, Pending

LEMMA OneOnWires ==
  ASSUME NEW c, NEW d, NEW m, Talks(c, d, {m}), m[1] # "PONG", Pending(d)
  PROVE  Pending(c) /\ d.text = c.text
  BY DEF Talks, Pending

LEMMA QuietPings ==
  ASSUME PingOrder, PongsAnswerPings, Quiet(cl, cl'),
         got' = got, lines' = lines, said' = said, link' = link
  PROVE  PingOrder' /\ PongsAnswerPings'
<1>1. PICK M \in SUBSET Message : (\A m \in M : m[1] # "PONG") /\ Talks(cl, cl', M)
  BY DEF Quiet, KeepsWord
<1>2. Pending(cl') => Pending(cl) /\ cl'.text = cl.text
  BY <1>1, QuietOnWires
<1> QED  BY <1>2, SameWires

(* The line at the head of the queue is ahead of the rest. *)
LEMMA TailOrder ==
  ASSUME TypeOK, PingOrder, lines # <<>>
  PROVE  /\ Len(Tail(lines)) \in Nat
         /\ \A i \in 1..Len(Tail(lines)) : i + 1 \in 1..Len(lines) /\ Tail(lines)[i] = lines[i + 1]
         /\ 1 \in 1..Len(lines) /\ Head(lines) = lines[1]
         /\ \A i \in 1..Len(Tail(lines)) : Tail(lines)[i][1] = "PING" =>
              /\ Tail(lines)[i][2] <= said
              /\ \A j \in i + 1..Len(Tail(lines)) : Tail(lines)[j][1] = "PING" => Tail(lines)[i][2] < Tail(lines)[j][2]
              /\ Head(lines)[1] = "PING" => Head(lines)[2] < Tail(lines)[i][2]
         /\ \A i \in 1..Len(got), j \in 1..Len(Tail(lines)) :
              got[i][1] = "PONG" /\ Tail(lines)[j][1] = "PING" => got[i][2] < Tail(lines)[j][2]
<1>1. lines \in Seq(ServerLines)  BY ServerLinesTyped
<1> DEFINE t == Tail(lines)
           n == Len(lines)
<1>2. /\ n \in Nat /\ n > 0 /\ Len(t) = n - 1 /\ Head(lines) = lines[1]
      /\ \A i \in 1..n - 1 : t[i] = lines[i + 1]
  BY <1>1
<1>3. Len(lines) = n  OBVIOUS
<1> HIDE DEF t, n
<1>4. \A i \in 1..Len(t) : i + 1 \in 1..n /\ t[i] = lines[i + 1] /\ i + 1 \in 1 + 1..n
  BY <1>2
<1>5. /\ \A i \in 1..n : lines[i][1] = "PING" =>
           /\ lines[i][2] <= said
           /\ \A j \in i + 1..n : lines[j][1] = "PING" => lines[i][2] < lines[j][2]
      /\ \A i \in 1..Len(got), j \in 1..n :
           got[i][1] = "PONG" /\ lines[j][1] = "PING" => got[i][2] < lines[j][2]
  BY <1>3 DEF PingOrder
<1>6. ASSUME NEW i \in 1..Len(t), t[i][1] = "PING"
      PROVE  /\ t[i][2] <= said
             /\ \A j \in i + 1..Len(t) : t[j][1] = "PING" => t[i][2] < t[j][2]
             /\ Head(lines)[1] = "PING" => Head(lines)[2] < t[i][2]
  <2>1. i + 1 \in 1..n /\ t[i] = lines[i + 1]  BY <1>4
  <2>2. ASSUME NEW j \in i + 1..Len(t), t[j][1] = "PING" PROVE t[i][2] < t[j][2]
    <3>1. j \in 1..Len(t) /\ j + 1 \in (i + 1) + 1..n  BY <1>2
    <3>2. t[j] = lines[j + 1]  BY <1>4, <3>1
    <3> QED  BY <1>5, <1>6, <2>1, <2>2, <3>1, <3>2
  <2>3. 1 \in 1..n /\ i + 1 \in 1 + 1..n  BY <1>2
  <2> QED  BY <1>2, <1>5, <1>6, <2>1, <2>2, <2>3
<1>7. \A i \in 1..Len(got), j \in 1..Len(t) : got[i][1] = "PONG" /\ t[j][1] = "PING" => got[i][2] < t[j][2]
  BY <1>4, <1>5
<1>8. Len(t) \in Nat /\ 1 \in 1..n  BY <1>2
<1> QED  BY <1>2, <1>3, <1>4, <1>6, <1>7, <1>8 DEF t

LEMMA NextLinePings ==
  ASSUME TypeOK, PingOrder, PongsAnswerPings, NextLine
  PROVE  PingOrder' /\ PongsAnswerPings'
<1>1. lines # <<>> /\ lines' = Tail(lines) /\ link = "open" /\ UNCHANGED <<got, said, link>>
  BY DEF NextLine, SegmentUnchanged
<1> DEFINE h == Head(lines)
<1>2. /\ h \in ServerLines
      /\ \/ Quiet(cl, cl')
         \/ /\ h[1] = "PING" /\ h[2] \in Nat
            /\ KeepsWord(cl, cl', {<<"PONG", h[2]>>})
  BY LinesSpeak
<1>3. \/ Pending(cl') => Pending(cl) /\ cl'.text = cl.text
      \/ h[1] = "PING" /\ h[2] \in Nat /\ cl'.text = <<"PONG", h[2]>>
  <2> HIDE DEF h
  <2>1. CASE Quiet(cl, cl')
    <3>1. PICK M \in SUBSET Message : (\A m \in M : m[1] # "PONG") /\ Talks(cl, cl', M)
      BY <2>1 DEF Quiet, KeepsWord
    <3> QED  BY <3>1, QuietOnWires
  <2>2. CASE h[1] = "PING" /\ h[2] \in Nat /\ KeepsWord(cl, cl', {<<"PONG", h[2]>>})
    BY <2>2 DEF KeepsWord, Talks, Pending
  <2> QED  BY <1>2, <2>1, <2>2
<1>4. /\ 1 \in 1..Len(lines) /\ h = lines[1]
      /\ \A i \in 1..Len(lines') : i + 1 \in 1..Len(lines) /\ lines'[i] = lines[i + 1]
      /\ \A i \in 1..Len(lines') : lines'[i][1] = "PING" =>
              /\ lines'[i][2] <= said
              /\ \A j \in i + 1..Len(lines') : lines'[j][1] = "PING" => lines'[i][2] < lines'[j][2]
              /\ h[1] = "PING" => h[2] < lines'[i][2]
      /\ \A i \in 1..Len(got), j \in 1..Len(lines') :
              got[i][1] = "PONG" /\ lines'[j][1] = "PING" => got[i][2] < lines'[j][2]
  BY <1>1, TailOrder
<1> HIDE DEF h
<1>5. PongsAnswerPings'
  BY <1>1 DEF PongsAnswerPings
<1>6. ASSUME Pending(cl')
      PROVE  /\ cl'.text[2] <= said
             /\ \A i \in 1..Len(got) : got[i][1] = "PONG" => got[i][2] < cl'.text[2]
             /\ \A j \in 1..Len(lines') : lines'[j][1] = "PING" => cl'.text[2] < lines'[j][2]
  <2>1. CASE Pending(cl) /\ cl'.text = cl.text
    BY <1>1, <1>4, <2>1 DEF PingOrder, Pending
  <2>2. CASE h[1] = "PING" /\ cl'.text = <<"PONG", h[2]>>
    <3>1. cl'.text[2] = h[2]  BY <2>2
    <3>2. h[2] <= said /\ \A i \in 1..Len(got) : got[i][1] = "PONG" => got[i][2] < h[2]
      BY <1>4, <2>2 DEF PingOrder
    <3> QED  BY <1>4, <2>2, <3>1, <3>2
  <2> QED  BY <1>3, <1>6, <2>1, <2>2
<1> QED  BY <1>1, <1>4, <1>5, <1>6 DEF PingOrder, Pending

LEMMA ArrivePings ==
  ASSUME TypeOK, PingOrder, PongsAnswerPings, Arrive
  PROVE  PingOrder' /\ PongsAnswerPings'
<1>1. /\ link = "open" /\ cl.text # None /\ ~cl.arrived /\ UNCHANGED <<link, lines, said>>
      /\ cl'.arrived = TRUE
  BY DEF Arrive, TypeOK, Client
<1>2. CASE got' = got
  BY <1>1, <1>2, SameWires DEF Pending
<1>3. CASE \E m \in {cl.text} \cup IF cl.mangled THEN {Garbled} ELSE {} : got' = Append(got, m)
  <2>1. PICK m : (m = cl.text \/ m = Garbled) /\ got' = Append(got, m)  BY <1>3
  <2>2. m \in Message /\ got \in Seq(Message) /\ said \in Nat
    BY <1>1, <2>1, SessionAssumption DEF TypeOK, Client, Garbled, Message
  <2> DEFINE n == Len(got)
  <2>3. /\ n \in Nat /\ Len(got') = n + 1 /\ got'[n + 1] = m
        /\ \A i \in 1..n : got'[i] = got[i]
    BY <2>1, <2>2, Appended
  <2>4. Len(got) = n  OBVIOUS
  <2>5. ASSUME m[1] = "PONG"
        PROVE  /\ m[2] <= said /\ \A i \in 1..n : got[i][1] = "PONG" => got[i][2] < m[2]
               /\ \A j \in 1..Len(lines) : lines[j][1] = "PING" => m[2] < lines[j][2]
    <3>1. m = cl.text  BY <2>1, <2>5 DEF Garbled
    <3> QED  BY <1>1, <2>5, <3>1 DEF PingOrder
  <2> HIDE DEF n
  <2>6. PongsAnswerPings'
    <3> SUFFICES ASSUME NEW i \in 1..n + 1, got'[i][1] = "PONG"
                 PROVE  /\ got'[i][2] <= said
                        /\ \A j \in i + 1..n + 1 : got'[j][1] = "PONG" => got'[i][2] < got'[j][2]
      BY <1>1, <2>3 DEF PongsAnswerPings
    <3>1. CASE i = n + 1
      <4>1. i + 1..n + 1 = {}  BY <2>3, <3>1
      <4> QED  BY <2>3, <2>5, <3>1, <4>1
    <3>2. CASE i # n + 1
      <4>1. i \in 1..n /\ i + 1..n + 1 = (i + 1..n) \cup {n + 1} /\ (i + 1..n) \subseteq 1..n
        BY <2>3, <3>2
      <4>2. got[i][2] <= said /\ \A j \in i + 1..n : got[j][1] = "PONG" => got[i][2] < got[j][2]
        BY <2>3, <2>4, <4>1 DEF PongsAnswerPings
      <4> QED  BY <2>3, <2>5, <4>1, <4>2
    <3> QED  BY <3>1, <3>2
  <2>7. \A i \in 1..Len(got'), j \in 1..Len(lines) :
          got'[i][1] = "PONG" /\ lines[j][1] = "PING" => got'[i][2] < lines[j][2]
    <3>1. 1..Len(got') = (1..n) \cup {n + 1}  BY <2>3
    <3> QED  BY <2>3, <2>4, <2>5, <3>1 DEF PingOrder
  <2> QED  BY <1>1, <2>6, <2>7 DEF PingOrder
<1> QED  BY <1>2, <1>3 DEF Arrive

LEMMA ServerLinePings ==
  ASSUME TypeOK, PingOrder, PongsAnswerPings, ServerLine
  PROVE  PingOrder' /\ PongsAnswerPings'
<1>1. said \in Nat /\ said' = said + 1 /\ UNCHANGED <<link, cl, got>>
  BY SessionAssumption DEF ServerLine, TypeOK
<1>2. /\ \A i \in 1..Len(got) : got[i][1] = "PONG" => got[i] \in Message /\ got[i][2] \in Nat
      /\ cl.text # None /\ cl.text[1] = "PONG" => cl.text[2] \in Nat
  BY MessagePair DEF TypeOK, Client
<1>3. PongsAnswerPings'
  BY <1>1, <1>2 DEF PongsAnswerPings
<1>4. PICK l : /\ lines' = Append(lines, l)
               /\ l[1] = "PING" => l[2] = said + 1
  BY DEF ServerLine
<1> DEFINE n == Len(lines)
<1>5. /\ n \in Nat /\ Len(lines') = n + 1 /\ lines'[n + 1] = l
      /\ \A i \in 1..n : lines'[i] = lines[i]
  BY <1>4 DEF TypeOK
<1>6. Len(lines) = n  OBVIOUS
<1> HIDE DEF n
<1>7. \A i \in 1..n : lines[i][1] = "PING" => lines[i][2] \in Nat
  <2>1. lines \in Seq(ServerLines)  BY ServerLinesTyped
  <2> QED  BY <1>6, <2>1 DEF ServerLines
<1>8. 1..Len(lines') = (1..n) \cup {n + 1}  BY <1>5
<1>9. \A i \in 1..Len(lines') : lines'[i][1] = "PING" =>
        /\ lines'[i][2] <= said'
        /\ \A j \in i + 1..Len(lines') : lines'[j][1] = "PING" => lines'[i][2] < lines'[j][2]
  <2> SUFFICES ASSUME NEW i \in 1..n + 1, lines'[i][1] = "PING"
               PROVE  /\ lines'[i][2] <= said + 1
                      /\ \A j \in i + 1..n + 1 : lines'[j][1] = "PING" => lines'[i][2] < lines'[j][2]
    BY <1>1, <1>5
  <2>1. CASE i = n + 1
    <3>1. i + 1..n + 1 = {}  BY <1>5, <2>1
    <3> QED  BY <1>1, <1>4, <1>5, <2>1, <3>1
  <2>2. CASE i # n + 1
    <3>1. i \in 1..n /\ i + 1..n + 1 = (i + 1..n) \cup {n + 1} /\ (i + 1..n) \subseteq 1..n
      BY <1>5, <2>2
    <3>2. /\ lines[i][2] <= said /\ lines[i][2] \in Nat
          /\ \A j \in i + 1..n : lines[j][1] = "PING" => lines[i][2] < lines[j][2]
      BY <1>5, <1>6, <1>7, <3>1 DEF PingOrder
    <3> QED  BY <1>1, <1>4, <1>5, <3>1, <3>2
  <2> QED  BY <2>1, <2>2
<1>10. \A i \in 1..Len(got), j \in 1..Len(lines') :
         got[i][1] = "PONG" /\ lines'[j][1] = "PING" => got[i][2] < lines'[j][2]
  <2>1. \A i \in 1..Len(got) : got[i][1] = "PONG" => got[i][2] < said + 1
    BY <1>1, <1>2 DEF PongsAnswerPings
  <2> QED  BY <1>4, <1>5, <1>6, <1>8, <2>1 DEF PingOrder
<1>11. ASSUME link = "open", Pending(cl)
       PROVE  /\ cl.text[2] <= said + 1
              /\ \A i \in 1..Len(got) : got[i][1] = "PONG" => got[i][2] < cl.text[2]
              /\ \A j \in 1..Len(lines') : lines'[j][1] = "PING" => cl.text[2] < lines'[j][2]
  <2>1. cl.text[2] <= said /\ cl.text[2] \in Nat  BY <1>2, <1>11 DEF PingOrder, Pending
  <2>2. cl.text[2] < said + 1  BY <1>1, <2>1
  <2> QED  BY <1>1, <1>4, <1>5, <1>6, <1>8, <1>11, <2>1, <2>2 DEF PingOrder, Pending
<1> QED  BY <1>1, <1>3, <1>9, <1>10, <1>11 DEF PingOrder, Pending

LEMMA PingsKept ==
  ASSUME TypeOK, PingOrder, PongsAnswerPings, [Next]_vars
  PROVE  PingOrder' /\ PongsAnswerPings'
<1>0. cl \in Client
  BY DEF TypeOK
<1>1. CASE UNCHANGED vars
  BY <1>1, SameWires DEF vars, env
<1>2. CASE StartSession
  <2>1. got' = <<>> /\ lines' = <<>> /\ link' = "opening"  BY <1>2 DEF StartSession
  <2> QED  BY <2>1 DEF PingOrder, PongsAnswerPings
<1>3. CASE telnet_connected \/ Acked
  <2>1. cl'.text = None /\ UNCHANGED <<got, lines, said>>
    BY <1>0, <1>3 DEF telnet_connected, Acked, SegmentUnchanged, Client
  <2> QED  BY <2>1, SameWires DEF Pending
<1>4. CASE MacroKey \/ \E line \in Commands : ReturnKey(line)
  <2>1. UNCHANGED <<got, lines, said, link>>  BY <1>4 DEF MacroKey, ReturnKey, KeyUnchanged, env
  <2> QED  BY <1>4, <2>1, KeysSpeak, QuietPings
<1>5. CASE AutoAway
  <2>1. cl' = cl \/ \E m \in Message : m[1] # "PONG" /\ Talks(cl, cl', {m})  BY <1>5, AwaySpeaks
  <2>2. Pending(cl') => Pending(cl) /\ cl'.text = cl.text  BY <2>1, OneOnWires
  <2>3. UNCHANGED <<got, lines, said, link>>  BY <1>5 DEF AutoAway, env
  <2> QED  BY <2>2, <2>3, SameWires
<1>6. CASE Register
  <2>1. cl' = cl \/ \E m \in Message : m[1] # "PONG" /\ Talks(cl, cl', {m})  BY <1>6, RegisterSpeaks
  <2>2. Pending(cl') => Pending(cl) /\ cl'.text = cl.text  BY <2>1, OneOnWires
  <2>3. UNCHANGED <<got, lines, said, link>>  BY <1>6 DEF Register, env
  <2> QED  BY <2>2, <2>3, SameWires
<1>7. CASE Check
  <2>1. cl'.text = cl.text /\ cl'.arrived = cl.arrived  BY <1>0, <1>7 DEF Check, Client
  <2>2. UNCHANGED <<got, lines, said, link>>  BY <1>7 DEF Check, env
  <2> QED  BY <2>1, <2>2, SameWires DEF Pending
<1>8. CASE Idle \/ EndOfSegment \/ NoKey \/ EditKey \/ TimerExpires \/ AtractOn
  <2>1. UNCHANGED <<got, lines, said, link, cl>>
    BY <1>8 DEF Idle, EndOfSegment, SegmentUnchanged, NoKey, EditKey, KeyUnchanged, TimerExpires,
                AtractOn, LoopUnchanged, env
  <2> QED  BY <2>1, SameWires
<1>9. CASE Closed
  <2>1. UNCHANGED <<got, lines, said>> /\ link' = "closed"  BY <1>9 DEF Closed
  <2> QED  BY <2>1, SameWires
<1>10. CASE NextLine
  BY <1>10, NextLinePings
<1>11. CASE Arrive
  BY <1>11, ArrivePings
<1>12. CASE ServerLine
  BY <1>12, ServerLinePings
<1> QED  BY <1>1, <1>2, <1>3, <1>4, <1>5, <1>6, <1>7, <1>8, <1>9, <1>10, <1>11, <1>12
         DEF Next, Loop, Net, Key

-------------------------------------------------------------------------------
(***************************************************************************)
(* The theorems.                                                           *)
(***************************************************************************)
LEMMA SessionInvInit == Init => SessionInv
<1> SUFFICES ASSUME Init PROVE SessionInv
  OBVIOUS
<1>1. cl \in Client
  <2>1. /\ <<>> \in Seq(Message) /\ 0 \in Nat /\ {} \in SUBSET Nat /\ None \in Message \cup {None}
        /\ {} \in SUBSET {"refused", "lost", "autojoin", "stillAway", "nickTaken"}
        /\ FALSE \in BOOLEAN /\ None \in Channels \cup {None} /\ ConfigNick \in Nicks
    BY SessionAssumption
  <2> QED  BY <2>1, Zenon DEF Init, Client
<1>2. TypeOK
  <2>1. MaxSessions \in Nat /\ MaxLines \in Nat  BY SessionAssumption
  <2>2. sess \in 0..MaxSessions /\ said \in 0..MaxLines  BY <2>1 DEF Init
  <2>3. /\ got \in Seq(Message)
        /\ lines \in Seq(({"PING"} \X Nat) \cup ({"CTCP"} \X Nicks) \cup {<<"MOTDEND", None>>})
    BY DEF Init
  <2> QED  BY <1>1, <2>2, <2>3 DEF Init, TypeOK
<1>3. cl.joined_channel = FALSE
  BY DEF Init
<1>4. Phases /\ InTouch /\ PingOrder /\ PongsAnswerPings
  BY <1>3 DEF Init, Phases, InTouch, PingOrder, PongsAnswerPings
<1> QED  BY <1>2, <1>4 DEF SessionInv

LEMMA SessionInvNext == SessionInv /\ [Next]_vars => SessionInv'
  BY TypeKept, PhasesKept, InTouchKept, PingsKept DEF SessionInv

LEMMA SessionInvHolds == Spec => []SessionInv
  BY SessionInvInit, SessionInvNext, PTL DEF Spec

(* The variables have their types, in any number of sessions.              *)
THEOREM SessionTypeCorrect == Spec => []TypeOK
<1>1. SessionInv => TypeOK
  BY DEF SessionInv
<1> QED  BY <1>1, SessionInvHolds, PTL

(* As long as telnet_send took every message, the client's idea of its     *)
(* channel, of being away and of its nick is what it has told the server.  *)
THEOREM AgreesWithServerHolds == Spec => []AgreesWithServer
<1>1. SessionInv => AgreesWithServer
  <2> SUFFICES ASSUME SessionInv, Settled
               PROVE  /\ AskedBy(got) = IF cl.joined_channel THEN {cl.channel} ELSE {}
                      /\ SaysAway(got) <=> away
                      /\ NickIn(got) \subseteq {cl.nick}
    BY DEF AgreesWithServer, ChannelAgreed, AwayAgreed, NickAgreed
  <2>1. got = cl.sent /\ Agrees(cl, away, nick_registered)
    BY DEF SessionInv, InTouch, InSlot, Settled
  <2> QED  BY <2>1 DEF Agrees
<1> QED  BY <1>1, SessionInvHolds, PTL

(* Every PONG answers a PING of the server's, in order and at most once,   *)
(* whatever was refused; the registration goes out once per connection.    *)
THEOREM SentOnceHolds == Spec => []SentOnce
<1>1. SessionInv => SentOnce
  <2>1. SessionInv => RegisteredOnce
    BY DEF SessionInv, InTouch, Agrees, RegisteredOnce
  <2> QED  BY <2>1 DEF SessionInv, SentOnce
<1> QED  BY <1>1, SessionInvHolds, PTL

(* A message taken is a Take of the channel. *)
LEMMA TalkTakes ==
  ASSUME TypeOK, NEW M \in SUBSET Message, Talks(cl, cl', M), cl'.harm = {},
         link' = link, got' = got
  PROVE  Slot!Next \/ UNCHANGED Slot!cvars
<1>1. CASE cl' = cl
  BY <1>1 DEF Slot!cvars
<1>2. CASE /\ cl.text = None /\ link = "open"
           /\ cl'.text \in M /\ cl'.sent = Append(cl.sent, cl'.text)
  <2>1. cl'.text # None /\ cl'.text \in Message  BY <1>2, SessionAssumption
  <2>2. Slot!StrictlyExtends(cl'.sent, cl.sent)
    <3>1. cl.sent \in Seq(Message)  BY DEF TypeOK, Client
    <3>2. /\ Len(Append(cl.sent, cl'.text)) > Len(cl.sent)
          /\ SubSeq(Append(cl.sent, cl'.text), 1, Len(cl.sent)) = cl.sent
      BY <2>1, <3>1
    <3> QED  BY <1>2, <3>2 DEF Slot!StrictlyExtends
  <2>3. Slot!Take  BY <1>2, <2>1, <2>2 DEF Slot!Take
  <2> QED  BY <2>3 DEF Slot!Next
<1> QED  BY <1>1, <1>2 DEF Talks

LEMMA SlotStep ==
  ASSUME SessionInv, [Next]_vars, cl'.harm = {}
  PROVE  Slot!Next \/ UNCHANGED Slot!cvars
<1>0. TypeOK /\ Phases /\ InTouch /\ cl \in Client
  BY DEF SessionInv, TypeOK
<1>1. CASE UNCHANGED vars
  BY <1>1 DEF vars, env, Slot!cvars
<1>2. CASE StartSession
  <2>1. link = "closed" /\ link' = "opening" /\ cl'.sent = <<>> /\ got' = <<>>
    BY <1>0, <1>2 DEF StartSession, Phases, Client
  <2> QED  BY <2>1 DEF Slot!Forget, Slot!Next
<1>3. CASE telnet_connected
  <2>1. /\ link = "opening" /\ link' = "open" /\ cl'.text = None /\ got' = got
        /\ cl'.sent = cl.sent /\ cl'.harm = cl.harm
    BY <1>0, <1>3 DEF telnet_connected, Client
  <2>2. cl.sent = <<>> /\ got = <<>>  BY <1>0, <2>1 DEF Phases
  <2> QED  BY <2>1, <2>2 DEF Slot!Open, Slot!Next
<1>4. CASE Acked
  <2>1. /\ link = "open" /\ cl.text # None /\ cl.arrived /\ UNCHANGED <<link, got>>
        /\ cl'.text = None /\ cl'.sent = cl.sent /\ cl'.harm = cl.harm
    BY <1>0, <1>4 DEF Acked, SegmentUnchanged, Client
  <2>2. got = cl.sent  BY <1>0, <2>1 DEF Phases, InTouch, InSlot
  <2> QED  BY <2>1, <2>2 DEF Slot!Free, Slot!Next
<1>5. CASE NextLine
  <2>1. \E M \in SUBSET Message : Talks(cl, cl', M)
    <3>1. ASSUME NEW k \in Nat PROVE {<<"PONG", k>>} \in SUBSET Message  BY DEF Message
    <3> QED  BY <1>0, <1>5, <3>1, LinesSpeak DEF Quiet, KeepsWord
  <2>2. UNCHANGED <<link, got>>  BY <1>5 DEF NextLine, SegmentUnchanged
  <2> QED  BY <1>0, <2>1, <2>2, TalkTakes
<1>6. CASE MacroKey \/ \E line \in Commands : ReturnKey(line)
  <2>1. \E M \in SUBSET Message : Talks(cl, cl', M)
    BY <1>0, <1>6, KeysSpeak DEF Quiet, KeepsWord
  <2>2. UNCHANGED <<link, got>>  BY <1>6 DEF MacroKey, ReturnKey, KeyUnchanged, env
  <2> QED  BY <1>0, <2>1, <2>2, TalkTakes
<1>7. CASE AutoAway \/ Register
  <2>1. cl' = cl \/ \E m \in Message : Talks(cl, cl', {m})  BY <1>0, <1>7, AwaySpeaks, RegisterSpeaks
  <2>2. UNCHANGED <<link, got>>  BY <1>7 DEF AutoAway, Register, env
  <2>3. \A m \in Message : {m} \in SUBSET Message  OBVIOUS
  <2>4. CASE cl' = cl  BY <2>2, <2>4 DEF Slot!cvars
  <2> QED  BY <1>0, <2>1, <2>2, <2>3, <2>4, TalkTakes
<1>8. CASE Check
  <2>1. cl'.text = cl.text /\ cl'.sent = cl.sent  BY <1>0, <1>8 DEF Check, Client
  <2>2. UNCHANGED <<link, got>>  BY <1>8 DEF Check, env
  <2> QED  BY <2>1, <2>2 DEF Slot!cvars
<1>9. CASE Arrive
  <2>1. /\ link = "open" /\ cl.text # None /\ ~cl.arrived /\ link' = link
        /\ cl'.text = cl.text /\ cl'.sent = cl.sent /\ cl.harm = {}
    BY <1>0, <1>9, ArriveIs
  <2>2. cl.sent = Append(got, cl.text) /\ ~cl.mangled  BY <1>0, <2>1 DEF Phases, InTouch, InSlot
  <2>3. \E m \in {cl.text} \cup IF cl.mangled THEN {Garbled} ELSE {} : got' = Append(got, m)
    BY <1>0, <1>9, ArriveIs
  <2>4. got' = Append(got, cl.text)  BY <2>2, <2>3
  <2>5. got \in Seq(Message) /\ cl.text \in Message
    BY <1>0, <2>1 DEF TypeOK, Client
  <2>6. /\ Len(got') > Len(got) /\ SubSeq(got', 1, Len(got)) = got
        /\ Len(got') <= Len(got') /\ SubSeq(got', 1, Len(got')) = got'
    BY <2>4, <2>5
  <2>7. got' = cl.sent  BY <2>2, <2>4
  <2> QED  BY <2>1, <2>6, <2>7 DEF Slot!Arrive, Slot!StrictlyExtends, Slot!Next
<1>10. CASE Closed
  <2>1. link # "closed" /\ link' = "closed" /\ UNCHANGED <<cl, got>>  BY <1>10 DEF Closed
  <2>2. CASE link = "open"  BY <2>1, <2>2 DEF Slot!Close, Slot!Next
  <2>3. CASE link # "open"  BY <2>1, <2>3 DEF Slot!cvars
  <2> QED  BY <2>2, <2>3
<1>11. CASE Idle \/ EndOfSegment \/ NoKey \/ EditKey \/ ServerLine \/ TimerExpires \/ AtractOn
  BY <1>11 DEF Idle, EndOfSegment, SegmentUnchanged, NoKey, EditKey, KeyUnchanged, ServerLine,
               TimerExpires, AtractOn, LoopUnchanged, env, Slot!cvars
<1> QED  BY <1>1, <1>2, <1>3, <1>4, <1>5, <1>6, <1>7, <1>8, <1>9, <1>10, <1>11
         DEF Next, Loop, Net, Key

(* The client's sends, as long as none is refused or lost, are steps of    *)
(* the channel that TelnetConn and the stream below it implement: it never *)
(* gives telnet_send a message before the one before it was acknowledged.  *)
THEOREM SlotIsChannelHolds == Spec => SlotIsChannel
<1>1. Init => Slot!Init
  BY DEF Init, Slot!Init
<1>2. SessionInv /\ [Next]_vars => [cl'.harm = {} => Slot!Next \/ UNCHANGED Slot!cvars]_vars
  BY SlotStep
<1> QED  BY <1>1, <1>2, SessionInvHolds, PTL DEF Spec, SlotIsChannel
==================================================================================
