------------------------------ MODULE IrcSession ------------------------------
(***************************************************************************)
(* The IRC client on top of the connection: the flags of the main loop of  *)
(* src/fujichat.c, the commands of src/commands.c, the handlers of the     *)
(* server's lines, auto-away and nick registration.                        *)
(*                                                                         *)
(* One iteration of the loop goes through the phases net, key, away,       *)
(* register and check; lines is the part of net in which the lines of a    *)
(* segment are handled one by one, while nothing leaves or comes in.       *)
(* Everything the client says goes through the one slot of telnet_send,    *)
(* and nobody looks at telnet_send's result.  The connection underneath is *)
(* what MessageChannel promises, which TelnetConn shows of uIP; the server *)
(* (external) sends lines and reads messages.                              *)
(***************************************************************************)
EXTENDS Naturals, Sequences

CONSTANTS
  Channels,      \* names of channels
  AutoChannel,   \* config->channel, or None
  None,          \* no channel, no argument, no message
  Nicks,         \* nicks
  ConfigNick,    \* config->nick as the menu left it
  Commands,      \* the lines the user may enter: <<command, argument>>
  MaxSessions,   \* bound: sessions
  MaxSends,      \* bound: the user stops talking after so many messages
  MaxLines       \* bound: lines the server sends in a session

(* What the client says: a command and its argument. *)
Message ==
  ({"JOIN", "PART", "QUIT", "ACTION", "PRIVMSG", "OTHER", "NOTICE", "NAMES", "AWAY", "BACK", "GARBLED"}
     \X (Channels \cup {None})) \cup ({"PONG"} \X Nat) \cup ({"REG", "NICK"} \X Nicks)

ASSUME SessionAssumption ==
  /\ None \notin Channels \cup Nicks \cup Message /\ ConfigNick \in Nicks
  /\ AutoChannel \in Channels \cup {None}
  /\ Commands \subseteq ({"JOIN", "PART", "QUIT", "ME", "TEXT", "OTHER"}
                           \X (Channels \cup {None})) \cup ({"NICK"} \X Nicks)
  /\ {MaxSessions, MaxSends, MaxLines} \subseteq Nat

VARIABLES
  sess,             \* number of the session
  phase,            \* where the loop is: "prompt" outside it
  done, connected, nick_registered, away,   \* the flags of fujichat.c
  typing,           \* input_buf_len > 0
  atract,           \* the OS is in ATRACT mode: bit 7 of location 77
  regTimer,         \* nick_reg_timer
  tstate,           \* tstate points to the telnet_state
  cl,               \* channel flags and the send slot, see below
  link,             \* "closed", "opening" or "open"
  got,              \* the messages the server received in this session
  lines,            \* the server's lines on their way
  said              \* how many lines the server sent in this session

flags == <<connected, nick_registered>>
env   == <<link, got, lines, said>>
vars  == <<sess, phase, done, flags, away, typing, atract, regTimer, tstate, cl, env>>

Garbled == <<"GARBLED", None>>

-------------------------------------------------------------------------------
(***************************************************************************)
(* The record cl, and the functions that send something:                   *)
(*   joined_channel, channel, and config->nick                             *)
(*   text      the message pending in the telnet_state, or None            *)
(*   arrived   the server has it, but its acknowledgment is not here yet   *)
(*   mangled   serv_msg_buf was written again before it arrived            *)
(*   sent      history: the messages accepted on this connection           *)
(*   calls     history: the calls of telnet_send in this session           *)
(*   pings     history: the PINGs read in this session                     *)
(*   harm      history: "refused" or "lost" messages, an "autojoin" out of *)
(*             another channel, a session begun "stillAway", a nick the    *)
(*             server did not accept ("nickTaken")                         *)
(***************************************************************************)
(* Mutant: a pending message does not keep the next one out. *)
telnet_send_NoCheck(c, cmd, arg) ==
  [c EXCEPT !.text = <<cmd, arg>>, !.arrived = FALSE, !.mangled = FALSE,
            !.sent = IF tstate /\ link = "open" THEN Append(@, <<cmd, arg>>) ELSE @,
            !.calls = @ + 1,
            !.harm = @ \cup (IF tstate /\ link = "open" THEN {} ELSE {"lost"})]

telnet_send(c, cmd, arg) ==
  LET taken == tstate /\ c.text = None
      live  == link = "open"
  IN  [c EXCEPT
         !.text    = IF taken THEN <<cmd, arg>> ELSE @,
         !.arrived = IF taken THEN FALSE ELSE @,
         !.mangled = ~taken /\ c.text # None /\ (@ \/ ~c.arrived),
         !.sent    = IF taken /\ live THEN Append(@, <<cmd, arg>>) ELSE @,
         !.calls   = @ + 1,
         !.harm    = @ \cup (IF c.text # None THEN {"refused"} ELSE {})
                       \cup (IF taken /\ live THEN {} ELSE {"lost"})]

(* Mutant: /join does not remember which channel it asked for. *)
cmd_join_NoCopy(c, arg) ==
  IF c.joined_channel
  THEN IF arg = None THEN telnet_send(c, "JOIN", c.channel) ELSE c
  ELSE IF arg = None THEN c
  ELSE telnet_send([c EXCEPT !.joined_channel = TRUE], "JOIN", arg)

cmd_join(c, arg) ==
  IF c.joined_channel
  THEN IF arg = None THEN telnet_send(c, "JOIN", c.channel) ELSE c
  ELSE IF arg = None THEN c
  ELSE telnet_send([c EXCEPT !.joined_channel = TRUE, !.channel = arg], "JOIN", arg)

cmd_part(c) == telnet_send([c EXCEPT !.joined_channel = FALSE], "PART", c.channel)

cmd_quit(c) == telnet_send([c EXCEPT !.joined_channel = FALSE], "QUIT", None)

do_me(c) == telnet_send(c, "ACTION", c.channel)

(* Text without a slash: only in a channel. *)
say(c) == IF c.joined_channel THEN telnet_send(c, "PRIVMSG", c.channel) ELSE c

(* The nick counts as changed at once, and for the sessions to come. *)
cmd_nick(c, arg) == telnet_send([c EXCEPT !.nick = arg], "NICK", arg)

(* OTHER is every command that only sends, the unknown ones included. *)
handle_command(c, cmd, arg) ==
  CASE cmd = "JOIN"  -> cmd_join(c, arg)
    [] cmd = "PART"  -> cmd_part(c)
    [] cmd = "QUIT"  -> cmd_quit(c)
    [] cmd = "ME"    -> do_me(c)
    [] cmd = "TEXT"  -> say(c)
    [] cmd = "NICK"  -> cmd_nick(c, arg)
    [] cmd = "OTHER" -> telnet_send(c, "OTHER", None)

(* 376 or 422, the end of the MOTD: join the configured channel, whatever  *)
(* channel the client is in.                                               *)
do_server_msg(c) ==
  IF AutoChannel = None THEN c
  ELSE telnet_send([c EXCEPT
         !.harm = @ \cup (IF c.joined_channel /\ c.channel # AutoChannel
                          THEN {"autojoin"} ELSE {}),
         !.channel = AutoChannel, !.joined_channel = TRUE], "JOIN", AutoChannel)

(* Mutant: the line goes back as it came. *)
do_pong_AsIs(c, k) == telnet_send([c EXCEPT !.pings = @ \cup {k}], "PING", k)

do_pong(c, k) == telnet_send([c EXCEPT !.pings = @ \cup {k}], "PONG", k)

(* A CTCP request is answered with a NOTICE if it is addressed to the nick *)
(* the client now believes to have; otherwise it is taken for the text of  *)
(* a channel.                                                              *)
do_msg(c, nick) == IF nick = c.nick THEN telnet_send(c, "NOTICE", None) ELSE c

(* telnet_newdata on a complete line.  Other lines are only shown. *)
HandleLine(c, line) ==
  CASE line[1] = "PING"    -> do_pong(c, line[2])
    [] line[1] = "MOTDEND" -> do_server_msg(c)
    [] line[1] = "CTCP"    -> do_msg(c, line[2])

-------------------------------------------------------------------------------
Init ==
  /\ sess = 0 /\ phase = "prompt"
  /\ done = FALSE /\ connected = FALSE /\ nick_registered = FALSE
  /\ away = FALSE /\ typing = FALSE /\ atract = FALSE /\ tstate = FALSE
  /\ regTimer = "expired"
  /\ cl = [joined_channel |-> FALSE, channel |-> None, nick |-> ConfigNick, text |-> None,
           arrived |-> FALSE, mangled |-> FALSE, sent |-> <<>>, calls |-> 0,
           pings |-> {}, harm |-> {}]
  /\ link = "closed" /\ got = <<>> /\ lines = <<>> /\ said = 0

(* The prompt is answered, and a connection attempt is under way.  away,   *)
(* the nick, the input line and the telnet_state are not reset.            *)
StartSession ==
  /\ phase = "prompt" /\ sess < MaxSessions
  /\ sess' = sess + 1 /\ phase' = "net" /\ done' = FALSE
  /\ link' = "opening"
  /\ cl' = [cl EXCEPT !.arrived = FALSE, !.mangled = FALSE,
                     !.sent = <<>>, !.calls = 0, !.pings = {},
                     !.harm = IF away THEN {"stillAway"} ELSE {}]
  /\ got' = <<>> /\ lines' = <<>> /\ said' = 0
  /\ UNCHANGED <<flags, away, typing, atract, regTimer, tstate>>

-------------------------------------------------------------------------------
(***************************************************************************)
(* Phase net: at most one packet is processed.                             *)
(***************************************************************************)

(* No packet, or one the client's state does not depend on. *)
Idle ==
  /\ phase = "net" /\ phase' = "key"
  /\ UNCHANGED <<sess, done, flags, away, typing, atract, regTimer, tstate, cl, env>>

telnet_connected ==
  /\ phase = "net" /\ phase' = "key"
  /\ ~done /\ link = "opening" /\ link' = "open"
  /\ tstate' = TRUE /\ connected' = TRUE /\ regTimer' = "running"
  /\ cl' = [cl EXCEPT !.text = None, !.mangled = FALSE]
  /\ UNCHANGED <<sess, done, nick_registered, away, typing, atract, got, lines, said>>

(* A segment acknowledges the pending message, brings lines, or both:      *)
(* telnet_app calls acked() before telnet_newdata.                         *)
SegmentUnchanged ==
  UNCHANGED <<sess, done, flags, away, typing, atract, regTimer, tstate, link, got, said>>

Acked ==
  /\ phase = "net" /\ phase' = "lines"
  /\ link = "open" /\ cl.text # None /\ cl.arrived
  /\ cl' = [cl EXCEPT !.text = None]
  /\ UNCHANGED lines /\ SegmentUnchanged

(* Mutant: the line stays in output_buf after it was handled. *)
NextLine_Kept ==
  /\ phase \in {"net", "lines"} /\ phase' = "lines"
  /\ link = "open" /\ lines # <<>>
  /\ cl' = HandleLine(cl, Head(lines))
  /\ UNCHANGED lines /\ SegmentUnchanged

(* telnet_newdata completes a line of the segment. *)
NextLine ==
  /\ phase \in {"net", "lines"} /\ phase' = "lines"
  /\ link = "open" /\ lines # <<>>
  /\ cl' = HandleLine(cl, Head(lines)) /\ lines' = Tail(lines)
  /\ SegmentUnchanged

EndOfSegment ==
  /\ phase = "lines" /\ phase' = "key"
  /\ UNCHANGED <<cl, lines>> /\ SegmentUnchanged

(* telnet_closed, telnet_aborted, telnet_timedout, or resolv_found without *)
(* an address.                                                             *)
Closed ==
  /\ phase = "net" /\ phase' = "key"
  /\ link # "closed" /\ link' = "closed" /\ done' = TRUE
  /\ UNCHANGED <<sess, flags, away, typing, atract, regTimer, tstate, cl, got, lines, said>>

-------------------------------------------------------------------------------
(***************************************************************************)
(* Phase key: handle_keystroke.  A key press ends ATRACT mode.             *)
(***************************************************************************)
KeyUnchanged == UNCHANGED <<sess, done, flags, away, regTimer, tstate, env>>

NoKey ==
  /\ phase = "key" /\ phase' = "away"
  /\ UNCHANGED <<typing, atract, cl>> /\ KeyUnchanged

(* A character of the line, or the key that erases it. *)
EditKey ==
  /\ phase = "key" /\ phase' = "away" /\ cl.calls < MaxSends
  /\ typing' \in BOOLEAN /\ atract' = FALSE
  /\ UNCHANGED cl /\ KeyUnchanged

(* ctrl-N and ctrl-W at the start of a line. *)
MacroKey ==
  /\ phase = "key" /\ phase' = "away" /\ cl.calls < MaxSends
  /\ ~typing /\ atract' = FALSE
  /\ cl' = IF cl.joined_channel THEN telnet_send(cl, "NAMES", cl.channel) ELSE cl
  /\ UNCHANGED typing /\ KeyUnchanged

ReturnKey(line) ==
  /\ phase = "key" /\ phase' = "away" /\ cl.calls < MaxSends
  /\ typing /\ typing' = FALSE /\ atract' = FALSE
  /\ cl' = handle_command(cl, line[1], line[2])
  /\ KeyUnchanged

-------------------------------------------------------------------------------
(* Phase away. *)
AutoAway ==
  /\ phase = "away" /\ phase' = "register"
  /\ \/ away /\ typing /\ ~atract /\ away' = FALSE /\ cl' = telnet_send(cl, "BACK", None)
     \/ ~away /\ atract /\ away' = TRUE /\ cl' = telnet_send(cl, "AWAY", None)
     \/ ~(away /\ typing /\ ~atract) /\ ~(~away /\ atract) /\ UNCHANGED <<away, cl>>
  /\ UNCHANGED <<sess, done, flags, typing, atract, regTimer, tstate, env>>

(* Phase register: NICK and USER go out once, a second after the           *)
(* connection was established, and the line being typed is forgotten.      *)
Register ==
  /\ phase = "register" /\ phase' = "check"
  /\ IF connected /\ ~nick_registered /\ regTimer = "expired"
     THEN /\ cl' = telnet_send(cl, "REG", cl.nick)
          /\ typing' = FALSE /\ nick_registered' = TRUE
     ELSE UNCHANGED <<cl, typing, nick_registered>>
  /\ UNCHANGED <<sess, done, connected, away, atract, regTimer, tstate, env>>

(* The condition of the loop, and what follows it. *)
Check ==
  /\ phase = "check"
  /\ IF done
     THEN /\ phase' = "prompt"
          /\ connected' = FALSE /\ nick_registered' = FALSE
          /\ cl' = [cl EXCEPT !.joined_channel = FALSE]
     ELSE phase' = "net" /\ UNCHANGED <<flags, cl>>
  /\ UNCHANGED <<sess, done, away, typing, atract, regTimer, tstate, env>>

-------------------------------------------------------------------------------
(***************************************************************************)
(* The rest of the world, as far as it does not wait for uip_input to      *)
(* return.                                                                 *)
(***************************************************************************)
LoopUnchanged ==
  phase # "lines" /\ UNCHANGED <<sess, phase, done, flags, away, typing, tstate>>

(* The last message of these kinds is msgs[i]. *)
LastOf(msgs, kinds, i) ==
  msgs[i][1] \in kinds /\ \A j \in i + 1..Len(msgs) : msgs[j][1] \notin kinds

(* The nick the server knows the client by, if any, after the messages.    *)
NickIn(msgs) == {msgs[i][2] : i \in {k \in 1..Len(msgs) : LastOf(msgs, {"NICK", "REG"}, k)}}

(* The pending message reaches the server.  If serv_msg_buf was written    *)
(* again, that depends on what had left before.  The server may not accept *)
(* a nick; its error message is only shown.                                *)
Arrive ==
  /\ link = "open" /\ cl.text # None /\ ~cl.arrived
  /\ \/ /\ \E m \in {cl.text} \cup IF cl.mangled THEN {Garbled} ELSE {} : got' = Append(got, m)
        /\ cl' = [cl EXCEPT !.arrived = TRUE]
     \/ /\ cl.text[1] = "NICK" /\ UNCHANGED got
        /\ cl' = [cl EXCEPT !.arrived = TRUE, !.harm = @ \cup {"nickTaken"}]
  /\ UNCHANGED <<atract, regTimer, link, lines, said>> /\ LoopUnchanged

(* The server sends a line; the MOTD ends for registered clients only.     *)
(* The tokens of its PINGs are ascending.                                  *)
ServerLine ==
  /\ link = "open" /\ said < MaxLines
  /\ \/ lines' = Append(lines, <<"PING", said + 1>>)
     \/ \E nick \in NickIn(got) : lines' = Append(lines, <<"CTCP", nick>>)
     \/ /\ \E i \in 1..Len(got) : got[i][1] = "REG"
        /\ lines' = Append(lines, <<"MOTDEND", None>>)
  /\ said' = said + 1
  /\ UNCHANGED <<atract, regTimer, cl, link, got>> /\ LoopUnchanged

TimerExpires ==
  /\ regTimer = "running" /\ regTimer' = "expired"
  /\ UNCHANGED <<atract, cl, env>> /\ LoopUnchanged

AtractOn ==
  /\ ~atract /\ atract' = TRUE /\ cl.calls < MaxSends
  /\ UNCHANGED <<regTimer, cl, env>> /\ LoopUnchanged

-------------------------------------------------------------------------------
Net == Idle \/ telnet_connected \/ Acked \/ NextLine \/ EndOfSegment \/ Closed

Key == NoKey \/ EditKey \/ MacroKey \/ \E line \in Commands : ReturnKey(line)

Loop == Net \/ Key \/ AutoAway \/ Register \/ Check

Next == StartSession \/ Loop \/ Arrive \/ ServerLine \/ TimerExpires \/ AtractOn

Spec == Init /\ [][Next]_vars

-------------------------------------------------------------------------------
(***************************************************************************)
(* Properties.                                                             *)
(***************************************************************************)
Client ==
  [joined_channel : BOOLEAN, channel : Channels \cup {None}, nick : Nicks,
   text : Message \cup {None}, arrived : BOOLEAN, mangled : BOOLEAN,
   sent : Seq(Message), calls : Nat, pings : SUBSET Nat,
   harm : SUBSET {"refused", "lost", "autojoin", "stillAway", "nickTaken"}]

(* The type of every variable. *)
TypeOK ==
  /\ sess \in 0..MaxSessions
  /\ phase \in {"prompt", "net", "lines", "key", "away", "register", "check"}
  /\ done \in BOOLEAN /\ connected \in BOOLEAN /\ nick_registered \in BOOLEAN
  /\ away \in BOOLEAN /\ typing \in BOOLEAN /\ atract \in BOOLEAN /\ tstate \in BOOLEAN
  /\ regTimer \in {"running", "expired"}
  /\ cl \in Client
  /\ link \in {"closed", "opening", "open"}
  /\ got \in Seq(Message)
  /\ lines \in Seq(({"PING"} \X Nat) \cup ({"CTCP"} \X Nicks) \cup {<<"MOTDEND", None>>})
  /\ said \in 0..MaxLines

(* The channels the server is asked for by a sequence of messages: those   *)
(* joined and not left since.                                              *)
AskedBy(msgs) ==
  {msgs[i][2] : i \in {k \in 1..Len(msgs) :
     /\ msgs[k][1] = "JOIN"
     /\ \A j \in k + 1..Len(msgs) : msgs[j] # <<"PART", msgs[k][2]>> /\ msgs[j][1] # "QUIT"}}

SaysAway(msgs) == \E i \in 1..Len(msgs) : msgs[i][1] = "AWAY" /\ LastOf(msgs, {"AWAY", "BACK"}, i)

Settled == connected /\ cl.harm = {} /\ cl.text = None

(* As long as every message was taken and no automatic join crossed one of *)
(* the user's, the client's idea of its channel is what it has asked of    *)
(* the server, whatever the order of commands and of the server's lines.   *)
ChannelAgreed == Settled => AskedBy(got) = IF cl.joined_channel THEN {cl.channel} ELSE {}

(* Likewise for auto-away. *)
AwayAgreed == Settled => (SaysAway(got) <=> away)

(* And for the nick, over /nick and registration, also that of a later     *)
(* session: when the server knows the client, it is by the nick that the   *)
(* client goes by and answers to.                                          *)
NickAgreed == Settled => NickIn(got) \subseteq {cl.nick}

(* So the client and the server agree, on all three.                       *)
AgreesWithServer == ChannelAgreed /\ AwayAgreed /\ NickAgreed

(* Only PINGs that were sent are answered: each at most once, in order,    *)
(* even when some are not.                                                 *)
PongsAnswerPings ==
  \A i \in 1..Len(got) : got[i][1] = "PONG" =>
    /\ got[i][2] <= said
    /\ \A j \in i + 1..Len(got) : got[j][1] = "PONG" => got[i][2] < got[j][2]

Registrations(msgs) == {i \in 1..Len(msgs) : msgs[i][1] = "REG"}

(* The client registers once per connection, and nothing is lost: while    *)
(* every message is taken, the registration is among them.                 *)
RegisteredOnce ==
  cl.harm = {} /\ connected => /\ nick_registered <=> Registrations(cl.sent) # {}
                              /\ \A i, j \in Registrations(cl.sent) : i = j

(* Answers and the registration go out no more often than they are due.    *)
SentOnce == PongsAnswerPings /\ RegisteredOnce

(* What the client assumes of its connection is what MessageChannel        *)
(* promises, and TelnetConn provides.                                      *)
Slot == INSTANCE MessageChannel WITH
          open <- link = "open",
          busy <- link = "open" /\ cl.text # None,
          sent <- cl.sent

SlotIsChannel ==
  Slot!Init /\ [][cl'.harm = {} => Slot!Next \/ UNCHANGED Slot!cvars]_vars

(* The manual has it that the client answers the server's PINGs: every     *)
(* PING that was read has its PONG among the messages taken.               *)
EveryPingAnswered == \A k \in cl.pings : \E i \in 1..Len(cl.sent) : cl.sent[i] = <<"PONG", k>>

(* The manual has it that joining a second channel before parting the      *)
(* first will fail: once the client is registered, the server is never     *)
(* asked for two.                                                          *)
OneChannel ==
  \A i \in 1..Len(got) : got[i][1] = "REG" =>
    \A c, d \in AskedBy(SubSeq(got, i, Len(got))) : c = d
===============================================================================
