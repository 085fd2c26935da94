-------------------------------- MODULE Telnetd -------------------------------
(***************************************************************************)
(* The telnet server of uip/apps/telnetd/telnetd.c with its shell          *)
(* (shell.c) and the memory blocks its output lines are kept in            *)
(* (lib/memb.c).                                                           *)
(*                                                                         *)
(* There is one struct telnetd_state for all connections.  A new client    *)
(* connects when no other is open; one that has closed may still be in     *)
(* LAST_ACK or in the FIN_WAIT states, and uIP tells of it once more.      *)
(***************************************************************************)
EXTENDS Naturals, SequencesExt

CONSTANTS
  NUMLINES,   \* TELNETD_CONF_NUMLINES: blocks, and entries of s.lines
  LINELEN,    \* TELNETD_CONF_LINELEN
  PerSegment, \* lines that fit in a segment
  HelpLines,  \* lines that "help" puts out
  Segments,   \* what clients send: sequences of characters
  MaxClients, \* bound: connections
  MaxMade     \* bound: lines put out when a client sends

ASSUME TelnetdAssumption ==
  /\ {NUMLINES, LINELEN, PerSegment, HelpLines, MaxClients, MaxMade} \subseteq Nat \ {0}
  /\ \A chars \in Segments : chars \in Seq(STRING)

VARIABLES
  s,       \* struct telnetd_state; first: the first character of s.buf
  linemem, \* the blocks: their use counts, and the number of the line in each
  made,    \* the number of the line put out last
  tcp,     \* the connection of each client, the lines in transit, those received
  crowded, \* history: new data came in while lines were in transit
  mixed,   \* history: a client connected before an earlier one was over
  ignored  \* history: an end of the connection came in STATE_CLOSE

telnetdVars == <<s, linemem, made, tcp, crowded, mixed, ignored>>

Clients == 1..MaxClients
Blocks  == 1..NUMLINES   \* 0 is NULL

TelnetdInit ==
  /\ s = [lines |-> [i \in Blocks |-> 0], numsent |-> 0, state |-> "NORMAL", bufptr |-> 0,
          first |-> "nl"]
  /\ linemem = [count |-> [b \in Blocks |-> 0], text |-> [b \in Blocks |-> 0]]
  /\ made = 0
  /\ tcp = [c \in Clients |-> [st |-> "none", transit |-> <<>>, got |-> <<>>]]
  /\ crowded = FALSE /\ mixed = FALSE /\ ignored = FALSE

-------------------------------------------------------------------------------
(* What telnetd works on: its state, the memory and the last line.         *)
Works == [s |-> s, linemem |-> linemem, made |-> made]

memb_alloc(w) == {b \in Blocks : w.linemem.count[b] = 0}

(* The blocks B are given back; free ones stay free. *)
memb_free(w, B) == [w EXCEPT !.linemem.count = [b \in Blocks |-> IF b \in B THEN 0 ELSE @[b]]]

(* A line in the first free block becomes the last of s.lines; it is       *)
(* dropped if there is no block or no place.                               *)
sendline(w) ==
  LET free  == memb_alloc(w)
      empty == {i \in Blocks : w.s.lines[i] = 0}
  IN  IF free = {} \/ empty = {} THEN w
      ELSE [w EXCEPT !.linemem.count[Min(free)] = 1, !.linemem.text[Min(free)] = w.made + 1,
                     !.made = @ + 1, !.s.lines[Min(empty)] = Min(free)]

shell_output(w, n) ==
  LET out[i \in 0..n] == IF i = 0 THEN w ELSE sendline(out[i - 1]) IN out[n]

(* A command; whatever it is, the prompt follows. *)
shell_input(w, cmd) ==
  sendline(CASE cmd = "help" -> shell_output(w, HelpLines)
             [] cmd = "exit" -> [w EXCEPT !.s.state = "CLOSE"]
             [] OTHER        -> shell_output(w, 1))

shell_start(w) == shell_output(w, 3)

-------------------------------------------------------------------------------
(* Mutant: the blocks are given back, the lines stay in the list. *)
acked_NoShift(w) ==
  [memb_free(w, {w.s.lines[i] : i \in 1..w.s.numsent}) EXCEPT !.s.numsent = 0]

(* The lines sent last are acknowledged. *)
acked(w) ==
  LET n == w.s.numsent
  IN  [memb_free(w, {w.s.lines[i] : i \in 1..n}) EXCEPT
         !.s.lines = [i \in Blocks |-> IF i + n \in Blocks THEN @[i + n] ELSE 0],
         !.s.numsent = 0]

(* s.lines keeps its pointers. *)
closed(w) == memb_free(w, {w.s.lines[i] : i \in Blocks})

(* As many lines as fit, from the first. *)
senddata(w) ==
  LET used == Min({i \in Blocks : w.s.lines[i] = 0} \cup {NUMLINES + 1}) - 1
  IN  [w EXCEPT !.s.numsent = Min({used, PerSegment})]

(* Mutant: the buffer may be filled with one character more. *)
get_char_Late(w, c) ==
  LET first == IF w.s.bufptr = 0 THEN c ELSE w.s.first
  IN  CASE c = "cr" -> w
        [] c # "cr" /\ (c = "nl" \/ w.s.bufptr = LINELEN) ->
             [shell_input(w, first) EXCEPT !.s.bufptr = 0, !.s.first = first]
        [] OTHER -> [w EXCEPT !.s.bufptr = @ + 1, !.s.first = first]

(* A line ends with a newline or when the buffer is full.  An empty one is *)
(* not terminated: it is a newline and what is left behind it.             *)
get_char(w, c) ==
  LET first == IF w.s.bufptr = 0 THEN c ELSE w.s.first
  IN  CASE c = "cr" -> w
        [] c # "cr" /\ (c = "nl" \/ w.s.bufptr = LINELEN - 1) ->
             [shell_input(w, first) EXCEPT !.s.bufptr = 0, !.s.first = first]
        [] OTHER -> [w EXCEPT !.s.bufptr = @ + 1, !.s.first = first]

(* One character: option negotiation, which is refused, or text.  In       *)
(* STATE_CLOSE nothing is looked at.                                       *)
TakeChar(w, c) ==
  CASE w.s.state = "NORMAL" /\ c = "iac" -> [w EXCEPT !.s.state = "IAC"]
    [] w.s.state = "NORMAL" /\ c # "iac" -> get_char(w, c)
    [] w.s.state = "IAC" /\ c = "iac"    -> [get_char(w, c) EXCEPT !.s.state = "NORMAL"]
    [] w.s.state = "IAC" /\ c # "iac"    -> [w EXCEPT !.s.state = IF c = "will" THEN "WILL"
                                                                  ELSE "NORMAL"]
    [] w.s.state = "WILL"                -> [sendline(w) EXCEPT !.s.state = "NORMAL"]
    [] OTHER                             -> w

newdata(w, chars) ==
  LET read[i \in 0..Len(chars)] == IF i = 0 THEN w ELSE TakeChar(read[i - 1], chars[i])
  IN  read[Len(chars)]

-------------------------------------------------------------------------------
(* What the connection is left with after telnetd has sent its lines: what *)
(* was in transit is sent again and no more, unless it was acknowledged.   *)
Sent(t, w, ev) ==
  LET lines == [i \in 1..Min({w.s.numsent, PerSegment}) |-> w.linemem.text[w.s.lines[i]]]
  IN  [t EXCEPT !.transit = IF @ = <<>> \/ "acked" \in ev THEN lines ELSE @,
                !.got = IF "acked" \in ev THEN t.got \o t.transit ELSE @]

Ends == {"closed", "aborted", "timedout"}

(* In STATE_CLOSE the event is not looked at.  uip_close is ignored in a   *)
(* retransmission, and of no use when the connection is over.              *)
AppcallClosing(c, ev) ==
  /\ s.state = "CLOSE"
  /\ s' = [s EXCEPT !.state = "NORMAL"]
  /\ tcp' = [tcp EXCEPT ![c].st = IF ev = {"rexmit"} THEN @ ELSE
                                  IF ev \cap Ends # {} THEN "over" ELSE "closing",
                        ![c].transit = IF ev = {"rexmit"} THEN @ ELSE <<>>]
  /\ ignored' = (ignored \/ ev \cap Ends # {})
  /\ UNCHANGED <<linemem, made, crowded, mixed>>

telnetd_appcall(c, ev, chars, st) ==
  LET w1 == IF ev \cap Ends # {} THEN closed(Works) ELSE Works
      w2 == IF "acked" \in ev THEN acked(w1) ELSE w1
      w3 == IF "newdata" \in ev THEN newdata(w2, chars) ELSE w2
      sends == ev \cap {"rexmit", "newdata", "acked", "poll"} # {}
      w4 == IF sends THEN senddata(w3) ELSE w3
  IN  /\ s.state # "CLOSE"
      /\ s' = w4.s /\ linemem' = w4.linemem /\ made' = w4.made
      /\ tcp' = [tcp EXCEPT ![c] = [(IF sends THEN Sent(@, w4, ev) ELSE @) EXCEPT !.st = st]]
      /\ crowded' = (crowded \/ ("newdata" \in ev /\ "acked" \notin ev /\ tcp[c].transit # <<>>))
      /\ UNCHANGED <<mixed, ignored>>

(* A client has connected. *)
Connected(c) ==
  LET w == [Works EXCEPT !.s.lines = [i \in Blocks |-> 0], !.s.bufptr = 0, !.s.state = "NORMAL"]
      v == senddata(shell_start(w))
  IN  /\ tcp[c].st = "none" /\ \A d \in Clients : tcp[d].st # "open" /\ (d < c => tcp[d].st # "none")
      /\ s' = v.s /\ linemem' = v.linemem /\ made' = v.made
      /\ tcp' = [tcp EXCEPT ![c] = [Sent(@, v, {}) EXCEPT !.st = "open"]]
      /\ mixed' = (mixed \/ \E d \in Clients : tcp[d].st \in {"lastack", "closing"})
      /\ crowded' = FALSE /\ UNCHANGED ignored

Appcall(c, ev, chars, st) ==
  AppcallClosing(c, ev) \/ telnetd_appcall(c, ev, chars, st)

(* uIP tells of an acknowledgement, of new data, or of both; of a          *)
(* retransmission, or that there is nothing to tell.                       *)
Told(c) ==
  /\ tcp[c].st = "open"
  /\ \/ tcp[c].transit # <<>> /\ Appcall(c, {"acked"}, <<>>, "open")
     \/ tcp[c].transit # <<>> /\ Appcall(c, {"rexmit"}, <<>>, "open")
     \/ tcp[c].transit = <<>> /\ Appcall(c, {"poll"}, <<>>, "open")
     \/ \E chars \in Segments :
          made <= MaxMade /\ Appcall(c, {"newdata"}, chars, "open")
     \/ \E chars \in Segments :
          made <= MaxMade /\ tcp[c].transit # <<>> /\ Appcall(c, {"acked", "newdata"}, chars, "open")

(* It is told of a close twice, the second time in LAST_ACK; of a close    *)
(* after its own; of a reset and a timeout once, at any time.              *)
ToldOfEnd(c) ==
  \/ tcp[c].st = "open"    /\ Appcall(c, {"closed"}, <<>>, "lastack")
  \/ tcp[c].st = "lastack" /\ Appcall(c, {"closed"}, <<>>, "over")
  \/ tcp[c].st = "closing" /\ Appcall(c, {"closed"}, <<>>, "over")
  \/ \E e \in {"aborted", "timedout"} :
       tcp[c].st \in {"open", "lastack", "closing"} /\ Appcall(c, {e}, <<>>, "over")

TelnetdNext == \E c \in Clients : Connected(c) \/ Told(c) \/ ToldOfEnd(c)

TelnetdSpec == TelnetdInit /\ [][TelnetdNext]_telnetdVars

-------------------------------------------------------------------------------
(* The type of every variable. *)
TelnetdTypeOK ==
  /\ s.lines \in [Blocks -> Blocks \cup {0}] /\ s.numsent \in 0..PerSegment
  /\ s.state \in {"NORMAL", "IAC", "WILL", "CLOSE"} /\ s.bufptr \in 0..LINELEN - 1
  /\ linemem.count \in [Blocks -> 0..1] /\ linemem.text \in [Blocks -> 0..made]
  /\ \A c \in Clients : /\ tcp[c].st \in {"none", "open", "lastack", "closing", "over"}
                        /\ Range(tcp[c].transit) \cup Range(tcp[c].got) \subseteq 1..made

Open  == {c \in Clients : tcp[c].st = "open"}
Kept  == {s.lines[i] : i \in Blocks} \ {0}

(* While a client is connected, every line that is to be sent to it has a  *)
(* block of its own, and no block is lost to everybody: but when an        *)
(* earlier client's end is told late, or was not looked at.                *)
BlocksAreOwned ==
  Open # {} /\ ~mixed /\ ~ignored =>
    /\ \A i, j \in Blocks : i # j /\ s.lines[i] # 0 => s.lines[i] # s.lines[j]
    /\ Kept = {b \in Blocks : linemem.count[b] = 1}

(* What a client gets are lines in the order they were put out, none of    *)
(* them twice, whatever is sent again and whatever other clients do.       *)
LinesInTurn ==
  \A c \in Clients : ~mixed =>
    LET seen == tcp[c].got \o tcp[c].transit
    IN  \A i, j \in 1..Len(seen) : i < j => seen[i] < seen[j]

(* No line is given up unsent: the lines that an acknowledgement will free *)
(* are those in transit, unless new data came in while there were any.     *)
FreedAreSent ==
  \A c \in Open :
    ~crowded /\ ~mixed /\ s.state # "CLOSE" /\ tcp[c].transit # <<>> => s.numsent = Len(tcp[c].transit)

(* The output of the shell reaches the client it is for, line after line.  *)
OutputInTurn == BlocksAreOwned /\ LinesInTurn /\ FreedAreSent

(* shell.h says that shell_output is for outputting a string in the shell  *)
(* window: the same with no exception for new data.                        *)
OutputIsSent ==
  \A c \in Open :
    ~mixed /\ s.state # "CLOSE" /\ tcp[c].transit # <<>> => s.numsent = Len(tcp[c].transit)
===============================================================================
