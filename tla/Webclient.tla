------------------------------- MODULE Webclient ------------------------------
(***************************************************************************)
(* The web client of uip/apps/webclient/webclient.c over the connections   *)
(* of uIP.  There is one struct webclient_state, however many connections  *)
(* there are: a redirection opens the next one while the last still waits  *)
(* for the acknowledgement of its FIN, when uIP tells of the end again.    *)
(*                                                                         *)
(* A response is a sequence of words: "nl" ends a line, "cr" begins the    *)
(* empty one.  A connection has the words still to come (resp), the part   *)
(* of the request in transit (out, 0 for none) and the parts that came to  *)
(* the server (asked).                                                     *)
(***************************************************************************)
EXTENDS Naturals, SequencesExt

CONSTANTS
  Hosts, Known,  \* hosts, and those in the resolver's table from the start
  Response,      \* what each sends
  Location,      \* the host that a word of a location header names
  WebRequest,    \* segments that a request takes
  LineRoom,      \* words that fit in s.httpheaderline
  WEBCLIENT_TIMEOUT, TimerValues, \* 100, and the values of s.timer: 256
  WebConns,      \* bound: connections
  WebSegment     \* bound: words in a segment

ASSUME WebclientAssumption ==
  /\ Known \subseteq Hosts /\ Known # {}
  /\ DOMAIN Response = Hosts /\ \A h \in Hosts : Response[h] \in Seq(STRING)
  /\ "cr" \notin DOMAIN Location /\ \A l \in DOMAIN Location : Location[l] \in Hosts
  /\ WEBCLIENT_TIMEOUT < TimerValues
  /\ {WebRequest, LineRoom, WEBCLIENT_TIMEOUT, TimerValues, WebConns, WebSegment} \subseteq Nat \ {0}

VARIABLES
  wc,     \* struct webclient_state
  tcps,   \* the connections
  known,  \* the resolver's table
  told,   \* history: the callback that was called last
  got,    \* history: what webclient_datahandler was given of each connection
  twice   \* history: a connection's end was told again beside another connection

webVars == <<wc, tcps, known, told, got, twice>>

Tcps == 1..WebConns
Conn(st, host) == [st |-> st, host |-> host, resp |-> Response[host], out |-> 0, asked |-> <<>>]
Over(i) == tcps[i].st \in {"none", "over"}

WebInit ==
  /\ wc = [state |-> "STATUSLINE", httpflag |-> "NONE", host |-> CHOOSE h \in Known : TRUE,
           line |-> <<>>, left |-> 0, ptr |-> 0, timer |-> 0]
  /\ tcps = [i \in Tcps |-> Conn("none", CHOOSE h \in Hosts : TRUE)]
  /\ known = Known /\ told = "none" /\ got = [i \in Tcps |-> <<>>] /\ twice = FALSE

-------------------------------------------------------------------------------
(* A call works on w: the state, the connections, the callbacks, whether   *)
(* uip_send and uip_abort were called.                                     *)
WebWork == [wc |-> wc, tcps |-> tcps, told |-> told, data |-> <<>>, sends |-> FALSE, ends |-> FALSE]

Tells(w, what) == [w EXCEPT !.told = what]
Aborts(w) == [w EXCEPT !.ends = TRUE]

init_connection(st) ==
  [st EXCEPT !.state = "STATUSLINE", !.left = WebRequest, !.ptr = 0, !.line = <<>>]

(* Nothing happens if the host is not known or no connection is free. *)
webclient_get(w, host) ==
  LET free == {i \in Tcps : w.tcps[i].st = "none"}
  IN  IF host \notin known \/ free = {} THEN w
      ELSE [w EXCEPT !.wc = init_connection([@ EXCEPT !.host = host]),
                     !.tcps[CHOOSE i \in free : \A j \in free : i <= j] = Conn("syn", host)]

webclient_senddata(w) == IF w.wc.left > 0 THEN [w EXCEPT !.sends = TRUE] ELSE w

webclient_acked(w) == IF w.wc.left > 0 THEN [w EXCEPT !.wc.left = @ - 1, !.wc.ptr = @ + 1] ELSE w

(* The first line is over. *)
parse_statusline(w) ==
  CASE w.wc.line # <<>> /\ w.wc.line[1] \in {"200", "301", "error"} ->
         [w EXCEPT !.wc.state = "HEADERS", !.wc.line = <<>>,
                   !.wc.httpflag = CASE w.wc.line[1] = "200" -> "OK"
                                     [] w.wc.line[1] = "301" -> "MOVED"
                                     [] OTHER                -> "NONE"]
    [] OTHER -> Aborts(Tells(w, "aborted"))

(* A header line is over; the empty line is the last one. *)
parse_headers(w) ==
  CASE w.wc.line # <<>> /\ w.wc.line[1] = "cr" -> [w EXCEPT !.wc.state = "DATA"]
    [] w.wc.line # <<>> /\ w.wc.line[1] \in DOMAIN Location ->
         [w EXCEPT !.wc.host = Location[w.wc.line[1]], !.wc.line = <<>>]
    [] OTHER -> [w EXCEPT !.wc.line = <<>>]

(* newdata: a word goes to the line, which is parsed when it is complete,  *)
(* or to the data handler.  Once a line fills its buffer nothing that      *)
(* follows is read.                                                        *)
TakeWord(w, word) ==
  CASE w.ends -> w
    [] ~w.ends /\ w.wc.state = "DATA" ->
         IF w.wc.httpflag = "MOVED" THEN w ELSE [w EXCEPT !.data = Append(@, word)]
    [] ~w.ends /\ w.wc.state # "DATA" /\ Len(w.wc.line) = LineRoom -> w
    [] OTHER ->
         IF word # "nl" THEN [w EXCEPT !.wc.line = Append(@, word)]
         ELSE IF w.wc.state = "STATUSLINE" THEN parse_statusline(w) ELSE parse_headers(w)

webclient_newdata(w, words) ==
  LET read[n \in 0..Len(words)] == IF n = 0 THEN w ELSE TakeWord(read[n - 1], words[n])
  IN  read[Len(words)]

(* The other side has closed. *)
closed_by_server(w) == IF w.wc.httpflag # "MOVED" THEN Tells(w, "eof") ELSE webclient_get(w, w.wc.host)

(* The timer is compared for equality and has a byte: when it has timed out*)
(* one connection it must come round before it does another.               *)
polled(w) ==
  LET timer == (w.wc.timer + 1) % TimerValues
  IN  IF timer = WEBCLIENT_TIMEOUT THEN [Aborts(Tells(w, "timedout")) EXCEPT !.wc.timer = timer]
      ELSE [w EXCEPT !.wc.timer = timer]

(* The order of the tests in webclient_appcall; uip_abort clears the other *)
(* flags, so nothing follows it.                                           *)
webclient_appcall(ev, words) ==
  LET fresh == IF ev \cap {"acked", "newdata"} # {} THEN [WebWork EXCEPT !.wc.timer = 0] ELSE WebWork
      ended == CASE "abort" \in ev    -> Tells(fresh, "aborted")
                 [] "timedout" \in ev -> Tells(fresh, "timedout")
                 [] OTHER             -> fresh
      read  == webclient_newdata(IF "acked" \in ev THEN webclient_acked(ended) ELSE ended, words)
      sent  == CASE read.ends                                    -> read
                 [] ~read.ends /\ ev \cap {"rexmit", "newdata", "acked"} # {} -> webclient_senddata(read)
                 [] ~read.ends /\ "poll" \in ev                  -> polled(read)
                 [] OTHER                                        -> read
  IN  CASE "connected" \in ev ->
             webclient_senddata(Tells([WebWork EXCEPT !.wc.timer = 0, !.wc.state = "STATUSLINE"], "connected"))
        [] "connected" \notin ev /\ wc.state = "CLOSE" -> Aborts(Tells(WebWork, "closed"))
        [] OTHER -> IF "close" \in ev /\ ~sent.ends THEN closed_by_server(sent) ELSE sent

-------------------------------------------------------------------------------
(* uIP tells connection i of ev and n words, and goes on to st, unless the *)
(* application aborts a connection that it may.                            *)
Event(i, ev, n, st) ==
  \E w \in {webclient_appcall(IF n = 0 THEN ev ELSE ev \cup {"newdata"},
                              SubSeq(tcps[i].resp, 1, n))} :
    /\ wc' = w.wc /\ told' = w.told
    /\ got' = [got EXCEPT ![i] = @ \o w.data]
    /\ tcps' = [w.tcps EXCEPT ![i] =
         IF st = "over" \/ (w.ends /\ st = "est") THEN [@ EXCEPT !.st = "over", !.resp = <<>>,
                                                          !.asked = <<>>, !.out = 0]
         ELSE [st    |-> st,
               host  |-> @.host,
               resp  |-> SubSeq(@.resp, n + 1, Len(@.resp)),
               asked |-> IF "acked" \in ev THEN Append(@.asked, @.out) ELSE @.asked,
               out   |-> CASE st # "est" \/ (~w.sends /\ "acked" \in ev) -> 0
                           [] st = "est" /\ w.sends /\
                                (@.out = 0 \/ ev \cap {"acked", "rexmit"} # {}) -> w.wc.ptr + 1
                           [] OTHER -> @.out]]
    /\ UNCHANGED known

SegmentOf(i) == {n \in 0..WebSegment : n <= Len(tcps[i].resp)}

Get(host) ==
  /\ \A i \in Tcps : Over(i)
  /\ \E w \in {webclient_get([WebWork EXCEPT !.told = "none"], host)} :
       wc' = w.wc /\ tcps' = w.tcps /\ told' = w.told
  /\ got' = [i \in Tcps |-> <<>>]
  /\ UNCHANGED <<known, twice>>

webclient_close ==
  /\ \E i \in Tcps : ~Over(i)
  /\ wc' = [wc EXCEPT !.state = "CLOSE"]
  /\ UNCHANGED <<tcps, known, told, got, twice>>

SynAcked(i) ==
  tcps[i].st = "syn" /\ Event(i, {"connected"}, 0, "est") /\ UNCHANGED twice

RequestAcked(i) ==
  /\ tcps[i].st = "est" /\ tcps[i].out > 0
  /\ \E n \in SegmentOf(i) : Event(i, {"acked"}, n, "est")
  /\ UNCHANGED twice

ResponseComes(i) ==
  /\ tcps[i].st = "est"
  /\ \E n \in SegmentOf(i) \ {0} : Event(i, {}, n, "est")
  /\ UNCHANGED twice

Rexmit(i) ==
  tcps[i].st = "est" /\ tcps[i].out > 0 /\ Event(i, {"rexmit"}, 0, "est") /\ UNCHANGED twice

Poll(i) ==
  tcps[i].st = "est" /\ tcps[i].out = 0 /\ Event(i, {"poll"}, 0, "est") /\ UNCHANGED twice

(* The server's FIN, perhaps with data; it is not taken before what is in  *)
(* transit is acknowledged.                                                *)
FinComes(i) ==
  /\ tcps[i].st = "est"
  /\ \E n \in SegmentOf(i) :
       \/ tcps[i].out = 0 /\ Event(i, {"close"}, n, "lastack")
       \/ tcps[i].out > 0 /\ Event(i, {"acked", "close"}, n, "lastack")
  /\ UNCHANGED twice

(* The FIN of this side is acknowledged. *)
LastAcked(i) ==
  /\ tcps[i].st = "lastack"
  /\ Event(i, {"close"}, 0, "over")
  /\ twice' = (twice \/ \E j \in Tcps \ {i} : ~Over(j))

(* uIP gives up a connection that does not answer. *)
TimesOut(i) ==
  /\ tcps[i].st \in {"syn", "lastack"} \/ (tcps[i].st = "est" /\ tcps[i].out > 0)
  /\ Event(i, {"timedout"}, 0, "over")
  /\ UNCHANGED twice

Reset(i) == ~Over(i) /\ Event(i, {"abort"}, 0, "over") /\ UNCHANGED twice

(* The query of a redirection is answered; nobody is told but resolv_found.*)
Resolved(h) ==
  /\ h \notin known /\ wc.host = h
  /\ known' = known \cup {h}
  /\ UNCHANGED <<wc, tcps, told, got, twice>>

WebNext ==
  \/ \E h \in Hosts : Get(h) \/ Resolved(h)
  \/ webclient_close
  \/ \E i \in Tcps :
       \/ SynAcked(i) \/ RequestAcked(i) \/ ResponseComes(i) \/ Rexmit(i) \/ Poll(i)
       \/ FinComes(i) \/ LastAcked(i) \/ TimesOut(i) \/ Reset(i)

WebSpec ==
  WebInit /\ [][WebNext]_webVars /\ \A i \in Tcps : WF_webVars(Poll(i)) /\ WF_webVars(TimesOut(i))

-------------------------------------------------------------------------------
(* What ends the headers: a newline behind a line, not the first one, that *)
(* begins with "cr".  The data is what follows the first of them.          *)
HeadersEnd(resp) ==
  {k \in 1..Len(resp) : resp[k] = "nl" /\ \E j \in 2..k - 1 : resp[j - 1] = "nl" /\ resp[j] = "cr"}

Body(resp) ==
  IF HeadersEnd(resp) = {} THEN <<>> ELSE SubSeq(resp, Min(HeadersEnd(resp)) + 1, Len(resp))

(* Type invariant; the line never outgrows its buffer. *)
WebTypeOK ==
  /\ wc.state \in {"STATUSLINE", "HEADERS", "DATA", "CLOSE"}
  /\ wc.httpflag \in {"NONE", "OK", "MOVED"}
  /\ wc.host \in Hosts /\ known \subseteq Hosts
  /\ Len(wc.line) <= LineRoom /\ wc.timer < TimerValues
  /\ wc.left \in 0..WebRequest /\ wc.left + wc.ptr \in {0, WebRequest}
  /\ told \in {"none", "connected", "eof", "closed", "aborted", "timedout"}

(* However the response is cut, the data handler is called only for data,  *)
(* not for headers (webclient.h), in order and without a gap, unless the   *)
(* end of an earlier connection was told again in between.                 *)
OnlyData ==
  ~twice => \A i \in Tcps : IsPrefix(got[i], Body(Response[tcps[i].host]))

(* The server gets the request's parts in order and without a gap, unless  *)
(* the same happened (acked's getrequestptr is shared).                    *)
RequestInOrder ==
  ~twice => \A i \in Tcps : tcps[i].asked = [k \in DOMAIN tcps[i].asked |-> k]

(* webclient.h says that webclient_timedout is called if the server could  *)
(* not be contacted, and names a callback for every other end: when all    *)
(* connections are over the user has been told of an end.                  *)
AlwaysTold ==
  (\E i \in Tcps : tcps[i].st = "over") /\ (\A i \in Tcps : Over(i)) => told # "connected"

(* A server that says nothing more does not keep a connection: the polls   *)
(* or the retransmissions end it (webclient_appcall's timer).              *)
ConnectionEnds == \A i \in Tcps : tcps[i].st = "est" ~> tcps[i].st # "est"
===============================================================================
