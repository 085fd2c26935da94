--------------------------------- MODULE Httpd --------------------------------
(***************************************************************************)
(* The web server of uip/apps/webserver: httpd.c, httpd-cgi.c, httpd-fs.c, *)
(* on the protosockets of uip/psock.c, with one connection of uIP.         *)
(*                                                                         *)
(* Requests and file names are sequences of words; "sp" and "nl" are the   *)
(* space and the newline.  A file is a sequence of parts that each fit in  *)
(* a segment; a part of a script is text, another file that is included,   *)
(* or a call of a function that writes a number of rows.  Other packets    *)
(* may overwrite uip_buf between two calls.                                *)
(***************************************************************************)
EXTENDS Protosocket, FiniteSetsExt

CONSTANTS
  Files,       \* the list of files: [name, script, parts]
  Index,       \* http_index_html
  NotFound,    \* http_404_html
  HeaderParts, \* segments that a status header takes
  Room,        \* words that fit in s.inputbuf
  IDLE_MAX,    \* polls until the connection is aborted
  UIP_MAXRTX,
  Requests     \* what clients send

Parts ==
  [is : {"text"}] \cup [is : {"include"}, of : Seq(STRING)] \cup [is : {"call"}, rows : Nat]

ASSUME HttpdAssumption ==
  /\ {HeaderParts, Room, IDLE_MAX, UIP_MAXRTX} \subseteq Nat \ {0}
  /\ Files \in Seq([name : Seq(STRING), script : BOOLEAN, parts : Seq(Parts)])
  /\ Requests \subseteq Seq(STRING)
  /\ \E i \in DOMAIN Files : Files[i].name = NotFound

VARIABLES
  hs,      \* struct httpd_state: the threads' places (at, piece), the socks, timer
  web,     \* the connection: st, flight (copies of the segment sent last),
           \* unacked, heard (it has come to the client), nrtx, and what the client got
  request, \* what the client has still to send
  uipbuf   \* what was sent last, if it is still at uip_appdata

httpdVars == <<hs, web, request, uipbuf>>

HttpdStart ==
  [at |-> "get", state |-> "WAITING", filename |-> <<>>, piece |-> 1, timer |-> 0,
   sin |-> NewSock, sout |-> NewSock]

HttpdInit ==
  /\ hs = HttpdStart
  /\ web = [st |-> "none", flight |-> {}, unacked |-> FALSE, heard |-> FALSE, nrtx |-> 0,
            got |-> <<>>]
  /\ request = <<>> /\ uipbuf = NoChunk

-------------------------------------------------------------------------------
(* A name matches if the file's name is a prefix of it, or up to the first *)
(* newline in it.                                                          *)
httpd_fs_strcmp(name, f) ==
  \E i \in 1..Len(f) + 1 :
     /\ i = Len(f) + 1 \/ (i <= Len(name) /\ name[i] = "nl")
     /\ \A j \in 1..i - 1 : j <= Len(name) /\ name[j] = f[j]

httpd_fs_open(name) == {i \in DOMAIN Files : httpd_fs_strcmp(name, Files[i].name)}

(* What a script includes is there. *)
ASSUME IncludesAssumption ==
  \A i \in DOMAIN Files : \A n \in DOMAIN Files[i].parts :
    Files[i].parts[n].is = "include" => httpd_fs_open(Files[i].parts[n].of) # {}

Piece(op, id, len) == [op |-> op, id |-> id, len |-> len]

send_file(i) ==
  [n \in DOMAIN Files[i].parts |-> Piece("generate", <<Files[i].name, n>>, 1)]

(* The parts of a script, with what is included and what is called. *)
handle_script(i) ==
  LET item(n) == Files[i].parts[n]
      pieces(n) == CASE item(n).is = "text"    -> <<Piece("send", <<Files[i].name, n>>, 1)>>
                     [] item(n).is = "include" -> send_file(Min(httpd_fs_open(item(n).of)))
                     [] item(n).is = "call"    -> [k \in 1..item(n).rows |->
                                                     Piece("generate", <<<<"row">>, k>>, 1)]
  IN  FlattenSeq([n \in DOMAIN Files[i].parts |-> pieces(n)])

send_headers(status) ==
  <<Piece("send", <<<<"status">>, status>>, HeaderParts), Piece("send", <<<<"type">>, 0>>, 1)>>

(* All that is sent for each file; for a name that is not there, 404. *)
Pages ==
  [i \in DOMAIN Files |->
     send_headers(200) \o (IF Files[i].script THEN handle_script(i) ELSE send_file(i))]

NoPage == send_headers(404) \o send_file(Min(httpd_fs_open(NotFound)))

Page(name) ==
  LET open == httpd_fs_open(name) IN IF open = {} THEN NoPage ELSE Pages[Min(open)]

-------------------------------------------------------------------------------
(* The header lines: all there are, and a part of the next one. *)
ReadHeaders(c, data) ==
  LET ends == {i \in DOMAIN data : data[i] = "nl"}
      last == IF ends = {} THEN data ELSE SubSeq(data, Max(ends) + 1, Len(data))
      sock == [c.sin EXCEPT !.busy = @ /\ ends = {}]
  IN  [c EXCEPT !.sin = psock_readto(sock, last, "nl", Room)]

ReadPath(c, data) ==
  LET r    == psock_readto(c.sin, data, "sp", Room)
      read == [c EXCEPT !.sin = r]
      name == IF r.line[2] = "sp" THEN Index ELSE Front(r.line)
  IN  CASE r.busy -> read
        [] ~r.busy /\ r.line[1] = "/" ->
             ReadHeaders([read EXCEPT !.at = "headers", !.filename = name, !.state = "OUTPUT"],
                         r.unread)
        [] ~r.busy /\ r.line[1] # "/" -> [read EXCEPT !.at = "get", !.ends = "close"]

ReadMethod(c, data) ==
  LET r    == psock_readto(c.sin, data, "sp", Room)
      read == [c EXCEPT !.sin = r]
  IN  CASE r.busy -> read
        [] ~r.busy /\ r.line = <<"GET", "sp">> -> ReadPath([read EXCEPT !.at = "path"], r.unread)
        [] ~r.busy /\ r.line # <<"GET", "sp">> -> [read EXCEPT !.ends = "close"]

handle_input(c, data) ==
  CASE c.at = "get"     -> ReadMethod(c, data)
    [] c.at = "path"    -> ReadPath(c, data)
    [] c.at = "headers" -> ReadHeaders(c, data)

(* The piece that the threads are at is sent, or waited for. *)
SendPiece(c, ev, piece) ==
  LET r == psock_send([c.sout EXCEPT !.seg = c.seg], ev, piece)
  IN  [c EXCEPT !.sout = r, !.seg = r.seg, !.piece = IF r.busy THEN @ ELSE @ + 1]

(* A piece that is begun waits for its acknowledgement, and so the next    *)
(* one is begun, or the connection closed, only behind one that was sent.  *)
handle_output(c, ev) ==
  LET pieces == Page(c.filename)
      d == SendPiece(c, ev, pieces[c.piece])
  IN  CASE d.sout.busy -> d
        [] ~d.sout.busy /\ d.piece <= Len(pieces) -> SendPiece(d, ev, pieces[d.piece])
        [] ~d.sout.busy /\ d.piece > Len(pieces)  -> [d EXCEPT !.piece = 1, !.ends = "close"]

Timed(c, ev) ==
  IF "poll" \in ev
  THEN [c EXCEPT !.timer = @ + 1, !.ends = IF c.timer + 1 >= IDLE_MAX THEN "abort" ELSE @]
  ELSE [c EXCEPT !.timer = 0]

(* What a call works on: the state, the segment at uip_appdata unless new  *)
(* words are there, and whether uip_close or uip_abort was called last.    *)
Work(state, words) ==
  [at |-> state.at, state |-> state.state, filename |-> state.filename, piece |-> state.piece,
   timer |-> state.timer, sin |-> state.sin, sout |-> state.sout,
   seg |-> IF words = <<>> THEN uipbuf ELSE NoChunk, ends |-> "none"]

(* What uIP does after the call: nothing that was sent leaves when the     *)
(* connection is closed or aborted.                                        *)
Answered(d, ev) ==
  /\ hs' = [at |-> d.at, state |-> d.state, filename |-> d.filename, piece |-> d.piece,
            timer |-> d.timer, sin |-> [d.sin EXCEPT !.unread = <<>>],
            sout |-> [d.sout EXCEPT !.seg = NoChunk, !.out = FALSE]]
  /\ uipbuf' = d.seg
  /\ web' =
       [st      |-> CASE d.ends = "close" -> "closed" [] d.ends = "abort" -> "aborted"
                      [] d.ends = "none" -> "open",
        got     |-> IF web.st = "open" THEN web.got ELSE <<>>,
        nrtx    |-> IF "rexmit" \in ev THEN web.nrtx + 1 ELSE 0,
        heard   |-> web.st = "open" /\ "acked" \notin ev /\ web.heard,
        unacked |-> d.ends = "none" /\ (d.sout.out \/ (web.unacked /\ "acked" \notin ev)),
        flight  |-> IF d.ends # "none" THEN {}
                    ELSE (IF "acked" \in ev THEN {} ELSE web.flight)
                           \cup (IF d.sout.out THEN {d.seg} ELSE {})]

(* Input is handled first: it leaves d, and output leaves e. *)
handle_connection(c, ev, words) ==
  \E d \in {handle_input(c, words)} :
  \E e \in {IF d.state = "OUTPUT" THEN handle_output(d, ev) ELSE d} : Answered(e, ev)

httpd_appcall(ev, words) == handle_connection(Timed(Work(hs, words), ev), ev, words)

-------------------------------------------------------------------------------
(* The client sends the next n words. *)
Words(n) == SubSeq(request, 1, n)
TakesUp(n) == n <= Len(request) /\ request' = SubSeq(request, n + 1, Len(request))

httpd_connected(r) ==
  /\ web.st # "open"
  /\ request' = r
  /\ handle_connection(Work(HttpdStart, <<>>), {}, <<>>)

NewData(n) ==
  /\ web.st = "open"
  /\ TakesUp(n)
  /\ httpd_appcall({"newdata"}, Words(n))

(* The segment is acknowledged, perhaps with new data. *)
SegmentAcked(n) ==
  /\ web.st = "open" /\ web.unacked /\ web.heard
  /\ TakesUp(n)
  /\ httpd_appcall({"acked"} \cup (IF n = 0 THEN {} ELSE {"newdata"}), Words(n))

(* The client gets a copy of a segment; only the first one counts. *)
Arrives ==
  /\ web.st = "open" /\ web.unacked
  /\ \E copy \in web.flight :
       web' = [web EXCEPT !.heard = TRUE, !.flight = @ \ {copy},
                          !.got = IF web.heard THEN @ ELSE Append(@, copy)]
  /\ UNCHANGED <<hs, request, uipbuf>>

(* uip_periodic: a retransmission, the end of them, or a poll. *)
uip_periodic ==
  /\ web.st = "open"
  /\ CASE web.unacked /\ web.nrtx < UIP_MAXRTX ->
            httpd_appcall({"rexmit"}, <<>>)
       [] web.unacked /\ web.nrtx = UIP_MAXRTX ->
            web' = [web EXCEPT !.st = "timedout", !.unacked = FALSE, !.flight = {}]
              /\ UNCHANGED <<hs, uipbuf>>
       [] ~web.unacked -> httpd_appcall({"poll"}, <<>>)
  /\ UNCHANGED request

(* The client closes or resets the connection. *)
Gone ==
  /\ web.st = "open"
  /\ web' = [web EXCEPT !.st = "gone", !.unacked = FALSE, !.flight = {}]
  /\ UNCHANGED <<hs, request, uipbuf>>

(* Another packet is received or sent. *)
Overwrite ==
  /\ uipbuf' = NoChunk
  /\ UNCHANGED <<hs, web, request>>

HttpdNext ==
  \/ \E r \in Requests : httpd_connected(r)
  \/ \E n \in 1..Len(request) : NewData(n)
  \/ \E n \in 0..Len(request) : SegmentAcked(n)
  \/ Arrives \/ uip_periodic \/ Gone \/ Overwrite

HttpdSpec == HttpdInit /\ [][HttpdNext]_httpdVars /\ WF_httpdVars(uip_periodic)

-------------------------------------------------------------------------------
Chunks(pieces) ==
  FlattenSeq([i \in DOMAIN pieces |-> [n \in 1..pieces[i].len |-> Chunk(pieces[i], n)]])

(* Type invariant; the server is in one place only: it sends nothing       *)
(* before the request line has been read.                                  *)
HttpdTypeOK ==
  /\ hs.at \in {"get", "path", "headers"}
  /\ hs.state = "OUTPUT" => hs.piece \in 1..Len(Page(hs.filename))
  /\ (web.unacked \/ web.got # <<>>) => hs.state = "OUTPUT"
  /\ hs.timer \in 0..IDLE_MAX
  /\ Len(hs.sin.line) <= Room
  /\ web.st \in {"none", "open", "closed", "aborted", "timedout", "gone"}
  /\ web.nrtx \in 0..UIP_MAXRTX

(* However segments are lost, repeated and acknowledged, and wherever the  *)
(* request is cut, the client gets the parts of one page in order, except  *)
(* that a generated one may be something else (handle_output over          *)
(* psock_send and psock_generator_send).                                   *)
PageInOrder ==
  LET page == Chunks(Page(hs.filename))
      generated(c) == \E i \in DOMAIN Page(hs.filename) :
                         Page(hs.filename)[i].op = "generate" /\ Page(hs.filename)[i].id = c[1]
  IN  web.got # <<>> =>
        /\ Len(web.got) <= Len(page)
        /\ \A i \in DOMAIN web.got : web.got[i] = page[i] \/ generated(page[i])

(* When the server closes the connection of a request that it answers, the *)
(* client has the whole page (PSOCK_CLOSE behind the last PSOCK_SEND).     *)
WholePage ==
  web.st = "closed" /\ hs.state = "OUTPUT" =>
    Len(web.got) = Len(Chunks(Page(hs.filename)))

(* psock.h says that a send blocks "until all data has been sent and is     *)
(* known to have been received": behind it, the client has it.             *)
SendIsReceived ==
  web.st = "open" /\ hs.state = "OUTPUT" =>
    Len(Chunks(SubSeq(Page(hs.filename), 1, hs.piece - 1))) <= Len(web.got)

(* psock.h says that a generator is called when the data is first sent and *)
(* once for every retransmission: what arrives is what it generates.       *)
GeneratedAgain ==
  \A i \in DOMAIN web.got : web.got[i] = Chunks(Page(hs.filename))[i]

(* A client that says nothing more does not keep its connection: 20 polls  *)
(* or the retransmissions end it (httpd_appcall's timer, UIP_MAXRTX).      *)
IdleEnds == web.st = "open" ~> web.st # "open"
===============================================================================
