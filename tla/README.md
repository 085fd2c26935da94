# FujiChat: TLA+ specifications

FujiChat is an IRC client for the Atari 8-bit computers: C and 6502 assembler on
top of uIP, a small TCP/IP stack, over a SLIP serial line. The repository holds
the client, its set-up programs, all of uIP, and the applications that come with
uIP. This directory holds TLA+ modules of the parts that keep state, the TLC
configurations that check them on small instances, and theorems checked by
TLAPS.

Run a check with `tlc -workers 2 -config conn_stream.cfg MCConnStream`, a proof
with `tlapm Programs_proofs.tla`. `PROJECT.json` lists the runs, which source lines
each definition stands for, the hazards, and the findings.

## The system

Everything in the client happens in one thread, the loop of `main()` in
`src/fujichat.c`. An iteration takes at most one packet from the serial line
(`rs232dev_poll`, `uip_input`) or, if there was none and the half-second timer
has expired, makes the periodic calls (`uip_periodic`, `uip_udp_periodic`). It
then reads at most one key, looks at ATRACT mode, and registers the nick if that
is due. The only code that really interrupts it is the OS's keyboard interrupt.
Concurrency comes from outside: the network, the server, the name server, the
user, and sessions that follow one another on the same memory and the same port
numbers. The programs of the disk (menu, setup, client, MAKEAUTO) replace each
other in memory and leave a record at a fixed address. uIP's own main loop
(`uip/unix/main.c`) has the same form, with its applications called back from
`uip_process`.

| Component | State | Operations | Talks to | What makes it correct |
|---|---|---|---|---|
| uIP TCP (`uip/uip/uip.c`) | `uip_conn`: state, sequence numbers, `len`, `nrtx`, `mss` | `uip_connect`, `uip_periodic`, `uip_input` | the application | stop and wait over a bad network; both ends agree on the connection and its data; every wait ends |
| uIP tables | `uip_conns`, `uip_listenports`, `uip_udp_conns`, `lastport` | `uip_connect`, `uip_listen`, `uip_udp_new`, TIME_WAIT | TCP, UDP | a segment belongs to one connection; the right entry is reused |
| IP, ICMP, UDP input; reassembly; arithmetic | `uip_hostaddr`; `uip_reassbuf`; sums | `uip_process`, `uip_reass`, `uip_add32`, `chksum`, `uip_split_output` | TCP, the link | only what is for this host is handled; no mixed datagrams; sums that hold across carries |
| ARP (`uip_arp.c`) | `arp_table`, `arptime` | `uip_arp_timer`, `uip_arp_arpin`, `uip_arp_out` | the link | packets go to where the neighbour was last heard |
| forwarding (`uip-fw.c`) | interfaces, `fwcache` | `uip_fw_forward`, `uip_fw_periodic` | other routers | circles end |
| main loop, timers (`unix/main.c`, `timer.c`) | two timers, the clock | the loop | all of the above | no period is lost |
| telnet client (`apps/telnet/telnet.c`) | `text`, `textlen`, `sentlen` | `telnet_send`, `acked`, `senddata`, `telnet_app` | the `telnet_*` callbacks | the bytes of a message go out once, in order, up to its end |
| client (`src/fujichat.c`, `src/commands.c`) | `done`, `connected`, `nick_registered`, `joined_channel`, `channel`, `away`, the nick, `serv_msg_buf` | the loop, `handle_keystroke`, the commands, the line handlers | `telnet_send`, `uip_connect`, `resolv_query` | its flags agree with what the server was told; PINGs are answered |
| line assembly (`fujichat.c`) | `output_buf` | `telnet_newdata` | the line handlers | lines are cut where the server ended them |
| line editor, nick list (`fujichat.c`) | `input_buf`, `nick_list` | `handle_keystroke`, `del_last_word`, `nick_completion`, `add_to_nick_list` | the screen | what is seen is what is sent; completes to a nick that was seen |
| resolver (`apps/resolv/resolv.c`) | `names[]`, `seqno` | `resolv_query`, `check_entries`, `newdata` | calls `resolv_found` | one callback per query, in the end |
| keyboard buffer (`src/keybuf.s`) | `CH`, `keybuf`, head, tail | `keybuf_poll_kbd`, `keybuf_cgetc` | interrupt, OS | keys are kept, in order, none twice; the program is not blocked |
| SLIP (`src/rs232dev.c`) | `slip_buf`, `len`, `lastc` | `rs232dev_send`, `rs232dev_poll` | the line | frames come out as they went in; it finds the next frame after a lost byte |
| configuration (`common.c`, `fujiconf.c`, `fujimenu.c`, `makeauto.c`, `aexec.s`) | the record in memory, `FUJICHAT.CFG`, `AUTORUN.SYS` | load, edit, save, start the next program | the disk | no program runs with settings nobody chose |
| telnet server (`apps/telnetd`, `lib/memb.c`) | lines, their blocks, the parser | `telnetd_appcall`, the shell | clients | lines in order, each block with one owner |
| DHCP client (`apps/dhcpc`) | a protothread, its timer | `handle_dhcp`, `parse_msg` | servers | asks for what was offered, and goes on asking |
| web server (`apps/webserver`, `psock.c`) | threads, protosockets, idle timer | `httpd_appcall` | browsers | whole pages in order; idle connections end |
| web client (`apps/webclient`) | one state for all connections | `webclient_get`, `webclient_appcall` | web servers | data in order, redirections, an end |

What is hard here: a message buffer that is shared by the message in flight and
the next one; one send slot that six parts of the client compete for, none of
which looks at the result; segments of earlier sessions that still match the
ports; server lines that change the client's flags between two commands of the
user; an answer that races the last retry; an interrupt between two
instructions; counters of one byte that wrap; one buffer for all fragments, one
state for all connections; a save that is cut short.

## Modules

| Module | Models |
|---|---|
| `MessageChannel` | abstract: what `telnet_send` promises to a caller that gets 0 back |
| `TelnetConn` | FujiChat's connection: uIP as an active opener, telnet.c, the callbacks, `serv_msg_buf`, the network, the server's TCP, several sessions |
| `UipTcp` | uIP's TCP in full, between two hosts that run it |
| `IrcSession` | the client above the send slot, by phases of the loop |
| `LineAssembly`, `LineEditor` | `telnet_newdata`; `handle_keystroke` and the nick list |
| `Resolver` | resolv.c, `resolv_found`, several sessions |
| `Keyboard` | keybuf.s and the interrupt |
| `SerialLine` | rs232dev.c: SLIP frames over a bad line |
| `Config` | the record, the file and the programs that hand them on |
| `UipTables`, `ArpCache`, `Reassembly`, `UipArith`, `Forwarding`, `IpInput`, `MainLoop` | the rest of uIP |
| `Telnetd`, `Dhcpc`, `Httpd` over `Protosocket`, `Webclient` | uIP's applications |
| `MC...` | the instances for TLC |
| `TelnetConn_proofs`, `UipTcp_proofs`, `IrcSession_proofs`, `LineEditor_proofs`, `SerialLine_proofs`, `Stack_proofs`, `Programs_proofs` | the theorems |
| `DataInduction` | induction over natural numbers, which the theorems use |

`MessageChannel` is what joins the two largest modules. `TelnetConn` is shown to
implement it (`KeepsPromise`: `INSTANCE ... WITH` the state of the connection),
and `IrcSession`, whose connection is only a slot, is shown to assume no more
than it (`SlotIsChannel`). The other modules meet at interfaces that each states
from its side: `LineAssembly` cuts the lines that `IrcSession` handles,
`LineEditor` leaves behind the line that `IrcSession`'s `ReturnKey` sends,
`UipTables` decides which connection of `UipTcp` a segment belongs to.

In most modules a history variable says what the code does not survive
(`out.harm`, `cl.harm`, `asmHarm`, `harm` of `Keyboard`, `cfgHarm`, `crowded`,
`mixed`, `twice`, `closedEarly`). Properties are stated up to the first such
event, and the event is named where it happens.

### TelnetConn

The client's variables are the fields of `struct uip_conn` (`tcp` is
`tcpstateflags`), the flags of `main()`, and the record `out` with the fields of
`struct telnet_state` and the contents of `serv_msg_buf`. `text` is a pointer
into that buffer, `-1` for NULL. The actions are:

  - `StartSession`, `Connect`, `HostNotFound`, `UserSend`, `LeaveLoop`: the loop
    of `main()`. `UserSend` is any of the places that write `serv_msg_buf` and
    call `telnet_send`; the buffer is written whether the message is taken or not.
  - `TimerGivesUp`, `TimerSyn`, `TimerRexmit`, `TimerPoll`: the branches of
    `uip_process(UIP_TIMER)`, with the call of `telnet_app` inside.
  - `RecvNoConn`, `RecvRst`, `RecvOutOfOrder`, `RecvSynAck`, `RecvAbort`,
    `RecvFin`, `RecvWindow`, `RecvData`: one per way that `uip_process(UIP_DATA)`
    leaves. `RecvData` contains all of `telnet_app`: `acked`, then
    `telnet_newdata` with the answer it may send, then `senddata`.
  - `SrvSyn`, `SrvRecv`, `SrvLine`, `SrvClose`, `SrvReset`: the server (external),
    an ordinary TCP that takes bytes in order, sends lines with any window, and
    may close or reset whenever it likes.

Both directions of the network are sets that only grow: every segment may
arrive late, again, in any order, in a later session, or never. Server lines are
one unit of sequence space; message bytes are pairs `<<message, index>>`, so that a
byte in the wrong place is seen.

The code loses the promise of `MessageChannel` in three situations, which the model
allows, and records in `out.harm`: the buffer was rewritten under bytes still to
be sent ("rewritten"); the MSS changed under a segment in flight ("mss"); an
ACK of an earlier session was taken for this one's ("staleAck", possible when
the initial sequence numbers of two sessions lie closer than the data sent). The
properties about the stream are stated for `Clean` behaviour. `conn_samedata` shows
the first one happen.

### UipTcp

Two hosts with one entry of `uip_conns` each, the client opening, the server in
LISTEN. The states and the ways out of `uip_process` are one action each
(`RecvSynRcvd`, `RecvFinWait1`, ...); `appsend` is what the application may want
when it is called: close, abort, stop, restart, send or nothing. As uIP's
applications must, it sends again what was not acknowledged. A segment on `wire`
may be used once, `DupMax` of them again, in any order or never. Ports, windows
and MSS are left to `TelnetConn` and `UipTables`; initial sequence numbers lie
`IssGap` apart, which `TelnetConn` does not assume.

`uip_close` gives up outstanding bytes (`closedEarly`), so that what `uip.h` calls
closing "in a nice way" (`CloseIsNice`) only holds when nothing is outstanding:
`AllBeforeClose`.

### IrcSession

`phase` says where in the iteration the loop is: `net` (a packet, or none), `lines`
(in the middle of a packet), `key` (`handle_keystroke`), `away`, `register`, `check`.
`cl` holds `joined_channel`, `channel`, the nick, the slot, and histories; each
function that sends is an operator on it. A segment with data frees the slot if
it acknowledges (`Acked`), and then completes any number of lines, which are
handled one after the other (`NextLine`, `EndOfSegment`), as `acked` and
`telnet_newdata` do; nothing leaves and nothing comes in between them. In `cl.harm`, a message was "refused" (slot
taken) or "lost" (not connected, or dropped by `telnet_connected`), the automatic
join left another channel ("autojoin"), the session began with `away` set
("stillAway"), the server did not accept a nick ("nickTaken"). `AgreesWithServer` and `SentOnce` hold until one of these happens.

### LineAssembly and LineEditor

`TakeByte` is a turn of the loop in `telnet_newdata`, over the segment and what
lies behind it in `uip_buf`. Its pointer and its count differ after a degree sign.
`output_buf_len` survives the session (`AsmNewSession`).

`input_buf` is an array with what earlier lines left in it, up to where a
completion can write, which is behind `BUF_SIZE`. `shown` is the screen's view
of the line, kept by echo, backspaces and the two functions that take the line
away and print it again around a message.

### Resolver, Keyboard, SerialLine

`Resolver`: the table and its fields as in the code. `check_entries` is one
action, with the early end of its loop at the first query sent. Every answer
that was ever sent may arrive in any later session, as the ports are the same.

`Keyboard`: `keybuf_poll_kbd` and `keybuf_cgetc` are cut into steps where an
interrupt makes a difference: between two accesses to `CH`. `pc` is the place
inside them. The buffer has `max_buf_len` bytes and one behind, which the code
uses (`cpx #keybuf_end+1`). `main()` never calls `keybuf_init`; `Init` assumes the
cleared page zero in which the first `keybuf_cgetc` finds an empty buffer.

`SerialLine`: `SendStart`, `SendByte` and `SendEnd` are the passes of
`rs232dev_send`, which the other end reads while it runs. `PollEsc`, `PollEnd` and
`PollByte` are the cases of the loop in `rs232dev_poll`; it may find no byte at any
moment, and as all it keeps is static, it makes no difference where it is cut
into calls. The other end frames in the same way, so one line stands for both
directions. Bytes carry the number of their packet (history). The byte that the
code stores behind `slip_buf` when a frame is too long may land in `len`: any
length can result.

### Config

`mem` is the record at `CONFIG_ADDRESS`, which the next program finds as the last
one left it; `file` is `FUJICHAT.CFG`, as far as it was written. The field 1
stands for signature and version. Each program is its start (`StartMenu`,
`StartSetup`, `StartChat`, which read the file by three different rules) and what
the user does in it; `atari_exec` may fail and return or hang. `PowerOn` may come at
any moment, with the memory kept (reset key) or lost. FUJICONF does not look at
`get_config`'s result and takes over a file that was cut short (`cfgHarm`).

### The rest of uIP

`UipTables`: the search for a port from `lastport` on and for an entry, closed or
longest in TIME_WAIT; `listenports`; the UDP table. The search for a port goes on
until it finds one that no connection has. That it does is the assumption
`TablesAssumption`: there are more ports than entries, as in every configuration
of uIP, whose tables are small arrays. `ArpCache`: the age of an entry is an `int` difference of 8-bit
times; `ArpWrapped` are the entries made before the last wrap of `arptime`, for
which neither age nor order hold; a neighbour of which one half of the address
is 0 is never found. `Reassembly`: one buffer; the test for a full packet skips the
byte of the bitmap before its last, and the header's length is cut off the end.
`UipArith`: the same formulas over bytes of a small base, for either endianness.
`Forwarding`: several routers with their own interfaces and caches. `IpInput`:
hosts that hear each other, one of them without an address. `MainLoop`: the loop
may be late by up to `MaxDue` periods.

### The applications

Each is driven by the part of `uip_process` that calls it (in the map under uip.c)
over a connection that loses, repeats and ends. `Telnetd`: the lines, their blocks,
what of them is in transit; a client may come while an earlier one's connection is
not over, and uIP tells of an end twice. `Dhcpc`: `PT_WAIT_UNTIL` does not yield when its
condition holds, and `send_...` writes over the datagram; a datagram that does
not fit makes the thread go round forever ("hangs"). `Protosocket` and `Httpd`: the two
threads of a connection, the page as a list of pieces, generated pieces that are
made again for a retransmission, when other packets may have been over the
buffer. `Webclient`: one `webclient_state`, and a redirection that opens the next
connection while the last one still waits for its last ACK.

## Runs

| Run | Module | Shows | Bounds, and why they are enough |
|---|---|---|---|
| `conn_stream` | `MCConnStream` | `StreamIntact`, `StopAndWait`, `ThisSession`, `KeepsPromise`, `WaitsEnd` | three regimes. "stream": messages of one and two segments, the last one short; the second is taken, refused, or rewrites the buffer; a server line, combined with an ACK in every way. "windows": a message of four bytes, windows and MSS options 1 and 2. "sessions": two sessions with initial sequence numbers one apart, so that old ACKs fit. One retransmission: a repeated segment and giving up |
| `tcp` | `MCUipTcp` | `DataIntact`, `EndsAgree`, `EventsInOrder`, `ClosingEnds` | one byte each, one retransmission. Regimes "open" (the server accepts twice, a segment is repeated), "data" (one sends, all close or abort), "stop", "both" (both send), each small enough for all orders of its segments |
| `irc_session` | `MCFujichat` | `AgreesWithServer`, `SentOnce`, `SlotIsChannel`; `ScreenShowsLine`, `LineEdited` | two sessions, two channels, two nicks, two lines of the server per session, which one segment may bring together. `MaxSends` stops the user, not the answers. The editor with a buffer of 6, nicks of 1 and 2 letters of which one begins the other, a list of 2: margin, replacement and ambiguity occur |
| `serial` | `MCSerialLine` | `SoundIntact`, `SoundArrive`; `LinesAsSent` | `slip_buf` of 2 bytes, packets of 1, 2 and 3, made of the bytes that SLIP escapes; three packets, so that one has a damaged or overlong one on either side; one fault, one change of session. Lines: 4 bytes in segments of up to 2, a buffer of 3 |
| `stack` | `MCStack` | `AnsweredOnce`, `ArpAsHeard`, `OneConnection`, `OwnData`, `RecentInCache`, `NoneIsLost`, `StackWaitsEnd`, `OldestGivesWay`, `LongestWaitGivesWay`, `ArithmeticRight` | tables of 2 entries for 3 users each; counters that wrap (`seqno` modulo 4, `arptime` modulo 5, ports 1 to 5, the clock modulo 18); bytes of base 3; datagrams of 5 and 6 units in a buffer for 5, with a bitmap of three bytes; two routers that lead to each other, a cache of 2; three packets at once among three hosts; a loop that is late by up to 4 periods |
| `programs` | `MCPrograms` | `KeysAsTyped`, `NeverWaits`; `ConfigKept`; `OutputInTurn`; `RequestNamesOffer`; `HttpInOrder`; `ProgramsGoOn` | a key buffer for 2+1 and 6 keys: it fills, starts over, fills again; a record of 3 fields, 2 saves; 4 blocks of lines, 2 clients, 5 lines; 2 DHCP servers and a clock that wraps; a page with an include and a generated part, 2 retransmissions; 4 hosts with a redirection, an answer that is none and a line too long |

Every passing run also checks one type invariant. The parts of a run share no
state; a variable (`part`, `regime`) says which of them moves, so that they are
checked side by side instead of in all products.

Six runs end in a counterexample. They check, one each, what a comment or the
manual says, and `PROJECT.json` quotes it:

| Run | The text | The code |
|---|---|---|
| `conn_samedata` | uip.h: a retransmission sends "the exact same data" | the next message is written over the one in flight |
| `conn_finline` | uip.h: `uip_newdata()` is true if there is new data | `telnet_closed` calls `uip_close()`, which clears the flag for the data that came with the FIN |
| `irc_ping` | README: responds correctly to PINGs | with the slot taken, the PONG is dropped |
| `irc_onechannel` | README: only one channel at a time | the join at the end of the MOTD does not look at `joined_channel` |
| `resolver_silent` | resolv.h: the callback is called when a name was found or not | an answer without an A record ends the query in silence |
| `lines_cut` | fujichat.c: a message may be split into multiple packets | the second byte of a degree sign is looked for behind the segment |

Some modules state, without a run of their own, what a header or a comment says
and the code keeps only with the exceptions that the checked property names:
`CloseIsNice` (`UipTcp`; `AllBeforeClose`), `NoneForever` (`ArpCache`; `AgedOut`),
`FullPacket` (`Reassembly`; `OwnData`), `OutputIsSent` (`Telnetd`; `FreedAreSent`),
`GeneratedAgain` (`Httpd`; `PageInOrder`), `AlwaysTold` (`Webclient`). One more is kept
only on an instance: `SendIsReceived` (`Httpd`), what `psock.h` says of `PSOCK_SEND`, that
it blocks until all data is known to have been received. It holds if a status header fits
in a segment (`HeaderParts` = 1, as in `programs`). With `HeaderParts` = 2, as for a
client with a small MSS, TLC finds in a second that one acknowledgement is taken for every
segment that is left: `send_data` sends the next one, the loop evaluates its condition
again in the same call, and `uip_acked()` is still true. The client gets only the first.

`CHECK_DEADLOCK` is off everywhere: after the last session the program waits at
its prompt, and at the bounds the environment stops.

### Fairness

Safety needs none. For liveness:

  - `WaitsEnd`: the loop of `main()` is left when `done` is set (`WF(LeaveLoop)`) and
    periodic calls happen again and again (`WF(Timer)`): the timer is hardware,
    the loop has no blocking call, and only a line so full that every iteration
    finds a packet would keep `uip_periodic` away, which is what `CatchesUp` in
    `MainLoop` is about. Nothing is assumed of the network, the server or the user. A
    server that keeps sending new lines resets `nrtx`, and could keep a session
    up forever without acknowledging; with the finitely many lines of a run, it
    cannot.
  - `ClosingEnds`: `uip_periodic` of both hosts; `LookupEnds`, `BufferIsFreed`: the
    periodic call of the resolver and of `uip_reass`'s timer, nothing of name server or
    senders.
  - `CirclesEnd`, `ExchangesEnd`: a router or host handles what it hears.
  - `CatchesUp`: the loop runs; the pause in the packets is its premise.
  - `SoundArrive`: `rs232dev_poll` is called, and a send that has begun goes on.
  - `ProgramsGoOn`: the loop calls `keybuf_cgetc` again and again, and the OS returns a
    key that is there; the periodic calls of the web server and client; for DHCP the
    clock and, strongly fair, the poll: the periodic call is often enough to find an
    expired timer before the difference of two clock values wraps.

## Proofs

TLAPS checks these theorems for every value of the constants that the module's
assumption admits; the runs show the same properties on small instances.

| Theorem | For every ... | Inductive invariant |
|---|---|---|
| `TelnetConn_proofs!TypeCorrect` | message lengths, buffer size, MSS, windows, limits, bounds | `ITypeOK == TypeOK /\ InFlight /\ SynAckWin` |
| `TelnetConn_proofs!ThisSessionHolds` | as above, and any distance of initial sequence numbers | `IHandshake`: `ITypeOK`, `OneSyn`, `OneServer`, `Begun` |
| `TelnetConn_proofs!StreamIntactHolds`, `!StopAndWaitHolds` | as above | `IStream`: `IHandshake`, `Answering`, `InBuffer`, `OnWire` |
| `TelnetConn_proofs!KeepsPromiseHolds` | as above | `IPromise`: `IStream`, `OpenRuns` |
| `UipTcp_proofs!TcpTypeCorrect`, `!DataIntactHolds`, `!EndsAgreeHolds`, `!EventsInOrderHolds` | lengths, bytes, retries, connections, repeated segments | `TcpInv`: `OwnOK` of each host, `Contact` between them, `OnWay` of each segment |
| `IrcSession_proofs!SessionTypeCorrect`, `!AgreesWithServerHolds`, `!SentOnceHolds`, `!SlotIsChannelHolds` | channels, nicks, commands, sessions, lines | `SessionInv`: `TypeOK`, `Phases`, `InTouch`, `PingOrder`, `PongsAnswerPings` |
| `LineEditor_proofs!SessionAndEditorTypesHold` | as both modules | `SessionInv` and `EditInv`, side by side |
| `LineEditor_proofs!EditTypeCorrect`, `!ScreenHolds`, `!LineEditedHolds` | buffer, nicks, nick list, letters | `EditInv`: `EditTypeOK`, `OneWordOver`, `ScreenShowsLine` |
| `SerialLine_proofs!TypeCorrect` | packets, size of slip_buf, faults, sessions | `IInv == TypeOK /\ (sending => Len(sent) > 0)` |
| `SerialLine_proofs!SoundIntactHolds` | as above | `LineInv`: `IInv`, `Ascending`, `NothingNew`, `LeftOver`, `Fates` |
| `SerialLine_proofs!AsmTypeCorrect`, `!LinesAsSentHolds` | bytes and lengths of segments, what lies behind them, size of output_buf | `AsmInv`: `BufTypes`, and `Assembled` up to `asmHarm` |
| `SerialLine_proofs!LineTypesHold` | as both modules | `IInv` and `AsmInv`, side by side |
| `Stack_proofs!AnsweredOnceHolds` | table size, retries, hosts, sessions | `ResolverInv`, with `Timed` and `OneQuery` |
| `Stack_proofs!ArpAsHeardHolds`, `!OldestGivesWayHolds` | table size, maximum age, period of `arptime` | `ArpInv`: `ArpTypeOK`, and `Kept(a)` of every neighbour |
| `Stack_proofs!OneConnectionHolds`, `!LongestWaitGivesWayHolds` | table sizes, ports, waits | `TablesInv`: `TablesTypeOK`, `StillWaiting`, `OneConnection` |
| `Stack_proofs!ReassTypeCorrect`, `!OwnDataHolds` | datagrams, sizes of buffer and fragment | `ReassInv`: `ReassTypeOK`, `LengthIsOwners`, `OwnerKnown`, `WholeTyped`, `OwnData` |
| `Stack_proofs!RecentInCacheHolds` | routers, interfaces, packets, size of the cache, `FW_TIME` | `FwInv`: `CacheOK` of each router's cache and what it sent on |
| `Stack_proofs!NoneIsLostHolds` | periods, width of the clock, delay | `LoopInv`: `NoneIsLost`, and how far the two timers are apart |
| `Stack_proofs!ArithmeticRightHolds` | size and order of bytes, length of a segment, packets | `ArithInv` (four bytes, and `AddsModulo`) and `PacketOK` (the words of a packet are 0 modulo all ones) |
| `Stack_proofs!OnlyForItHolds` | hosts, packets, configurations | none: it holds of every step from any state |
| `Stack_proofs!StackTypesHold` | as the modules of the stack | `StackInv`: the invariants above, with `SessionTyped`, `FwTyped` and `LoopTyped` |
| `Programs_proofs!KeyboardTypeCorrect`, `!NeverWaitsHolds`, `!KeysAsTypedHolds` | buffer size, number of keys | `KeyboardInv`: `TypeOK`, `Known`, `Distinct`, `Ordered`, `NeverWaits` |
| `Programs_proofs!ConfigTypeCorrect`, `!ConfigKeptHolds` | number and values of fields, saves | `ConfigInv`, with `OfSave` |
| `Programs_proofs!DhcpcTypesHold`, `!RequestNamesOfferHolds` | servers, waits, clocks | `DhcpcInv`: `DhcpcTypeOK`, `TicksOK`, `RequestNamesOffer` |
| `Programs_proofs!WebTypesHold` | hosts, responses, redirections, connections, lengths | `WebTypes` |
| `Programs_proofs!OnlyDataHolds`, `!RequestInOrderHolds` | as above | `WebInv`: `WebTypes`, and `WebStream` up to `twice` |
| `Programs_proofs!TelnetdTypesHold`, `!OutputInTurnHolds` | blocks, lines in a segment, segments, clients | `TelnetdInv`: `ListOK`, `CanSend`, `LinesKnown`, and `ServesOne` up to `mixed` |
| `Programs_proofs!ProgramsTypesHold` | as the modules of the programs | `ProgramsInv`: the invariants above, with `HttpdTypes` |
| `Programs_proofs!HttpInOrderHolds` | files, requests, room for a line, polls, retransmissions; a status header in one segment | `ProgramsInv` and `HttpdStream` |

Nothing is assumed but the named assumption of each module, which says of which
kind the constants are; in `UipTables` also that there are more ports than entries, in
`UipTcp` that the numbers of two connections of the server do not overlap, and in
`Forwarding` that `UIP_TTL` is more than 1, as an answer starts with it (it is 64 in
`uipopt.h`), and in `Httpd` that the 404 page and every file that a script includes
exist, as they do in `httpd-fs`. `HttpInOrderHolds` has a hypothesis, `HeaderParts = 1`:
with a longer header the client does lose data (`SendIsReceived`, above).
Each invariant was checked by TLC on the instance of its run before it was proved.

### The connection

`TypeOK` of `TelnetConn` is not inductive: that `acked()` does not let `textlen`
underflow and `text` run out of the buffer needs `sentlen <= textlen` at any time
an ACK may come, and that a segment's length is positive. `InFlight` ties `len` to
the state of the connection, and `SynAckWin` says that a SYNACK carries a positive
MSS option, without which the MSS could be zero.

`ThisSession` needs to know every segment ever sent, as each may still arrive.
`OneSyn`: a session has one initial sequence number, past those of the sessions
before it. `OneServer`: the server's end, and each of its SYNACKs, belongs to a SYN
of the client; its other segments are numbered after the SYNACK of their session,
and acknowledge no more than was received. So a SYNACK that acknowledges `iss + 1`
answers the SYN of this session, however close the numbers of two sessions lie.

`StreamIntact` and `StopAndWait` are proved together: what was not acknowledged is
in the buffer, at `text` (`InBuffer`), and each segment of the session on the way
holds what the stream of messages has at its place (`OnWire`). An ACK that counts
acknowledges what the server has, which is either all that was sent or what was
there before; so a retransmission is a copy, and the server takes bytes only at
its end. The three harms are where a step would break one of these, and the
proofs have no other exception. For `KeepsPromise`, every action is mapped to an
action of `MessageChannel`, or to none; `OpenRuns` says that the client has not left
the loop with an established connection. Only that part is temporal.

### uIP's TCP, both ends

`TcpInv` says of each host what its state, its numbers and what its application was
told have to do with each other (`OwnOK`: `Counts`, `Told`, `Sides`); of each segment
on its way, that it is of one incarnation of its sender, holds that one's bytes at
their places, and, if it is the present one, acknowledges no more than was received
and ends no stream that goes on (`OnWay`); and of the two hosts (`Contact`), that each
was given the other's bytes from the first on, and hears of the close after the last.
An old SYN may have opened a connection at the server that the client is not in, so
`Contact` speaks of the client's side only if it is `Joined` to the incarnation: what
it expects next is a number of it. As the numbers of two incarnations do not overlap,
it is joined to one at most, and what arrives in order is of that one (`InOrder`).

A handler takes what it does in up to three steps, each of which keeps the invariant:
the acknowledgment, what is received (`ReceivesGood`), and what the application wants
once it is called (`AppsendGood`), which receives nothing (`Stays`). A FIN is numbered
after all bytes of its sender, and so heard after them, unless `uip_close` was called
with bytes outstanding, which `closedEarly` records. `EventsInOrder` is proved with
the invariant: every step is one host's (`Still`), and orderly for it (`Orderly`).

### The IRC session

The functions that send are operators on the record `cl`, and each gets a lemma of
what it does to it: nothing the flags depend on (`Quiet`), or a message and a
change of the flags that fit each other (`KeepsWord`). `InTouch` then joins the flags
to the messages sent, and these to what the server has: all, or all but the one in
the slot. `AskedBy`, `SaysAway` and `NickIn`, which look at the last message of a kind,
are followed through `Append` by lemmas of their own. The tokens of PINGs ascend:
those answered, the one in the slot, those of lines on the way (`PingOrder`). The same
step lemmas prove that the slot is a `MessageChannel` (`SlotIsChannel`): what
`IrcSession` assumes is what `KeepsPromise` shows, for every value of both modules'
constants.

### The line editor

`nick_completion` does not look at the margin, so that the type of `input_buf_len` is
the theorem that needs an argument: a line that ends behind the margin does so in
one word (`OneWordOver`), and the term that a nick replaces is that word or the last
`NICKLEN` characters of it; it therefore begins before the margin, and the line grows
to `LineMax` at most. What the arrays hold is followed through `Store` (`Holds`, `PutLine`),
which gives `ScreenShowsLine`: each key prints what it stores, and as many backspaces as
it takes away (`CutLine`, `CompletedKeeps`). `LineEdited` follows from what the search for
the term finds (`CompletionIs`) and where the loops of ctrl-W stop (`WordEndIs`).

### The serial line

`SoundIntact` is about three different machines at once: `rs232dev_send`, the bytes
on the line, and `rs232dev_poll`. `Fates` says of every packet that stays sound that it
is all still to come, or is just being read, or was returned. In the first two
cases a function `at` gives, for each byte on the line, for which byte of the
packet it stands; `Reads` says that these places follow each other without a gap
from the one the reader is at to the last one put out, and that an ESC is followed by
the second part of the same byte, also when the ESC has been read and only `lastc`
remembers it. `Ascending` keeps the bytes of a packet together when others are
lost (`ReadsWithout`), and `LeftOver` ties `left` to the packet being sent. The next
byte put out (`ReadsMore`) and the next one read (`ReadsNext`) are one lemma each. The
bound on `slip_buf` is that of `len`, not of the one byte the code writes behind the
buffer, which `Stored` models as any length; this is why a packet behind an
overlong one still comes out alone.

### Line assembly

`telnet_newdata` is a loop over the bytes of a segment, so what it does with a segment
of any length is an induction. The library states induction for a predicate, which the
provers cannot instantiate; `DataInduction` states it for a set, the set of the
numbers for which the statement holds, from the well-foundedness of `<`. The loop is a
recursive function (`run`), and `AfterTurn` says what holds after `i` turns: as many
bytes were handed on or lie in the buffer as turns were made, and lines and buffer
together are the stream so far (`Assembled`), unless the turns met one of the events of
`asmHarm`. `TurnKeeps` is one turn, with a case for each branch of the loop.

### uIP's tables and the resolver

`ResolverInv`: in a session with a lookup one entry at most is under way
(`OneQuery`); it is that of `host`, nobody has been told of it, no other entry has
given up, and as many queries were sent as its `retries` count. So a periodic call
makes at most one call of `resolv_found`, and an answer that is expected finds
`found` empty. `Timed` keeps an entry that was answered with an error apart from one
that gave up (its `tmr` is not 0).

`Kept(a)` of `ArpCache`: a neighbour has one slot at most, which holds what it last
told, and, as long as it was heard of since `arptime` was last 0, is as old as
`since[a]`. Neighbours with a zero half are left out, since they may have several.
`OldestGivesWay` follows because the search of `uip_arp_update` ends at a slot with
the greatest age.

`OneConnection` needs that the search for a port finds one: the ports of the table
are no more than its entries (a pigeonhole argument on `Cardinality`), so some port
in the range is free, and the first free one from `lastport` on exists by a least
element of a set of naturals (`LeastOf`). The same lemma gives the entry that has
waited longest. `StillWaiting` keeps the timers of TIME_WAIT below their end.

`ReassInv`: what is in the buffer is of its owner as far as the bitmap says, and the
length is the owner's, unless fragments were mixed. `OwnData` excepts the units whose
byte of the bitmap the code does not test.

### Forwarding, main loop, arithmetic, input

`RecentInCache` is not inductive: what is no longer in the cache may have been pushed
out by more than the cache holds, and whether that is still so after some of it has
aged depends on what it was pushed out for. `CacheOK` says that: what was given up was
sent on no later than anything the cache now holds, as `fwcache_register` takes an
unused entry or one with the least time left (`VictimIs`). Then a packet that is gone
and all that is in the cache are one more than the cache holds (`NothingGivenUp`, an
injection). The history names the entry each packet was put in, because a header may
be sent on twice: an answer to two packets of one sender has the same one.

`NoneIsLost` needs that neither timer is ever so far behind that `Elapsed` wraps. For
the first that is `MaxDue`; the one for the ARP cache is only looked at when the first
has expired, and `LoopInv` bounds it by one period of its own more. The steps need
`%` for a variable divisor: `Quotient` says that a remainder is unique, and
`NextRemainder` and `SinceTick` what a tick does to the remainders of the clock and to
the time since a start, across the wrap.

`AddsModulo` follows the carries byte by byte (`ByteSum`, `CarriedIs`, `LowerWord`): there is
one carry out of the lower word at most, from its first sum or from the last byte's
carry, never from both. `SplitFits` adds that a remainder may be taken between two
additions (`AddTwice`). `StaysValid` is arithmetic modulo all ones, `Word - 1` (`Alike`):
a sum with its carries is the sum modulo that, and 0 only if every word is 0
(`CarryIs`); swapping the bytes of a word multiplies it by a byte (`SwappedIs`), which
done twice is 1. So a correction adds the word that is taken away (`CorrectedIs`), in
either byte order, and a packet whose words are 0 modulo all ones stays one.

The types of the stack are proved for its modules at once, as the run checks them. Two
are more than types. `LoopTyped`: between two calls of `uip_arp_timer` there are as many
calls of `uip_periodic` as fit, and those that were late; in periods, what was made since
the last one is never more than the ARP timer's age and `MaxDue`. `FwTyped`: what is on its
way is a packet of `FirstPackets` or an ICMP message about one, with a `ttl` that no router
raised.

`OnlyForIt`, that a host with an address acts on nothing that is for others or
damaged, follows from what `Reaches` drops (`Taken`). It holds of every step from any
state, so there is a theorem and no run of it.

### Keyboard, configuration, DHCP, web client, telnet server, web server

`KeyboardInv` adds to `TypeOK` which keys are under way (`Known`: only ones that were
pressed), that no key is in two places (`Distinct`), and, while `harm` is empty, that
read, `CH` and the buffer together hold the keys one after another (`Ordered`, by
elements instead of by concatenation, which the provers handle better). `KeysKept`
follows from `Ordered` through lemmas on sequences that count.

`ConfigInv`: in setup and in the client the record is valid; a valid record, and one
that was saved, has no field that nobody chose (`Chosen`), up to `cfgHarm`; and the
file is, as far as it goes, what was last saved, or one that no version of these
programs accepts (`OfSave`). While the file is being written it is a beginning of
the record in memory. A file that `get_config` accepts has full length, and so is
the saved record.

`WebInv`: unless `twice`, one connection at most is being opened or is open (`OneAtATime`),
and the one `struct webclient_state` is that connection's (`ConnFits`): `ptr` and `left`
say what the server has of the request, and there is a place in the response up to which
it was read (`ReadTo`), from which the connection has what is still to come. `ReadTo` says
for each state of the parser where that place is: in the status line, at the beginning of
a header line or in the middle of one, whose words are then in `line`, or in the body,
from whose first word on the data handler got everything (`BodyBegins`). The words of a
segment are again an induction (`NewdataRun`).

`TelnetdInv`: `s.lines` is filled from its first entry on (`ListOK`), and what was sent
last is still in it (`CanSend`). Unless `mixed`, at most one client is being served
(`ServesOne`), and what is kept is for this one (`ForClient`): the lines in the list are
in the order they were put out, each in a block in use; those the client got come before
them, and those in transit are the first of them (`InOrder`), so that an acknowledgement
frees exactly these, unless new data came meanwhile (`crowded`). That a retransmission
sends the same lines follows from `Filled`: the list determines how many lines go in a
segment, and nothing but an acknowledgement takes lines from its head. What the shell puts
out keeps all this (`PutsOut`), by an induction over the lines of an answer (`OutputRun`),
and one over the characters of a segment (`CharsRun`). Every block in use is in the list
(`NoneLost`) unless an end of a connection was `ignored`.

`DhcpcInv`: a wait is doubled only while it is shorter than the longest (`TicksOK`), so
`ticks` has a bound although nothing in the code compares it with one.

`HttpdTypes` says where the two threads of a connection may be: the output thread runs
exactly when the request's headers are being read; while the connection is open it is in
the middle of a piece (`InPiece`), never between two; and before the request was read
nothing was sent, heard or is on its way. `CallIsEffect` says what a call of
`httpd_appcall` does to all this: it is composed of what the input thread reads
(`InputReads`), what a send of a protosocket does (`PsockSends`) and what of the page
follows (`OutputIs`). `HttpdStream` adds what the client has: the pieces before the one
that is being sent, and this one if the client has heard it; and only copies of this one
are on their way. The acknowledgement comes only from a client that has heard, so the next
piece begins, and the connection is closed behind the last one, only when the client has
all before it. `Fits` is the one exception: what a script generates may, when it is sent
again, be made anew or be what another packet left in the buffer.

### Only model-checked

All liveness (`WaitsEnd`, `ClosingEnds`, `SoundArrive`, `StackWaitsEnd`,
`ProgramsGoOn`): fairness and ENABLED are out of the prover's reach. Every safety property
of a passing run is a theorem; `HttpInOrder` for a status header in one segment.

## Not modelled

Urgent data and RTT arithmetic (a timer "may expire"); sequence number wrap at
2^32 in the connections (the addition itself is in `UipArith`); headers and
encodings; the contents of lines and pages; output: the screen drivers, the
traffic indicator, `formatip.c`, `about.c`. `src/main.c` is an old version that
nothing links; `smtp.c` does not compile against its header; `hello-world` is an
example; `uip-neighbor.c` serves IPv6; `uiplib.c` parses one string;
`httpd-fsdata.c` is generated. What page zero holds before `keybuf_init`, and what is
written there through the null `tstate` before the first connection, is outside of
the models.

## Plan

All parts of the program that keep state have a module, and every safety property that a
passing run checks is proved. What could follow is on the side of the models: the contents
of the pages that `httpd-cgi.c` makes, and a second connection to the web server that
works in `uip_buf` at the same time, which is now any packet (`uipbuf` is lost).
