--------------------------------- MODULE Dhcpc --------------------------------
(***************************************************************************)
(* The DHCP client of uip/apps/dhcpc/dhcpc.c with the timer of             *)
(* uip/timer.c, called when a datagram has come (uip_newdata) and from     *)
(* time to time.                                                           *)
(*                                                                         *)
(* PT_WAIT_UNTIL does not yield when its condition holds, and uip_newdata  *)
(* holds all through a call for a datagram.  The message that is sent is   *)
(* written over the datagram, so that only the first parse_msg of a call   *)
(* reads what has come.                                                    *)
(***************************************************************************)
EXTENDS Naturals, FiniteSets

CONSTANTS
  DhcpServers,  \* servers that answer (external)
  CLOCK_SECOND,
  DiscoverMax,  \* 60: seconds, up to which the wait for an offer is doubled
  RequestMax,   \* 10: seconds, after which another request is given up
  ClockValues   \* the values of clock_time_t

ASSUME DhcpcAssumption ==
  /\ {CLOCK_SECOND, DiscoverMax, RequestMax, ClockValues} \subseteq Nat \ {0}
  /\ 2 * DiscoverMax * CLOCK_SECOND < ClockValues

VARIABLES
  pt,       \* where handle_dhcp goes on; "hangs" when it does not return
  dhcp,     \* s.serverid and s.ipaddr, as the offer of a server
  ticks, started,  \* s.ticks and s.timer.start
  clock,    \* clock_time()
  offers,   \* the offers that are on their way, or were
  asked,    \* the kind of the last message, and the offer in a request
  sentnow   \* it was sent by the last step

dhcpcVars == <<pt, dhcp, ticks, started, clock, offers, asked, sentnow>>

NoServer == "none"

DhcpcInit ==
  /\ pt = "start" /\ dhcp = [serverid |-> NoServer, ipaddr |-> NoServer]
  /\ ticks = 0 /\ started = 0 /\ clock \in {0, ClockValues - 1}
  /\ offers = {} /\ asked = [kind |-> "none", offer |-> dhcp] /\ sentnow = FALSE

(* Mutant: the time is compared with the end of the interval. *)
timer_expired_NoWrap(start, interval) == clock >= start + interval

timer_expired(start, interval) == (clock + ClockValues - start) % ClockValues >= interval

Sends(kind, offer, t) ==
  /\ asked' = [kind |-> kind, offer |-> offer] /\ sentnow' = TRUE
  /\ ticks' = t /\ started' = clock

(* The first call. A datagram that has come already is overwritten and     *)
(* never is an offer.                                                      *)
Start(new) ==
  /\ pt = "start"
  /\ pt' = IF new THEN "hangs" ELSE "discover"
  /\ Sends("DISCOVER", dhcp, CLOCK_SECOND) /\ UNCHANGED dhcp

(* No offer came in time: the wait is doubled. *)
DiscoverAgain ==
  /\ pt = "discover" /\ timer_expired(started, ticks)
  /\ Sends("DISCOVER", dhcp, IF ticks < CLOCK_SECOND * DiscoverMax THEN 2 * ticks ELSE ticks)
  /\ UNCHANGED <<pt, dhcp>>

(* Mutant: the server's identity is left as it was. *)
parse_msg_NoId(m) == [dhcp EXCEPT !.ipaddr = m.ipaddr]

(* A reply for this client is taken over, whatever it is. *)
parse_msg(m) == [serverid |-> m.serverid, ipaddr |-> m.ipaddr]

(* A datagram m while an offer is waited for.  For an offer a request is   *)
(* sent, which is then read in place of the acknowledgement: requests are  *)
(* written one over another until they are given up and the thread starts  *)
(* again; the last one is sent.  Anything else makes the loop go round     *)
(* for ever.                                                               *)
DiscoverData(m) ==
  LET offer == IF m.forus THEN parse_msg(m) ELSE dhcp
  IN  /\ pt = "discover"
      /\ dhcp' = offer
      /\ IF m.forus /\ m.type = "OFFER"
         THEN pt' = "start" /\ Sends("REQUEST", offer, CLOCK_SECOND * (RequestMax + 1))
         ELSE pt' = "hangs" /\ Sends("DISCOVER", offer, ticks)

(* The call of dhcpc_appcall from time to time. *)
Polled ==
  /\ Start(FALSE) \/ DiscoverAgain
  /\ UNCHANGED <<clock, offers>>

(* A server's offer, an answer to a request or a message for somebody else.*)
Offered == {[forus |-> TRUE, type |-> "OFFER", serverid |-> o, ipaddr |-> o] : o \in offers}
Others  == {[forus |-> FALSE, type |-> "OFFER", serverid |-> o, ipaddr |-> o] : o \in DhcpServers}
Answers ==
  IF asked.kind # "REQUEST" THEN {}
  ELSE {[forus |-> TRUE, type |-> t, serverid |-> asked.offer.serverid, ipaddr |-> asked.offer.ipaddr]
          : t \in {"ACK", "NAK"}}

DatagramCame ==
  /\ \E m \in Offered \cup Others \cup Answers : Start(TRUE) \/ DiscoverData(m)
  /\ UNCHANGED <<clock, offers>>

(* A server hears a DISCOVER. *)
Offers(o) ==
  /\ asked.kind = "DISCOVER" /\ offers' = offers \cup {o} /\ sentnow' = FALSE
  /\ UNCHANGED <<pt, dhcp, ticks, started, clock, asked>>

Tick ==
  /\ clock' = (clock + 1) % ClockValues /\ sentnow' = FALSE
  /\ UNCHANGED <<pt, dhcp, ticks, started, offers, asked>>

DhcpcNext == Polled \/ DatagramCame \/ Tick \/ \E o \in DhcpServers : Offers(o)

(* The clock goes on, and the main loop calls uip_udp_periodic often       *)
(* enough not to miss that a timer has expired.                            *)
DhcpcFairness == WF_dhcpcVars(Tick) /\ SF_dhcpcVars(Polled)

DhcpcSpec == DhcpcInit /\ [][DhcpcNext]_dhcpcVars /\ DhcpcFairness

-------------------------------------------------------------------------------
(* The type of every variable; a wait is at most the double of the longest *)
(* that is doubled.                                                        *)
DhcpcTypeOK ==
  /\ pt \in {"start", "discover", "hangs"} /\ dhcp.serverid \in DhcpServers \cup {NoServer}
  /\ ticks < 2 * CLOCK_SECOND * DiscoverMax \/ ticks = CLOCK_SECOND * (RequestMax + 1)
  /\ clock \in 0..ClockValues - 1 /\ started \in 0..ClockValues - 1 /\ offers \subseteq DhcpServers

(* However many servers offer an address, late or again, a request is made *)
(* to the server whose address it asks for.                                *)
RequestNamesOffer ==
  asked.kind = "REQUEST" => asked.offer.serverid = asked.offer.ipaddr /\ asked.offer.ipaddr \in offers

(* As long as no datagram makes it hang, the client goes on asking: it     *)
(* sends again and again, however the clock wraps round.                   *)
KeepsAsking == pt = "discover" ~> (sentnow \/ pt = "hangs")
===============================================================================
