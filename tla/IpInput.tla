-------------------------------- MODULE IpInput -------------------------------
(***************************************************************************)
(* The input of uip_process in uip/uip/uip.c up to the protocols: which    *)
(* packets a host takes, and what it answers when no connection and no     *)
(* application is concerned.  Hosts are connected to each other by a       *)
(* network on which everybody hears everything.                            *)
(***************************************************************************)
EXTENDS Integers, FiniteSetsExt

CONSTANTS
  IpHosts,     \* the addresses of the hosts
  Unassigned,  \* those that start without one
  UdpOpen,     \* the hosts with a UDP connection for any datagram
  PINGADDRCONF, BROADCAST, REASSEMBLY,  \* UIP_PINGADDRCONF, UIP_BROADCAST, UIP_REASSEMBLY
  FirstSent,   \* packets that may be sent to begin with, and by whom
  AtOnce       \* bound: as many of them

ASSUME IpAssumption ==
  /\ Unassigned \subseteq IpHosts /\ UdpOpen \subseteq IpHosts
  /\ {PINGADDRCONF, BROADCAST, REASSEMBLY} \subseteq BOOLEAN /\ AtOnce \in Nat

VARIABLES
  hostaddr, \* uip_hostaddr of each host, or Zero
  ipnet     \* packets that are still to be heard, and by whom

ipVars == <<hostaddr, ipnet>>

Zero == "zero"

(* A packet: kind is "ping", "pong", "icmp" for another ICMP message,      *)
(* "udp", "syn", "segment", "rst" or "other"; header says that version and *)
(* lengths are right, ipsum and sum that the checksums are.                *)
Proto(p) ==
  CASE p.kind \in {"ping", "pong", "icmp"}   -> "ICMP"
    [] p.kind = "udp"                        -> "UDP"
    [] p.kind \in {"syn", "segment", "rst"}  -> "TCP"
    [] OTHER                                 -> "other"

ByAll(h, p) == {[at |-> g, pkt |-> p] : g \in IpHosts \ {h}}

IpInit ==
  /\ hostaddr = [h \in IpHosts |-> IF h \in Unassigned THEN Zero ELSE h]
  /\ ipnet \in {UNION {ByAll(f.by, f.pkt) : f \in F} :
                  F \in UNION {kSubset(n, FirstSent) : n \in 1..AtOnce}}

-------------------------------------------------------------------------------
(* The version, the length and the fragment fields; a fragment may be the  *)
(* last one of a datagram.                                                 *)
Wellformed(p) == p.header /\ (p.fragment => REASSEMBLY)

(* The input that packet p gets to at host h.  A ping that gives it its    *)
(* address and a broadcast datagram get there before the checksum of the   *)
(* header is looked at; without an address a host takes what is for others.*)
Reaches(h, p) ==
  LET known     == hostaddr[h] # Zero
      pings     == ~known /\ PINGADDRCONF
      broadcast == known /\ BROADCAST /\ Proto(p) = "UDP" /\ p.dst = "broadcast"
      foritself == ~known \/ p.dst = hostaddr[h]
  IN  CASE ~Wellformed(p)                                   -> "drop"
        [] Wellformed(p) /\ pings                           -> IF Proto(p) = "ICMP" THEN "ICMP" ELSE "drop"
        [] Wellformed(p) /\ broadcast                       -> "UDP"
        [] Wellformed(p) /\ ~pings /\ ~broadcast            ->
             IF foritself /\ p.ipsum /\ Proto(p) # "other" THEN Proto(p) ELSE "drop"

(* Host h is done with packet p, on which it acted, and sends packets of   *)
(* these kinds back.                                                       *)
Acts(h, p, kinds) ==
  LET Reply(kind) == [kind |-> kind, src |-> hostaddr'[h], dst |-> p.src,
                      header |-> TRUE, fragment |-> FALSE, ipsum |-> TRUE, sum |-> TRUE]
  IN  ipnet' = (ipnet \ {[at |-> h, pkt |-> p]}) \cup UNION {ByAll(h, Reply(k)) : k \in kinds}

Hears(h, p) == [at |-> h, pkt |-> p] \in ipnet

(* The answer to an ICMP message. *)
Echoed(p) == IF p.kind = "ping" THEN {"pong"} ELSE {}

(* The address of host h after ICMP message p: a ping gives it to a host   *)
(* that has none.                                                          *)
Assigned(h, p) ==
  IF PINGADDRCONF /\ p.kind = "ping" /\ hostaddr[h] = Zero THEN p.dst ELSE hostaddr[h]

icmp_echo(h, p) ==
  /\ Hears(h, p) /\ Reaches(h, p) = "ICMP"
  /\ hostaddr' = [hostaddr EXCEPT ![h] = Assigned(h, p)]
  /\ Acts(h, p, Echoed(p))

(* A datagram is given to the application. *)
udp_input(h, p) ==
  /\ Hears(h, p) /\ Reaches(h, p) = "UDP" /\ p.sum /\ h \in UdpOpen
  /\ UNCHANGED hostaddr /\ Acts(h, p, {})

(* The answer to a segment that belongs to no connection.                  *)
Resets(p) == IF p.kind = "rst" THEN {} ELSE {"rst"}

tcp_input(h, p) ==
  /\ Hears(h, p) /\ Reaches(h, p) = "TCP" /\ p.sum
  /\ UNCHANGED hostaddr /\ Acts(h, p, Resets(p))

drop(h, p) ==
  /\ Hears(h, p)
  /\ \/ Reaches(h, p) = "drop"
     \/ Reaches(h, p) = "UDP" /\ ~(p.sum /\ h \in UdpOpen)
     \/ Reaches(h, p) = "TCP" /\ ~p.sum
  /\ ipnet' = ipnet \ {[at |-> h, pkt |-> p]} /\ UNCHANGED hostaddr

Input(h) ==
  \E m \in ipnet : icmp_echo(h, m.pkt) \/ udp_input(h, m.pkt) \/ tcp_input(h, m.pkt) \/ drop(h, m.pkt)

IpNext == \E h \in IpHosts : Input(h)

(* A host takes in what it hears. *)
IpSpec == IpInit /\ [][IpNext]_ipVars /\ \A h \in IpHosts : WF_ipVars(Input(h))

-------------------------------------------------------------------------------
(* What a host with an address acts on was sent to it with a good          *)
(* checksum, or is a broadcast datagram; a fragment only if it can be put  *)
(* together.                                                               *)
OnlyForIt ==
  [][\A m \in ipnet :
       LET h == m.at  p == m.pkt
       IN  hostaddr[h] # Zero /\ (icmp_echo(h, p) \/ udp_input(h, p) \/ tcp_input(h, p))
             => /\ p.header /\ (p.fragment => REASSEMBLY)
                /\ \/ p.dst = hostaddr[h] /\ p.ipsum
                   \/ BROADCAST /\ p.kind = "udp" /\ p.dst = "broadcast"]_ipVars

(* Hosts do not go on answering each other: what a packet sets off ends.   *)
ExchangesEnd == <>[](ipnet = {})
===============================================================================
