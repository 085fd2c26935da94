------------------------------ MODULE UipTables -------------------------------
(***************************************************************************)
(* The tables of uip/uip/uip.c: which connection an incoming segment or    *)
(* datagram belongs to, which local port and which entry a new one gets.   *)
(*                                                                         *)
(* A connection is only as much of uip_conns as these decisions read; what *)
(* it does meanwhile (UipTcp) is that it opens, waits and ends.            *)
(***************************************************************************)
EXTENDS Naturals, FiniteSets

CONSTANTS
  CONNS,       \* UIP_CONNS
  LISTENPORTS, \* UIP_LISTENPORTS
  UDP_CONNS,   \* UIP_UDP_CONNS
  Servers,     \* ports a server program listens on
  FirstPort,   \* 1024, where lastport starts
  NextPort,    \* 4096, where it goes on
  LastPort,    \* 32000, where it does
  TWTimeout,   \* UIP_TIME_WAIT_TIMEOUT
  Remotes      \* remote hosts, each with one port

ASSUME TablesAssumption ==
  /\ {CONNS, LISTENPORTS, UDP_CONNS, TWTimeout} \subseteq Nat \ {0}
  /\ {FirstPort, NextPort, LastPort} \subseteq Nat
  /\ FirstPort < NextPort /\ NextPort < LastPort
  /\ CONNS < LastPort - NextPort /\ UDP_CONNS < LastPort - NextPort
  /\ Servers \subseteq 1..FirstPort

VARIABLES
  conns,       \* uip_conns
  listenports, \* uip_listenports
  udp_conns,   \* uip_udp_conns: the local port, or 0
  lastport

tableVars == <<conns, listenports, udp_conns, lastport>>

LocalPorts   == 1..LastPort
ConnEntries == [st : {"CLOSED", "active", "TIME_WAIT"}, lport : LocalPorts \cup {0},
            remote : Remotes \cup {0}, timer : 0..TWTimeout]

FirstEntry(S) == CHOOSE i \in S : \A j \in S : i <= j

uip_init ==
  /\ conns = [i \in 1..CONNS |-> [st |-> "CLOSED", lport |-> 0, remote |-> 0, timer |-> 0]]
  /\ listenports = [i \in 1..LISTENPORTS |-> 0]
  /\ udp_conns = [i \in 1..UDP_CONNS |-> 0] /\ lastport = FirstPort

InUse(i) == conns[i].st # "CLOSED"

(* Mutant: a connection in TIME_WAIT has given its port back. *)
TcpPorts_Waiting == {conns[i].lport : i \in {j \in 1..CONNS : conns[j].st = "active"}}

(* The local ports in use. *)
TcpPorts == {conns[i].lport : i \in {j \in 1..CONNS : InUse(j)}}
UdpPorts == {udp_conns[i] : i \in 1..UDP_CONNS} \ {0}

(* The ports that are tried, in what order, and the first one not taken. *)
Tried == (lastport + 1..LastPort - 1) \cup (NextPort..LastPort - 1)

Turn(p) == IF p > lastport THEN p - lastport ELSE p + LastPort

FreePort(taken) ==
  CHOOSE p \in Tried \ taken : \A q \in Tried \ taken : Turn(p) <= Turn(q)

(* Mutant: the connection that has waited for the shortest time gives way. *)
FreeEntry_Youngest ==
  LET closed  == {i \in 1..CONNS : ~InUse(i)}
      waiting == {i \in 1..CONNS : conns[i].st = "TIME_WAIT"}
      young   == {i \in waiting : \A j \in waiting : conns[j].timer >= conns[i].timer}
  IN  IF closed # {} THEN {FirstEntry(closed)} ELSE IF young # {} THEN {FirstEntry(young)} ELSE {}

(* The entry for a new connection, if any: a closed one, or the one that   *)
(* has been in TIME_WAIT for the longest time.                             *)
FreeEntry ==
  LET closed  == {i \in 1..CONNS : ~InUse(i)}
      waiting == {i \in 1..CONNS : conns[i].st = "TIME_WAIT"}
      oldest  == {i \in waiting : \A j \in waiting : conns[j].timer <= conns[i].timer}
  IN  IF closed # {} THEN {FirstEntry(closed)} ELSE IF oldest # {} THEN {FirstEntry(oldest)} ELSE {}

Opened(p, r) == [st |-> "active", lport |-> p, remote |-> r, timer |-> 0]

-------------------------------------------------------------------------------
(* A port is taken even if there is no entry for the connection. *)
uip_connect(r) ==
  LET p == FreePort(TcpPorts)
  IN  /\ lastport' = p
      /\ conns' = [i \in 1..CONNS |-> IF i \in FreeEntry THEN Opened(p, r) ELSE conns[i]]
      /\ UNCHANGED <<listenports, udp_conns>>

uip_udp_new ==
  LET p    == FreePort(UdpPorts)
      free == {i \in 1..UDP_CONNS : udp_conns[i] = 0}
  IN  /\ lastport' = p
      /\ udp_conns' = [i \in 1..UDP_CONNS |-> IF free # {} /\ i = FirstEntry(free) THEN p ELSE udp_conns[i]]
      /\ UNCHANGED <<conns, listenports>>

uip_udp_remove(i) ==
  /\ udp_conns' = [udp_conns EXCEPT ![i] = 0] /\ UNCHANGED <<conns, listenports, lastport>>

uip_listen(p) ==
  LET free == {i \in 1..LISTENPORTS : listenports[i] = 0}
  IN  /\ listenports' = [i \in 1..LISTENPORTS |-> IF free # {} /\ i = FirstEntry(free) THEN p
                                                                              ELSE listenports[i]]
      /\ UNCHANGED <<conns, udp_conns, lastport>>

(* One entry for the port is cleared, if it was listened on twice. *)
uip_unlisten(p) ==
  LET on == {i \in 1..LISTENPORTS : listenports[i] = p}
  IN  /\ listenports' = [i \in 1..LISTENPORTS |-> IF on # {} /\ i = FirstEntry(on) THEN 0
                                                                          ELSE listenports[i]]
      /\ UNCHANGED <<conns, udp_conns, lastport>>

(* The connection a segment from r for port p belongs to. *)
FoundConn(p, r) == {i \in 1..CONNS : InUse(i) /\ conns[i].lport = p /\ conns[i].remote = r}

(* A SYN that belongs to none opens one, if the port is listened on; an    *)
(* unused entry of listenports listens on port 0.                          *)
found_listen(p, r) ==
  /\ FoundConn(p, r) = {} /\ \E i \in 1..LISTENPORTS : listenports[i] = p
  /\ conns' = [i \in 1..CONNS |-> IF i \in FreeEntry THEN Opened(p, r) ELSE conns[i]]
  /\ UNCHANGED <<listenports, udp_conns, lastport>>

-------------------------------------------------------------------------------
(* What a connection does meanwhile: it ends at once, or by TIME_WAIT. *)
Ends(i) ==
  /\ conns[i].st = "active"
  /\ \E st \in {"CLOSED", "TIME_WAIT"} : conns' = [conns EXCEPT ![i].st = st, ![i].timer = 0]
  /\ UNCHANGED <<listenports, udp_conns, lastport>>

uip_periodic(i) ==
  /\ conns[i].st = "TIME_WAIT"
  /\ conns' = [conns EXCEPT ![i].timer = @ + 1,
                            ![i].st = IF conns[i].timer + 1 = TWTimeout THEN "CLOSED" ELSE @]
  /\ UNCHANGED <<listenports, udp_conns, lastport>>

TablesNext ==
  \/ \E r \in Remotes : uip_connect(r)
  \/ uip_udp_new \/ \E i \in 1..UDP_CONNS : uip_udp_remove(i)
  \/ \E p \in Servers : uip_listen(p) \/ uip_unlisten(p)
  \/ \E p \in Servers \cup {0}, r \in Remotes : found_listen(p, r)
  \/ \E i \in 1..CONNS : Ends(i) \/ uip_periodic(i)

TablesSpec == uip_init /\ [][TablesNext]_tableVars

-------------------------------------------------------------------------------
(* The type of every variable. *)
TablesTypeOK ==
  /\ conns \in [1..CONNS -> ConnEntries] /\ listenports \in [1..LISTENPORTS -> LocalPorts \cup {0}]
  /\ udp_conns \in [1..UDP_CONNS -> LocalPorts \cup {0}] /\ lastport \in FirstPort..LastPort - 1

(* Every segment and every datagram belongs to one connection at most,     *)
(* though ports come round again and entries are used again.               *)
OneConnection ==
  /\ \A i, j \in 1..CONNS :
       i # j /\ InUse(i) /\ InUse(j)
         => <<conns[i].lport, conns[i].remote>> # <<conns[j].lport, conns[j].remote>>
  /\ \A i, j \in 1..UDP_CONNS : i # j /\ udp_conns[i] # 0 => udp_conns[i] # udp_conns[j]

(* A new connection ends none that is active, and one in TIME_WAIT only    *)
(* when there is no closed entry and no other has waited longer.           *)
LongestWaitGivesWay ==
  [][\A i \in 1..CONNS :
       InUse(i) /\ <<conns'[i].lport, conns'[i].remote>> # <<conns[i].lport, conns[i].remote>>
         => /\ conns[i].st = "TIME_WAIT"
            /\ \A j \in 1..CONNS : /\ InUse(j)
                                    /\ conns[j].st = "TIME_WAIT" => conns[j].timer <= conns[i].timer
     ]_tableVars
===============================================================================
