------------------------------ MODULE Forwarding ------------------------------
(***************************************************************************)
(* Packet forwarding of uip/uip/uip-fw.c, in routers that are connected to *)
(* each other: which interface a packet leaves by, the cache of packets    *)
(* not to be forwarded again, and the time to live.                        *)
(***************************************************************************)
EXTENDS Integers, FiniteSets, SequencesExt

CONSTANTS
  Routers,
  Interfaces,   \* [nets, to]: the destinations it leads to, and who hears it
  Registered,   \* the interfaces each router registers, in that order
  DefaultNetif,      \* and its default interface
  FirstPackets, \* what hosts send, and the router that hears it first
  FWCACHE_SIZE,
  FW_TIME,
  UIP_TTL

IsFwPacket(p) ==
  p = [src |-> p.src, dst |-> p.dst, proto |-> p.proto, ipid |-> p.ipid, ttl |-> p.ttl]

ASSUME FwAssumption ==
  /\ Registered \in [Routers -> Seq(Interfaces)] /\ DefaultNetif \in [Routers -> Interfaces]
  /\ {FWCACHE_SIZE, FW_TIME, UIP_TTL} \subseteq Nat \ {0} /\ UIP_TTL > 1
  /\ \A f \in FirstPackets : f.at \in Routers /\ f.pkt.ttl \in 1..UIP_TTL /\ IsFwPacket(f.pkt)

VARIABLES
  netifs,   \* the interfaces of each router, the last registered first
  fwcache,
  transit,  \* packets on their way, and the router that hears each next
  local,    \* history: what each router handled as its own
  recent    \* history: what each router sent on, for FW_TIME, and in which entry it was put

fwVars == <<netifs, fwcache, transit, local, recent>>

FwSlots == 1..FWCACHE_SIZE

(* What identifies a packet in the cache. *)
FwHeader(p) == [src |-> p.src, dst |-> p.dst, proto |-> p.proto, ipid |-> p.ipid]
NoFwHeader  == [src |-> "none", dst |-> "none", proto |-> "none", ipid |-> 0]

(* Nothing is on its way before all interfaces are registered. *)
FwInit ==
  /\ netifs = [r \in Routers |-> <<>>]
  /\ fwcache = [r \in Routers |-> [i \in FwSlots |-> [timer |-> 0, pkt |-> NoFwHeader]]]
  /\ transit = FirstPackets /\ local = {} /\ recent = [r \in Routers |-> {}]

uip_fw_register(r) ==
  LET n == Len(netifs[r]) + 1
  IN  /\ n <= Len(Registered[r])
      /\ netifs' = [netifs EXCEPT ![r] = <<Registered[r][n]>> \o @]
      /\ UNCHANGED <<fwcache, transit, local, recent>>

FwReady == \A r \in Routers : Len(netifs[r]) = Len(Registered[r])

-------------------------------------------------------------------------------
InCache(r, p) ==
  \E i \in FwSlots : fwcache[r][i].timer # 0 /\ fwcache[r][i].pkt = FwHeader(p)

(* Mutant: the entry with the longest time left is overwritten. *)
FwVictim_Youngest(r) ==
  CHOOSE i \in FwSlots : \A j \in FwSlots : fwcache[r][j].timer <= fwcache[r][i].timer

(* The first unused entry, or else the last of those with the least time   *)
(* left.                                                                   *)
FwVictim(r) ==
  LET left(i) == fwcache[r][i].timer
      unused  == {i \in FwSlots : left(i) = 0}
      least   == {i \in FwSlots : \A j \in FwSlots : left(i) <= left(j)}
  IN  IF unused # {} THEN CHOOSE i \in unused : \A j \in unused : i <= j
                     ELSE CHOOSE i \in least  : \A j \in least  : i >= j

fwcache_register(r, p) ==
  /\ fwcache' = [fwcache EXCEPT ![r][FwVictim(r)] = [timer |-> FW_TIME, pkt |-> FwHeader(p)]]
  /\ recent' = [recent EXCEPT ![r] =
                   @ \cup {[timer |-> FW_TIME, pkt |-> FwHeader(p), slot |-> FwVictim(r)]}]

(* The first interface that leads to the destination, or the default one. *)
find_netif(r, dst) ==
  LET leads == {i \in 1..Len(netifs[r]) : dst \in netifs[r][i].nets}
  IN  IF leads = {} THEN DefaultNetif[r] ELSE netifs[r][CHOOSE i \in leads : \A j \in leads : i <= j]

(* Who hears a packet that leaves; a broadcast leaves by every interface. *)
Hearers(r, p) ==
  IF p.dst = "broadcast" THEN {i.to : i \in {DefaultNetif[r]} \cup ToSet(netifs[r])}
                         ELSE {find_netif(r, p.dst).to}

(* Mutant: the time to live is left as it came. *)
Sent_SameTtl(p) == p

(* A packet as it is sent on. *)
Sent(p) == [p EXCEPT !.ttl = @ - 1]

(* uip_fw_output for a packet that has come in as m. *)
uip_fw_output(r, m, p) ==
  /\ fwcache_register(r, p)
  /\ transit' = (transit \ {m}) \cup {[at |-> to, pkt |-> p] : to \in Hearers(r, p) \cap Routers}

(* What is sent on in place of a packet whose time is over: nothing for an *)
(* ICMP message.                                                           *)
TimeExceeded(r, p) ==
  IF p.proto = "icmp" THEN {}
  ELSE {[p EXCEPT !.src = r, !.dst = p.src, !.proto = "icmp", !.ttl = UIP_TTL]}

FwDropped(m) == transit' = transit \ {m} /\ UNCHANGED <<netifs, fwcache, recent>>

FwLocal(r, m) == local' = local \cup {[at |-> r, pkt |-> FwHeader(m.pkt)]}

(* A packet m is heard by router r. *)
uip_fw_forward(r, m) ==
  LET p    == m.pkt
      over == p.ttl <= 1
      next == IF over THEN TimeExceeded(r, p) ELSE {p}
  IN  /\ FwReady /\ m \in transit /\ m.at = r
      /\ \/ p.dst = r /\ FwDropped(m) /\ FwLocal(r, m)
         \/ p.dst # r /\ InCache(r, p) /\ FwDropped(m) /\ UNCHANGED local
         \/ /\ p.dst = "broadcast" /\ ~InCache(r, p) /\ over
            /\ FwDropped(m) /\ FwLocal(r, m)
         \/ /\ p.dst # r /\ ~InCache(r, p) /\ ~(over /\ p.dst = "broadcast")
            /\ next = {} /\ FwDropped(m) /\ UNCHANGED local
         \/ /\ p.dst # r /\ ~InCache(r, p) /\ ~(over /\ p.dst = "broadcast")
            /\ \E q \in next : uip_fw_output(r, m, Sent(q))
            /\ IF p.dst = "broadcast" THEN FwLocal(r, m) ELSE UNCHANGED local
            /\ UNCHANGED netifs

FwAged(e) == [e EXCEPT !.timer = IF @ > 0 THEN @ - 1 ELSE 0]

(* The clock has ticked. *)
uip_fw_periodic(r) ==
  /\ \E i \in FwSlots : fwcache[r][i].timer > 0
  /\ fwcache' = [fwcache EXCEPT ![r] = [i \in FwSlots |-> FwAged(@[i])]]
  /\ recent' = [recent EXCEPT ![r] = {FwAged(e) : e \in {d \in @ : d.timer > 1}}]
  /\ UNCHANGED <<netifs, transit, local>>

FwNext ==
  \E r \in Routers :
    uip_fw_register(r) \/ uip_fw_periodic(r) \/ \E m \in transit : uip_fw_forward(r, m)

(* A router that is ready handles what it hears. *)
FwSpec ==
  /\ FwInit /\ [][FwNext]_fwVars
  /\ \A r \in Routers : WF_fwVars(uip_fw_register(r))
  /\ \A r \in Routers : WF_fwVars(\E m \in transit : uip_fw_forward(r, m))

-------------------------------------------------------------------------------
(* The type of every variable. *)
FwSeen == {[src |-> s, dst |-> d, proto |-> k, ipid |-> n] :
           s \in Routers \cup {f.pkt.src : f \in FirstPackets},
           d \in {f.pkt.src : f \in FirstPackets} \cup {f.pkt.dst : f \in FirstPackets},
           k \in {"icmp"} \cup {f.pkt.proto : f \in FirstPackets},
           n \in {f.pkt.ipid : f \in FirstPackets}}

FwTypeOK ==
  /\ \A r \in Routers : netifs[r] \in Seq(Interfaces)
  /\ \A r \in Routers, i \in FwSlots :
       fwcache[r][i].timer \in 0..FW_TIME /\ fwcache[r][i].pkt \in FwSeen \cup {NoFwHeader}
  /\ \A m \in transit : m.at \in Routers /\ FwHeader(m.pkt) \in FwSeen /\ m.pkt.ttl \in 1..UIP_TTL
  /\ local \subseteq [at : Routers, pkt : FwSeen]

(* What was sent on is still in its entry of the cache. *)
Remembered(r, e) == fwcache[r][e.slot] = [timer |-> e.timer, pkt |-> e.pkt]

(* As long as a router sends on no more packets within FW_TIME than its    *)
(* cache holds, it does not send any of them on twice: all of them are     *)
(* still in the cache, even if there were more before.                     *)
RecentInCache ==
  \A r \in Routers :
    Cardinality(recent[r]) <= FWCACHE_SIZE => \A e \in recent[r] : Remembered(r, e)

(* Where routers send a packet to each other in a circle, it ends: so does *)
(* everything that it causes.                                              *)
CirclesEnd == <>[](transit = {})
===============================================================================
