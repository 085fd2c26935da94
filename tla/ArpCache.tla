------------------------------- MODULE ArpCache -------------------------------
(***************************************************************************)
(* The ARP cache of uip/uip/uip_arp.c, driven by the main loop of          *)
(* uip/unix/main.c: which hardware address an IP packet is sent to.        *)
(*                                                                         *)
(* arptime is a u8_t that goes on counting, and the age of an entry the    *)
(* int arptime - time: after arptime has wrapped, entries from before have *)
(* a negative age.                                                         *)
(***************************************************************************)
EXTENDS Integers, FiniteSets

CONSTANTS
  Neighbours,  \* the IP addresses of the local network
  HalfZero,    \* those of which one 16-bit half is 0
  Router,      \* uip_draddr
  Macs,
  Unused,      \* the address 0.0.0.0, and no hardware address
  ARPTAB_SIZE, \* UIP_ARPTAB_SIZE
  ARP_MAXAGE,  \* UIP_ARP_MAXAGE
  ArpTimes     \* the values of arptime, 256

ASSUME ArpAssumption ==
  /\ HalfZero \subseteq Neighbours /\ Router \in Neighbours
  /\ Unused \notin Neighbours \cup Macs /\ "broadcast" \notin Neighbours
  /\ {ARPTAB_SIZE, ARP_MAXAGE, ArpTimes} \subseteq Nat \ {0} /\ ARP_MAXAGE < ArpTimes

VARIABLES
  arp_table,
  arptime,
  heard,      \* history: the hardware address each neighbour last told
  since       \* history: the calls of uip_arp_timer since then, or ArpTimes

arpVars == <<arp_table, arptime, heard, since>>

ArpSlots == 1..ARPTAB_SIZE
ArpEntries  == [ip : Neighbours \cup {Unused}, mac : Macs \cup {Unused}, time : 0..ArpTimes - 1]

ArpInit ==
  /\ arp_table = [i \in ArpSlots |-> [ip |-> Unused, mac |-> Unused, time |-> 0]]
  /\ arptime = 0 /\ heard = [a \in Neighbours |-> Unused]
  /\ since = [a \in Neighbours |-> ArpTimes]

Age(i) == arptime - arp_table[i].time
FirstSlot(S) == CHOOSE i \in S : \A j \in S : i <= j

-------------------------------------------------------------------------------
(* Mutant: an entry is kept at ARP_MAXAGE. *)
uip_arp_timer_Late ==
  LET later == (arptime + 1) % ArpTimes
      old == {i \in ArpSlots : arp_table[i].ip # Unused /\ later - arp_table[i].time > ARP_MAXAGE}
  IN  /\ arptime' = later
      /\ arp_table' = [i \in ArpSlots |-> IF i \in old THEN [arp_table[i] EXCEPT !.ip = Unused]
                                                    ELSE arp_table[i]]
      /\ since' = [a \in Neighbours |-> IF since[a] < ArpTimes THEN since[a] + 1 ELSE ArpTimes]
      /\ UNCHANGED heard

uip_arp_timer ==
  LET later == (arptime + 1) % ArpTimes
      old == {i \in ArpSlots : arp_table[i].ip # Unused /\ later - arp_table[i].time >= ARP_MAXAGE}
  IN  /\ arptime' = later
      /\ arp_table' = [i \in ArpSlots |-> IF i \in old THEN [arp_table[i] EXCEPT !.ip = Unused]
                                                    ELSE arp_table[i]]
      /\ since' = [a \in Neighbours |-> IF since[a] < ArpTimes THEN since[a] + 1 ELSE ArpTimes]
      /\ UNCHANGED heard

(* Mutant: ages are not compared. *)
Oldest_First == FirstSlot(ArpSlots)

(* The first of the oldest entries; the first of all, if none has a        *)
(* positive age.                                                           *)
Oldest ==
  LET aged == {i \in ArpSlots : Age(i) > 0 /\ \A j \in ArpSlots : Age(j) <= Age(i)}
  IN  FirstSlot(IF aged = {} THEN ArpSlots ELSE aged)

(* An address with a zero half is never found. *)
SlotFor(a) ==
  LET known == {i \in ArpSlots : arp_table[i].ip = a /\ a \notin HalfZero}
      free  == {i \in ArpSlots : arp_table[i].ip = Unused}
  IN  CASE known # {}              -> FirstSlot(known)
        [] known = {} /\ free # {} -> FirstSlot(free)
        [] OTHER                   -> Oldest

(* Mutant: the entry is made for the time to come, which may be past 255. *)
uip_arp_update_Ahead(a, mac) ==
  /\ arp_table' = [arp_table EXCEPT ![SlotFor(a)] = [ip |-> a, mac |-> mac, time |-> arptime + 1]]
  /\ heard' = [heard EXCEPT ![a] = mac]
  /\ since' = [since EXCEPT ![a] = 0]
  /\ UNCHANGED arptime

uip_arp_update(a, mac) ==
  /\ arp_table' = [arp_table EXCEPT ![SlotFor(a)] = [ip |-> a, mac |-> mac, time |-> arptime]]
  /\ heard' = [heard EXCEPT ![a] = mac]
  /\ since' = [since EXCEPT ![a] = 0]
  /\ UNCHANGED arptime

(* A request or a reply from neighbour a for this host, which answers a    *)
(* request with its own address; nothing else is looked at.                *)
uip_arp_arpin(a, mac) == uip_arp_update(a, mac)

(* Where an IP packet is sent: to everybody, to the neighbour it is for,   *)
(* or else to the router.                                                  *)
NextHop(dest) == IF dest \in Neighbours \cup {"broadcast"} THEN dest ELSE Router

(* The hardware address it is sent to, or Unused: then a request for hop   *)
(* is sent in its place.                                                   *)
uip_arp_out(hop) ==
  LET known == {i \in ArpSlots : arp_table[i].ip = hop}
  IN  CASE hop = "broadcast"                -> "broadcast"
        [] hop # "broadcast" /\ known # {} -> arp_table[FirstSlot(known)].mac
        [] OTHER                            -> Unused

ArpNext == uip_arp_timer \/ \E a \in Neighbours, mac \in Macs : uip_arp_arpin(a, mac)

ArpSpec == ArpInit /\ [][ArpNext]_arpVars

-------------------------------------------------------------------------------
(* The type of every variable. *)
ArpTypeOK ==
  /\ arp_table \in [ArpSlots -> ArpEntries] /\ arptime \in 0..ArpTimes - 1
  /\ heard \in [Neighbours -> Macs \cup {Unused}] /\ since \in [Neighbours -> 0..ArpTimes]

(* However entries are replaced, time out and come back, no packet is sent *)
(* to a hardware address but the one its next hop was last heard with.     *)
SentAsHeard ==
  \A dest \in Neighbours \cup {"far"} :
    LET hop == NextHop(dest)
    IN  hop \notin HalfZero => uip_arp_out(hop) \in {heard[hop], Unused}

(* The neighbours in the table, and those of them that were entered before *)
(* arptime was last 0.                                                     *)
ArpKnown   == {arp_table[i].ip : i \in ArpSlots} \ {Unused}
ArpWrapped == {a \in ArpKnown : since[a] > arptime}

(* The neighbour that gives way to another was heard of no later than any  *)
(* that stays, until arptime wraps.                                        *)
OldestGivesWay ==
  [][\A i \in ArpSlots :
       LET a == arp_table[i].ip
       IN  ArpWrapped \cup (ArpKnown \cap HalfZero) = {} /\ a # Unused /\ arp_table'[i].ip \notin {a, Unused}
             => \A b \in ArpKnown : since[a] >= since[b]]_arpVars

(* Nobody is kept for ARP_MAXAGE calls without being heard of, so a        *)
(* neighbour whose hardware address has changed is found again.            *)
AgedOut == \A a \in ArpKnown \ (ArpWrapped \cup HalfZero) : since[a] < ARP_MAXAGE

(* What is sent goes to where its next hop was heard, and not too long ago. *)
ArpAsHeard == AgedOut /\ SentAsHeard

(* The same with no exception: uipopt.h says that ARP_MAXAGE is the        *)
(* maximum age of an entry.                                                *)
NoneForever == \A a \in ArpKnown \ HalfZero : since[a] < ARP_MAXAGE
===============================================================================
