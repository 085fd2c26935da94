-------------------------------- MODULE MCStack -------------------------------
(* The parts of uIP beside TCP, for TLC.  They share no state, so each is  *)
(* checked on its own: part says which one runs, and the others stay as    *)
(* they begin.                                                             *)
EXTENDS Resolver, ArpCache, UipTables, Reassembly, UipArith, Forwarding, IpInput, MainLoop

VARIABLE part

Parts == {"resolver", "arp", "tables", "reassembly", "arithmetic", "forwarding", "input", "loop"}

MCInit ==
  /\ part \in Parts
  /\ Init /\ ArpInit /\ uip_init /\ ReassInit /\ LoopInit
  /\ ArithInit /\ (part # "arithmetic" => packet = CHOOSE p \in Packets : TRUE)
  /\ \/ part = "input" /\ IpInit
     \/ part # "input" /\ hostaddr = [h \in IpHosts |-> h] /\ ipnet = {}
  /\ \/ part = "forwarding" /\ FwInit
     \/ /\ part # "forwarding" /\ transit = {} /\ local = {}
        /\ netifs = [r \in Routers |-> <<>>] /\ recent = [r \in Routers |-> {}]
        /\ fwcache = [r \in Routers |-> [i \in FwSlots |-> [timer |-> 0, pkt |-> NoFwHeader]]]

MCNext ==
  \/ /\ part = "resolver" /\ Next
     /\ UNCHANGED <<part, arpVars, tableVars, reassVars, arithVars, fwVars, ipVars, loopVars>>
  \/ /\ part = "arp" /\ ArpNext
     /\ UNCHANGED <<part, vars, tableVars, reassVars, arithVars, fwVars, ipVars, loopVars>>
  \/ /\ part = "tables" /\ TablesNext
     /\ UNCHANGED <<part, vars, arpVars, reassVars, arithVars, fwVars, ipVars, loopVars>>
  \/ /\ part = "reassembly" /\ ReassNext
     /\ UNCHANGED <<part, vars, arpVars, tableVars, arithVars, fwVars, ipVars, loopVars>>
  \/ /\ part = "arithmetic" /\ ArithNext
     /\ UNCHANGED <<part, vars, arpVars, tableVars, reassVars, fwVars, ipVars, loopVars>>
  \/ /\ part = "forwarding" /\ FwNext
     /\ UNCHANGED <<part, vars, arpVars, tableVars, reassVars, arithVars, ipVars, loopVars>>
  \/ /\ part = "input" /\ IpNext
     /\ UNCHANGED <<part, vars, arpVars, tableVars, reassVars, arithVars, fwVars, loopVars>>
  \/ /\ part = "loop" /\ LoopNext
     /\ UNCHANGED <<part, vars, arpVars, tableVars, reassVars, arithVars, fwVars, ipVars>>

MCFairness ==
  /\ WF_vars(part = "resolver" /\ Poll) /\ WF_vars(part = "resolver" /\ LeaveLoop)
  /\ WF_reassVars(part = "reassembly" /\ uip_periodic_reass)
  /\ \A r \in Routers :
       /\ WF_fwVars(part = "forwarding" /\ uip_fw_register(r))
       /\ WF_fwVars(part = "forwarding" /\ \E m \in transit : uip_fw_forward(r, m))
  /\ \A h \in IpHosts : WF_ipVars(part = "input" /\ Input(h))
  /\ WF_loopVars(part = "loop" /\ HandlePacket) /\ WF_loopVars(part = "loop" /\ Periodic)

MCSpec ==
  /\ MCInit
  /\ [][MCNext]_<<vars, arpVars, tableVars, reassVars, arithVars, fwVars, ipVars, loopVars, part>>
  /\ MCFairness

-------------------------------------------------------------------------------
(* The types of all parts. *)
StackTypesOK ==
  TypeOK /\ ArpTypeOK /\ TablesTypeOK /\ ReassTypeOK /\ FwTypeOK /\ LoopTypeOK

(* Whoever waits in one of the parts waits for a while only: for a name,   *)
(* for the reassembly buffer, for packets that circle between routers or   *)
(* between hosts to end, for the periodic work of the main loop.           *)
StackWaitsEnd == LookupEnds /\ BufferIsFreed /\ CirclesEnd /\ ExchangesEnd /\ CatchesUp

-------------------------------------------------------------------------------
(* Datagrams p and q of five and six units. *)
MCLength == [p |-> 5, q |-> 6]

(* Two routers between two local networks. *)
ToA == [nets |-> {"A"}, to |-> "A"]
ToB == [nets |-> {"y"}, to |-> "B"]
LanX == [nets |-> {"x"}, to |-> "lan"]
LanY == [nets |-> {"y"}, to |-> "lan"]
MCInterfaces == {ToA, ToB, LanX, LanY}
MCRegistered == [A |-> <<LanX>>, B |-> <<LanY>>]
MCDefaultNetif == [A |-> ToB, B |-> ToA]
Between(src, dst, id, ttl) == [src |-> src, dst |-> dst, proto |-> "udp", ipid |-> id, ttl |-> ttl]
MCFirstPackets ==
  {[at |-> "A", pkt |-> Between("x", "z", 1, 3)], [at |-> "A", pkt |-> Between("y", "B", 2, 2)],
   [at |-> "B", pkt |-> Between("y", "broadcast", 3, 2)]}

(* Packets to hosts with an address and without one, some of them damaged. *)
Told(by, kind, dst, fragment, ipsum) ==
  [by |-> by, pkt |-> [kind |-> kind, src |-> by, dst |-> dst, header |-> TRUE,
                       fragment |-> fragment, ipsum |-> ipsum, sum |-> TRUE]]
MCFirstSent ==
  {Told("a", "ping", "b", FALSE, TRUE), Told("a", "segment", "b", FALSE, TRUE),
   Told("a", "udp", "broadcast", FALSE, FALSE), Told("b", "ping", "c", FALSE, TRUE),
   Told("b", "ping", "d", TRUE, TRUE), Told("b", "segment", "c", FALSE, TRUE),
   Told("b", "other", "a", FALSE, TRUE)}
===============================================================================
