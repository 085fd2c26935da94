------------------------------- MODULE MainLoop -------------------------------
(***************************************************************************)
(* The main loop of uip/unix/main.c with the timers of uip/timer.c: one    *)
(* packet in each round, and the periodic work of the stack only in a      *)
(* round in which there is none.                                           *)
(***************************************************************************)
EXTENDS Naturals

CONSTANTS
  Period,      \* CLOCK_SECOND / 2, in ticks of the clock
  ArpPeriod,   \* CLOCK_SECOND * 10
  ClockMod,    \* the values of clock_time_t
  Backlog,     \* bound: packets that wait for the driver
  MaxDue       \* bound: periods that pass while the loop is busy

ASSUME MainLoopAssumption ==
  /\ {Period, ArpPeriod, ClockMod, Backlog, MaxDue} \subseteq Nat \ {0}
  /\ Period < ArpPeriod /\ (MaxDue + 1) * Period + ArpPeriod < ClockMod
  /\ ArpPeriod % Period = 0 /\ ClockMod % ArpPeriod = 0

VARIABLES
  now,            \* clock_time()
  periodic_timer, \* .start
  arp_timer,      \* .start
  waiting,        \* packets the driver holds
  due, arpDue,    \* history: whole periods passed, and not yet worked off
  sinceArp        \* history: calls of uip_periodic since uip_arp_timer

loopVars == <<now, periodic_timer, arp_timer, waiting, due, arpDue, sinceArp>>

LoopInit ==
  /\ now = 0 /\ periodic_timer = 0 /\ arp_timer = 0
  /\ waiting = 0 /\ due = 0 /\ arpDue = 0 /\ sinceArp = 0

Elapsed(start) == (now + ClockMod - start) % ClockMod

Expired(start, interval) == Elapsed(start) >= interval

(* Mutant: the next interval starts now. *)
timer_reset_FromNow(start, interval) == now

(* The next interval starts where the last one ended. *)
timer_reset(start, interval) == (start + interval) % ClockMod

-------------------------------------------------------------------------------
(* tapdev_read has a packet, which is handled, whatever is due. *)
HandlePacket ==
  /\ waiting > 0 /\ waiting' = waiting - 1
  /\ UNCHANGED <<now, periodic_timer, arp_timer, due, arpDue, sinceArp>>

Took(n) == IF n > 0 THEN n - 1 ELSE 0

(* There is none within a millisecond: uip_periodic and uip_udp_periodic   *)
(* for every connection, and uip_arp_timer if it is time.                  *)
Periodic ==
  /\ waiting = 0 /\ Expired(periodic_timer, Period)
  /\ periodic_timer' = timer_reset(periodic_timer, Period) /\ due' = Took(due)
  /\ IF Expired(arp_timer, ArpPeriod)
     THEN /\ arp_timer' = timer_reset(arp_timer, ArpPeriod)
          /\ arpDue' = Took(arpDue) /\ sinceArp' = 0
     ELSE UNCHANGED <<arp_timer, arpDue>> /\ sinceArp' = sinceArp + 1
  /\ UNCHANGED <<now, waiting>>

-------------------------------------------------------------------------------
Arrives ==
  /\ waiting < Backlog /\ waiting' = waiting + 1
  /\ UNCHANGED <<now, periodic_timer, arp_timer, due, arpDue, sinceArp>>

(* A tick is longer than a round without a packet, and the loop is never   *)
(* so late that the clock comes round.                                     *)
Tick ==
  LET next == (now + 1) % ClockMod
  IN  /\ waiting > 0 \/ ~Expired(periodic_timer, Period)
      /\ due < MaxDue \/ next % Period # 0
      /\ now' = next
      /\ due' = IF next % Period = 0 THEN due + 1 ELSE due
      /\ arpDue' = IF next % ArpPeriod = 0 THEN arpDue + 1 ELSE arpDue
      /\ UNCHANGED <<periodic_timer, arp_timer, waiting, sinceArp>>

LoopNext == HandlePacket \/ Periodic \/ Arrives \/ Tick

LoopSpec == LoopInit /\ [][LoopNext]_loopVars /\ WF_loopVars(HandlePacket) /\ WF_loopVars(Periodic)

-------------------------------------------------------------------------------
(* The type of every variable. *)
LoopTypeOK ==
  /\ {now, periodic_timer, arp_timer} \subseteq 0..ClockMod - 1
  /\ waiting \in 0..Backlog /\ due \in 0..MaxDue /\ arpDue \in 0..((MaxDue + 1) * Period) \div ArpPeriod + 1
  /\ sinceArp \in 0..ArpPeriod \div Period + MaxDue

(* However late the loop is and across the wrap of the clock, no period is *)
(* lost and none is counted twice: those still to be worked off are those  *)
(* between the timer and the clock.                                        *)
NoneIsLost ==
  /\ Elapsed(periodic_timer) = (due * Period) + (now % Period)
  /\ Elapsed(arp_timer) = (arpDue * ArpPeriod) + (now % ArpPeriod)

(* When packets pause for long enough, everything that is due is worked    *)
(* off; nothing is while they keep coming.                                 *)
CatchesUp == <>[](waiting = 0) => []<>(due = 0)
===============================================================================
