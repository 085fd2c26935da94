------------------------------ MODULE Reassembly ------------------------------
(***************************************************************************)
(* uip_reass of uip/uip/uip.c: fragments of datagrams are put together in  *)
(* the one buffer uip_reassbuf, which is not cleared in between.           *)
(*                                                                         *)
(* Data is counted in units of 8 bytes, each of which has a bit in         *)
(* uip_reassbitmap; UnitsPerByte of them share a byte of it.               *)
(***************************************************************************)
EXTENDS Naturals, FiniteSets

CONSTANTS
  Datagrams,    \* the source, destination and ipid that fragments share
  Length,       \* the units of data of each
  HeaderUnits,  \* UIP_IPH_LEN, in units
  BufUnits,     \* UIP_REASS_BUFSIZE, in units
  UnitsPerByte, \* 8
  MaxFragment,  \* bound: units of a fragment
  REASS_MAXAGE  \* UIP_REASS_MAXAGE

ASSUME ReassAssumption ==
  /\ Length \in [Datagrams -> Nat \ {0}]
  /\ {UnitsPerByte, MaxFragment, REASS_MAXAGE} \subseteq Nat \ {0}
  /\ {BufUnits, HeaderUnits} \subseteq Nat

VARIABLES
  uip_reassbuf,    \* the datagram each unit comes from
  uip_reassbitmap, \* the units whose bit is set
  uip_reasslen,    \* 0 until the last fragment has come
  uip_reasstmr,
  owner,           \* the datagram whose header is in the buffer
  whole            \* history: what was last handed on, unit by unit

reassVars == <<uip_reassbuf, uip_reassbitmap, uip_reasslen, uip_reasstmr, owner, whole>>

NoDatagram  == "none"
ReassUnits == 0..BufUnits - 1
NothingYet == [of |-> NoDatagram, data |-> [u \in {} |-> NoDatagram]]

Fragments ==
  {f \in [of : Datagrams, off : 0..BufUnits, len : 1..MaxFragment] : f.off + f.len <= Length[f.of]}

ReassInit ==
  /\ uip_reassbuf = [u \in ReassUnits |-> NoDatagram] /\ uip_reassbitmap = {}
  /\ uip_reasslen = 0 /\ uip_reasstmr = 0 /\ owner = NoDatagram /\ whole = NothingYet

(* The test for a full packet of n units: every byte of the bitmap but the *)
(* last two is all ones, and the last has the bits of its units; the byte  *)
(* before it is not looked at.                                             *)
FullBitmap(bits, n) ==
  LET last == n \div UnitsPerByte
  IN  /\ \A u \in ReassUnits : u \div UnitsPerByte + 1 < last => u \in bits
      /\ \A u \in ReassUnits : u \div UnitsPerByte = last => (u \in bits <=> u < n)

(* What a datagram of n units becomes: its header is counted as data, so   *)
(* that the end of it is cut off.                                          *)
HandedOn(buf, n) == [u \in 0..n - HeaderUnits - 1 |-> buf[u]]

(* Mutant: the bitmap is not cleared for a new datagram. *)
Bitmap_Uncleared == uip_reassbitmap

(* The bitmap, the length and the timer as a fragment finds them: those of *)
(* a new datagram, if there is none in the buffer.                         *)
Bitmap == IF uip_reasstmr = 0 THEN {} ELSE uip_reassbitmap
Reasslen == IF uip_reasstmr = 0 THEN 0 ELSE uip_reasslen

Timer == IF uip_reasstmr = 0 THEN REASS_MAXAGE ELSE uip_reasstmr

Accepts(f) == uip_reasstmr = 0 \/ owner = f.of

(* A fragment of the datagram in the buffer, or of a new one. *)
uip_reass(f) ==
  LET cells == f.off..f.off + f.len - 1
      bits  == Bitmap \cup cells
      buf   == [u \in ReassUnits |-> IF u \in cells THEN f.of ELSE uip_reassbuf[u]]
      n     == IF f.off + f.len = Length[f.of] THEN Length[f.of] ELSE Reasslen
      full  == n > 0 /\ FullBitmap(bits, n)
  IN  /\ Accepts(f) /\ f.off + f.len <= BufUnits
      /\ owner' = f.of /\ uip_reassbuf' = buf /\ uip_reassbitmap' = bits /\ uip_reasslen' = n
      /\ uip_reasstmr' = IF full THEN 0 ELSE Timer
      /\ whole' = IF full THEN [of |-> f.of, data |-> HandedOn(buf, n)] ELSE whole

(* A fragment that goes beyond the buffer discards the datagram. *)
TooLong(f) ==
  /\ Accepts(f) /\ f.off + f.len > BufUnits
  /\ owner' = f.of /\ uip_reassbitmap' = Bitmap /\ uip_reasslen' = Reasslen /\ uip_reasstmr' = 0
  /\ UNCHANGED <<uip_reassbuf, whole>>

uip_periodic_reass ==
  /\ uip_reasstmr > 0 /\ uip_reasstmr' = uip_reasstmr - 1
  /\ UNCHANGED <<uip_reassbuf, uip_reassbitmap, uip_reasslen, owner, whole>>

ReassNext == uip_periodic_reass \/ \E f \in Fragments : uip_reass(f) \/ TooLong(f)

(* The main loop goes on calling uip_periodic, whatever arrives. *)
ReassSpec == ReassInit /\ [][ReassNext]_reassVars /\ WF_reassVars(uip_periodic_reass)

-------------------------------------------------------------------------------
(* The type of every variable; the buffer holds one datagram only as far   *)
(* as the bitmap says so.                                                  *)
ReassTypeOK ==
  /\ uip_reassbuf \in [ReassUnits -> Datagrams \cup {NoDatagram}] /\ uip_reassbitmap \subseteq ReassUnits
  /\ uip_reasslen \in 0..BufUnits /\ uip_reasstmr \in 0..REASS_MAXAGE
  /\ uip_reasstmr > 0 => \A u \in uip_reassbitmap : uip_reassbuf[u] = owner

(* However fragments overlap, repeat, overtake each other or never come, a *)
(* datagram is handed on with the data of another one at most where FullBitmap   *)
(* does not look: in the byte of the bitmap before its last.               *)
OwnData ==
  LET last == Length[whole.of] \div UnitsPerByte
  IN  whole.of # NoDatagram => \A u \in DOMAIN whole.data :
        whole.data[u] = whole.of \/ u \div UnitsPerByte + 1 = last

(* A datagram of which a fragment is lost does not keep the buffer from    *)
(* others for ever.                                                        *)
BufferIsFreed == uip_reasstmr > 0 ~> uip_reasstmr = 0

(* uip_reass says of the packet it hands on: "we have a full packet in the *)
(* buffer".                                                                *)
FullPacket ==
  whole.of # NoDatagram => /\ DOMAIN whole.data = 0..Length[whole.of] - 1
                     /\ \A u \in DOMAIN whole.data : whole.data[u] = whole.of
===============================================================================
