------------------------------- MODULE Resolver -------------------------------
(***************************************************************************)
(* The DNS resolver of uIP (uip/apps/resolv/resolv.c) as FujiChat uses it: *)
(* one query per session, its retries, and resolv_found (src/fujichat.c),  *)
(* which connects to the address or ends the session.                      *)
(*                                                                         *)
(* The network never forgets a datagram: an answer may come late, twice,   *)
(* or in a later session, whose socket has the same ports.  The name       *)
(* server (external) may answer any query, or not.                         *)
(***************************************************************************)
EXTENDS Naturals, FiniteSets, SequencesExt

CONSTANTS
  Hosts,          \* names the user may ask for; the address of h is h
  AnswerKinds,    \* "address", "error", or "other": no A record in it
  RESOLV_ENTRIES,
  MAX_RETRIES,
  SeqnoMod,         \* seqno is a byte: 256
  MaxSessions     \* bound: sessions

ASSUME ResolverAssumption ==
  /\ AnswerKinds \subseteq {"address", "error", "other"}
  /\ RESOLV_ENTRIES \in Nat \ {0} /\ MAX_RETRIES \in Nat \ {0, 1}
  /\ SeqnoMod \in Nat \ {0} /\ MaxSessions \in Nat

VARIABLES
  sess, up, done,   \* the session, the loop of main() and its flag
  host,             \* config->server
  udp,              \* the resolver has a UDP connection in this session
  names, seqno,     \* the table of the resolver, and its counter
  target,           \* the address given to uip_connect, or None
  found,            \* history: the calls of resolv_found in this session
  queries, answers  \* the queries of this session; every answer ever sent

vars == <<sess, up, done, host, udp, names, seqno, target, found, queries, answers>>

None == "none"

Entries == 0..(RESOLV_ENTRIES - 1)

Running == up /\ ~done

-------------------------------------------------------------------------------
Init ==
  /\ sess = 0 /\ up = FALSE /\ done = FALSE /\ udp = FALSE
  /\ host = None /\ target = None
  /\ names = [i \in Entries |->
       [state |-> "UNUSED", tmr |-> 0, retries |-> 0, seqno |-> 0, name |-> None]]
  /\ seqno = 0
  /\ found = <<>> /\ queries = <<>> /\ answers = {}

(* The entry resolv_query takes: an unused one, or else the one that was   *)
(* queried longest ago, the first of several, entry 0 if none seems older. *)
(* The subtraction is done in int, so a wrapped counter makes an entry     *)
(* look new.                                                               *)
TakenEntry(table) ==
  LET unused == {i \in Entries : table[i].state = "UNUSED"}
      older  == {i \in Entries : seqno > table[i].seqno}
      oldest == {i \in older : \A j \in older : table[i].seqno <= table[j].seqno}
  IN  IF unused # {} THEN Min(unused) ELSE IF oldest # {} THEN Min(oldest) ELSE 0

resolv_query(table, i, h) ==
  [table EXCEPT ![i].state = "NEW", ![i].seqno = seqno, ![i].name = h]

resolv_init(table) == [i \in Entries |-> [table[i] EXCEPT !.state = "DONE"]]

(* The prompt is answered with a name: resolv_init, resolv_conf and        *)
(* resolv_query.                                                           *)
StartLookup(h) ==
  /\ ~up /\ sess < MaxSessions
  /\ sess' = sess + 1 /\ up' = TRUE /\ done' = FALSE /\ udp' = TRUE
  /\ host' = h
  /\ LET table == resolv_init(names)
     IN  names' = resolv_query(table, TakenEntry(table), h)
  /\ seqno' = (seqno + 1) % SeqnoMod
  /\ target' = None /\ found' = <<>> /\ queries' = <<>>
  /\ UNCHANGED answers

(* The prompt is answered with an IP address: uip_init has freed the UDP   *)
(* connection, and the resolver is not called in this session.             *)
StartLiteral ==
  /\ ~up /\ sess < MaxSessions
  /\ sess' = sess + 1 /\ up' = TRUE /\ done' = FALSE /\ udp' = FALSE
  /\ host' = None /\ target' = None /\ found' = <<>> /\ queries' = <<>>
  /\ UNCHANGED <<names, seqno, answers>>

-------------------------------------------------------------------------------
(* What resolv_found does with its arguments. *)
resolv_found(calls) ==
  /\ found' = found \o calls
  /\ target' = IF calls # <<>> /\ calls[1].addr # None THEN calls[1].addr ELSE target
  /\ done' = (done \/ \E k \in DOMAIN calls : calls[k].addr = None)

Call(i, addr) == [name |-> names[i].name, addr |-> addr]

-------------------------------------------------------------------------------
(***************************************************************************)
(* check_entries, at every periodic call: it goes through the table up to  *)
(* the first entry that sends a query.                                     *)
(***************************************************************************)
Expires(e) == e.state = "ASKING" /\ e.tmr = 1

GivesUp(e) == Expires(e) /\ e.retries + 1 = MAX_RETRIES

Sends(e) == e.state = "NEW" \/ (Expires(e) /\ ~GivesUp(e))

Ticked(e) ==
  CASE e.state = "NEW" -> [e EXCEPT !.state = "ASKING", !.tmr = 1, !.retries = 0]
    [] GivesUp(e)      -> [e EXCEPT !.state = "ERROR", !.tmr = 0, !.retries = @ + 1]
    [] Expires(e) /\ ~GivesUp(e) -> [e EXCEPT !.tmr = e.retries + 1, !.retries = @ + 1]
    [] e.state = "ASKING" /\ ~Expires(e) -> [e EXCEPT !.tmr = @ - 1]
    [] OTHER           -> e

check_entries ==
  LET senders == {i \in Entries : Sends(names[i])}
      reached == {i \in Entries : \A j \in senders : i <= j}
      failing == {i \in reached : GivesUp(names[i])}
      nth(k)  == CHOOSE i \in failing : Cardinality({j \in failing : j < i}) = k - 1
  IN  /\ names' = [i \in Entries |-> IF i \in reached THEN Ticked(names[i]) ELSE names[i]]
      /\ queries' = IF senders = {} THEN queries
                    ELSE Append(queries, [id |-> Min(senders), name |-> names[Min(senders)].name])
      /\ resolv_found([k \in 1..Cardinality(failing) |-> Call(nth(k), None)])

Poll ==
  /\ Running /\ udp
  /\ check_entries
  /\ UNCHANGED <<sess, up, host, udp, seqno, answers>>

-------------------------------------------------------------------------------
(* Mutant: an answer is taken in any state. *)
Expected_Any(a) == names[a.id].name # None

Expected(a) == names[a.id].state = "ASKING"

(* newdata: the answer's id is taken for the index of the entry, and the   *)
(* name in it is not compared.  An answer without an A record ends the     *)
(* query in silence.                                                       *)
RecvAnswer(a) ==
  /\ Running /\ udp /\ Expected(a)
  /\ names' = [names EXCEPT ![a.id].state = IF a.kind = "error" THEN "ERROR" ELSE "DONE"]
  /\ resolv_found(CASE a.kind = "address" -> <<Call(a.id, a.name)>>
                     [] a.kind = "error"   -> <<Call(a.id, None)>>
                     [] a.kind = "other"   -> <<>>)
  /\ UNCHANGED <<sess, up, host, udp, seqno, queries, answers>>

(* The connection, which this module does not model, ends the session. *)
ConnectionEnds ==
  /\ Running /\ (target # None \/ ~udp)
  /\ done' = TRUE
  /\ UNCHANGED <<sess, up, host, udp, names, seqno, target, found, queries, answers>>

LeaveLoop ==
  /\ up /\ done /\ up' = FALSE
  /\ UNCHANGED <<sess, done, host, udp, names, seqno, target, found, queries, answers>>

(* The name server answers a query of this session; the answer may arrive  *)
(* later.                                                                  *)
NameServer ==
  /\ \E k \in DOMAIN queries, kind \in AnswerKinds :
       answers' = answers \cup {[id |-> queries[k].id, name |-> queries[k].name, kind |-> kind]}
  /\ UNCHANGED <<sess, up, done, host, udp, names, seqno, target, found, queries>>

-------------------------------------------------------------------------------
Next ==
  \/ \E h \in Hosts : StartLookup(h)
  \/ StartLiteral \/ Poll \/ ConnectionEnds \/ LeaveLoop \/ NameServer
  \/ \E a \in answers : RecvAnswer(a)

Spec == Init /\ [][Next]_vars

(* The loop of main() runs, and its periodic timer expires again and       *)
(* again.  Nothing is assumed of the name server or the network.           *)
FairSpec == Spec /\ WF_vars(Poll) /\ WF_vars(LeaveLoop)

-------------------------------------------------------------------------------
(***************************************************************************)
(* Properties.                                                             *)
(***************************************************************************)

(* The type of every variable. *)
TypeOK ==
  /\ sess \in 0..MaxSessions
  /\ {up, done, udp} \subseteq BOOLEAN
  /\ {host, target} \subseteq Hosts \cup {None}
  /\ names \in [Entries -> [state : {"UNUSED", "NEW", "ASKING", "DONE", "ERROR"},
                            tmr : 0..MAX_RETRIES, retries : 0..MAX_RETRIES,
                            seqno : 0..(SeqnoMod - 1), name : Hosts \cup {None}]]
  /\ seqno \in 0..(SeqnoMod - 1)
  /\ found \in Seq([name : Hosts, addr : Hosts \cup {None}])
  /\ queries \in Seq([id : Entries, name : Hosts])
  /\ answers \subseteq [id : Entries, name : Hosts, kind : AnswerKinds]

(* resolv_found is called at most once for a query, whatever answers come  *)
(* late, twice or just as the resolver gives up, and only for the name     *)
(* that was asked for: main() is not made to connect twice, and a session  *)
(* that got its address is not ended by a late failure.                    *)
OneCallback == Len(found) <= 1 /\ \A k \in DOMAIN found : found[k].name = host

(* Giving up takes MAX_RETRIES unanswered queries, no less and no more.    *)
GivesUpAfterAll ==
  udp /\ (\E i \in Entries : names[i].state = "ERROR" /\ names[i].tmr = 0)
    => Len(queries) = MAX_RETRIES

(* The program hears of its query once, and of a failure only when all     *)
(* retries were made.                                                      *)
AnsweredOnce == OneCallback /\ GivesUpAfterAll

(* resolv.h has it that resolv_found is called when a hostname is found,   *)
(* or when a hostname was not found: every lookup comes to one of these.   *)
LookupEnds == (up /\ udp) ~> (found # <<>> \/ ~up)
===============================================================================
