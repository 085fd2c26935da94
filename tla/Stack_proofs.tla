------------------------------ MODULE Stack_proofs -----------------------------
(***************************************************************************)
(* Proofs about the parts of uIP beside TCP, each about its own module:    *)
(* the resolver, the ARP cache, the connection tables, the reassembly of   *)
(* fragments, the forwarding of packets, the main loop with its timers,    *)
(* the arithmetic on bytes and the input of IP; and the types of all of    *)
(* them together.                                                          *)
(***************************************************************************)
EXTENDS Integers, MCStack, FiniteSetTheorems, WellFoundedInduction, TLAPS

(* The naturals are well-founded: every set of them has a least one.       *)
LEMMA LeastOf ==
  ASSUME NEW M \in SUBSET Nat, M # {}
  PROVE  \E m \in M : \A k \in M : m <= k
<1> DEFINE R == OpToRel(<, Nat)
<1>1. IsWellFoundedOn(R, Nat)  BY NatLessThanWellFounded
<1>2. \A x, y \in Nat : x < y => <<x, y>> \in R  BY DEF OpToRel
<1> HIDE DEF R
<1>3. PICK m \in M : \A k \in M : ~(<<k, m>> \in R)
  BY <1>1, WFMin
<1>4. \A k \in M : ~(k < m)
  BY <1>2, <1>3
<1> QED  BY <1>4

(* Division with a remainder, which is unique.                             *)
LEMMA Divided ==
  ASSUME NEW x \in Nat, NEW P \in Nat, P > 0
  PROVE  /\ x \div P \in Nat /\ x % P \in 0..P-1 /\ x = P * (x \div P) + (x % P)
OBVIOUS

LEMMA Quotient ==
  ASSUME NEW P \in Nat, P > 0, NEW q \in Int, NEW r \in 0..(P-1), P * q + r \in Nat
  PROVE  (P * q + r) % P = r
OBVIOUS

LEMMA Multiple ==
  ASSUME NEW P \in Nat, P > 0, NEW A \in Nat, A > 0, NEW C \in Nat, C > 0, A % P = 0, C % A = 0
  PROVE  C % P = 0
<1>1. A = P * (A \div P) /\ A \div P \in Nat  BY Divided
<1>2. C = A * (C \div A) /\ C \div A \in Nat  BY Divided
<1> DEFINE q == (A \div P) * (C \div A)
<1>3. C = P * q + 0 /\ q \in Nat
  <2> DEFINE a == A \div P  c == C \div A
  <2>1. A = P * a /\ C = A * c /\ a \in Nat /\ c \in Nat  BY <1>1, <1>2
  <2> HIDE DEF a, c
  <2>2. (P * a) * c = P * (a * c) /\ a * c \in Nat  BY <2>1
  <2>3. C = P * (a * c)  BY <2>1, <2>2
  <2> QED  BY <2>2, <2>3 DEF a, c
<1> HIDE DEF q
<1> QED  BY <1>3, Quotient

LEMMA Times ==
  ASSUME NEW d \in Nat, NEW m \in Nat, NEW P \in Nat
  PROVE  d * P \in Nat /\ (d + 1) * P = d * P + P /\ (d <= m => d * P <= m * P)
         /\ (d > 0 => (d - 1) * P = d * P - P) /\ 0 * P = 0
<1>1. d * P \in Nat /\ (d + 1) * P = d * P + P /\ (d - 1) * P = d * P - P /\ 0 * P = 0
  OBVIOUS
<1>2. ASSUME d <= m PROVE d * P <= m * P
  <2>1. (m - d) * P = m * P - d * P /\ m - d \in Nat  BY <1>2
  <2>2. (m - d) * P \in Nat  BY <2>1
  <2> QED  BY <1>1, <2>1, <2>2
<1> QED  BY <1>1, <1>2

LEMMA Within ==
  ASSUME NEW C \in Nat, C > 0, NEW x \in 0..(2 * C - 1)
  PROVE  x % C = IF x < C THEN x ELSE x - C
<1>1. CASE x < C
  <2>1. x = C * 0 + x /\ x \in 0..(C-1)  BY <1>1
  <2>2. (C * 0 + x) % C = x  BY <2>1, Quotient
  <2> QED  BY <1>1, <2>1, <2>2
<1>2. CASE x >= C
  <2> DEFINE y == x - C
  <2>1. x = C * 1 + y /\ y \in 0..(C-1) /\ y = x - C  BY <1>2
  <2> HIDE DEF y
  <2>2. (C * 1 + y) % C = y  BY <2>1, Quotient
  <2> QED  BY <1>2, <2>1, <2>2
<1> QED  BY <1>1, <1>2

-------------------------------------------------------------------------------
(***************************************************************************)
(* Resolver: for every size of the table, number of retries, of hosts and  *)
(* of sessions, resolv_found is called once at most in a session, for the  *)
(* name that was asked for, and giving up takes all retries.               *)
(***************************************************************************)

Entry == [state : {"UNUSED", "NEW", "ASKING", "DONE", "ERROR"},
          tmr : 0..MAX_RETRIES, retries : 0..MAX_RETRIES,
          seqno : 0..(SeqnoMod - 1), name : Hosts \cup {None}]

(* The query of an entry is under way. *)
Active(i) == names[i].state \in {"NEW", "ASKING"}

(* An entry gave up, and was not taken since. *)
GaveUp(i) == names[i].state = "ERROR" /\ names[i].tmr = 0

(* The part of the type the steps depend on. *)
Typed ==
  /\ names \in [Entries -> Entry]
  /\ seqno \in 0..(SeqnoMod - 1)
  /\ found \in Seq([name : Hosts, addr : Hosts \cup {None}])
  /\ queries \in Seq([id : Entries, name : Hosts])
  /\ answers \subseteq [id : Entries, name : Hosts, kind : AnswerKinds]

(* A timer that runs has at least a tick left; retries stay below the      *)
(* limit.                                                                  *)
Timed ==
  \A i \in Entries : names[i].state = "ASKING" => names[i].tmr >= 1 /\ names[i].retries < MAX_RETRIES

(* There is one query under way at most, that of the session, of which     *)
(* nobody has been told; as many were sent as were counted.                *)
OneQuery ==
  udp => /\ \A i, j \in Entries : Active(i) /\ Active(j) => i = j
         /\ \A i \in Entries : Active(i) =>
              /\ names[i].name = host /\ host \in Hosts
              /\ found = <<>>
              /\ Len(queries) = IF names[i].state = "NEW" THEN 0 ELSE names[i].retries + 1
              /\ \A j \in Entries : ~GaveUp(j)

ResolverInv == Typed /\ Timed /\ OneQuery /\ OneCallback /\ GivesUpAfterAll

(* The sequences of calls and queries: of none, of one, and one more. *)
LEMMA OneOf ==
  ASSUME NEW S, NEW x \in S
  PROVE  <<x>> \in Seq(S) /\ Len(<<x>>) = 1 /\ DOMAIN <<x>> = {1} /\ <<x>>[1] = x
OBVIOUS

LEMMA NoneMore ==
  ASSUME NEW S, NEW s \in Seq(S)
  PROVE  s \o <<>> = s
OBVIOUS

LEMMA OneMore ==
  ASSUME NEW S, NEW s \in Seq(S), NEW x \in S
  PROVE  Append(s, x) \in Seq(S) /\ Len(Append(s, x)) = Len(s) + 1
OBVIOUS

LEMMA ElementOf ==
  ASSUME NEW S, NEW s \in Seq(S), NEW k \in DOMAIN s
  PROVE  s[k] \in S
OBVIOUS

LEMMA JustOne ==
  ASSUME NEW x
  PROVE  <<>> \o <<x>> = <<x>>
OBVIOUS

LEMMA OneCall ==
  ASSUME NEW n \in Hosts, NEW addr \in Hosts \cup {None}, NEW c,
         c = <<[name |-> n, addr |-> addr]>>
  PROVE  /\ c \in Seq([name : Hosts, addr : Hosts \cup {None}])
         /\ Len(c) <= 1 /\ \A k \in DOMAIN c : c[k].name = n
<1> DEFINE x == [name |-> n, addr |-> addr]
<1>1. x \in [name : Hosts, addr : Hosts \cup {None}] /\ x.name = n /\ c = <<x>>
  OBVIOUS
<1> HIDE DEF x
<1> QED
  BY <1>1, OneOf

(* What a call of resolv_found adds to the history. *)
LEMMA FoundNow == ASSUME NEW c, resolv_found(c) PROVE found' = found \o c
BY Zenon DEF resolv_found

LEMMA ResolverInitInv == Init => ResolverInv
<1> SUFFICES ASSUME Init PROVE ResolverInv
  OBVIOUS
<1>1. \A i \in Entries : names[i] \in Entry /\ names[i].state = "UNUSED"
  BY ResolverAssumption DEF Init, Entry
<1>2. Typed
  <2>1. names \in [Entries -> Entry]
    BY <1>1 DEF Init
  <2>2. seqno \in 0..(SeqnoMod - 1)
    BY ResolverAssumption DEF Init
  <2> QED
    BY <2>1, <2>2 DEF Init, Typed
<1> QED
  BY <1>1, <1>2 DEF Init, ResolverInv, Timed, OneQuery, OneCallback, GivesUpAfterAll, Active

(* A lookup starts the one query there is.                                 *)
LEMMA LookupStarts == ASSUME ResolverInv, NEW h \in Hosts, StartLookup(h) PROVE ResolverInv'
<1> DEFINE t == TakenEntry(resolv_init(names))
<1>1. names \in [Entries -> Entry] /\ seqno \in 0..(SeqnoMod - 1)
  BY DEF ResolverInv, Typed
<1>2. names' = [i \in Entries |->
        IF i = t THEN [names[i] EXCEPT !.state = "NEW", !.seqno = seqno, !.name = h]
                 ELSE [names[i] EXCEPT !.state = "DONE"]]
  BY <1>1 DEF StartLookup, resolv_query, resolv_init, Entry
<1> HIDE DEF t
<1>3. \A i \in Entries : names'[i] \in Entry
  BY <1>1, <1>2 DEF Entry
<1>4. \A i \in Entries : /\ names'[i].state = IF i = t THEN "NEW" ELSE "DONE"
                         /\ i = t => names'[i].name = h
  BY <1>1, <1>2 DEF Entry
<1>5. seqno' \in 0..(SeqnoMod - 1)
  BY <1>1, ResolverAssumption DEF StartLookup
<1>6. found' = <<>> /\ queries' = <<>> /\ host' = h /\ udp' /\ answers' = answers
  BY DEF StartLookup
<1>7. Typed'
  <2>1. names' \in [Entries -> Entry]
    BY <1>2, <1>3
  <2> QED
    BY <1>5, <1>6, <2>1 DEF ResolverInv, Typed
<1>8. Timed' /\ OneCallback' /\ GivesUpAfterAll'
  BY <1>4, <1>6 DEF Timed, OneCallback, GivesUpAfterAll
<1>9. OneQuery'
  BY <1>4, <1>6 DEF OneQuery, Active, GaveUp
<1> QED
  BY <1>7, <1>8, <1>9 DEF ResolverInv

LEMMA LiteralStarts == ASSUME ResolverInv, StartLiteral PROVE ResolverInv'
<1>1. found' = <<>> /\ queries' = <<>> /\ ~udp' /\ UNCHANGED <<names, seqno, answers>>
  BY DEF StartLiteral
<1>2. Typed'
  BY <1>1 DEF ResolverInv, Typed
<1> QED
  BY <1>1, <1>2 DEF ResolverInv, Timed, OneQuery, OneCallback, GivesUpAfterAll

(* What the invariant is about does not change, but for the answers under  *)
(* way.                                                                    *)
LEMMA OthersKeep ==
  ASSUME ResolverInv, UNCHANGED <<host, udp, names, seqno, found, queries>>,
         answers' \subseteq [id : Entries, name : Hosts, kind : AnswerKinds]
  PROVE  ResolverInv'
<1>1. Typed'
  BY DEF ResolverInv, Typed
<1> QED
  BY <1>1 DEF ResolverInv, Timed, OneQuery, OneCallback, GivesUpAfterAll, Active, GaveUp

LEMMA ServerAnswers == ASSUME ResolverInv, NameServer PROVE ResolverInv'
<1>1. PICK k \in DOMAIN queries, kind \in AnswerKinds :
        answers' = answers \cup {[id |-> queries[k].id, name |-> queries[k].name, kind |-> kind]}
  BY DEF NameServer
<1>2. queries[k] \in [id : Entries, name : Hosts]
  <2>1. queries \in Seq([id : Entries, name : Hosts])
    BY DEF ResolverInv, Typed
  <2> QED
    BY <2>1, ElementOf
<1>3. answers' \subseteq [id : Entries, name : Hosts, kind : AnswerKinds]
  BY <1>1, <1>2 DEF ResolverInv, Typed
<1> QED
  BY <1>3, OthersKeep DEF NameServer

(* An answer ends the query under way: no other is there to be told of.    *)
LEMMA AnswerEnds == ASSUME ResolverInv, NEW a \in answers, RecvAnswer(a) PROVE ResolverInv'
<1> DEFINE s == IF a.kind = "error" THEN "ERROR" ELSE "DONE"
<1>1. /\ names \in [Entries -> Entry] /\ a.id \in Entries /\ a.name \in Hosts
      /\ a.kind \in {"address", "error", "other"}
  BY ResolverAssumption DEF ResolverInv, Typed
<1>2. Active(a.id) /\ names[a.id].state = "ASKING" /\ names[a.id].tmr >= 1
  BY <1>1 DEF RecvAnswer, Expected, Active, ResolverInv, Timed
<1>3. udp /\ found = <<>> /\ names[a.id].name = host /\ host \in Hosts
      /\ (\A j \in Entries : ~GaveUp(j))
      /\ \A j \in Entries : Active(j) => j = a.id
  BY <1>1, <1>2 DEF RecvAnswer, ResolverInv, OneQuery
<1>4. UNCHANGED <<host, udp, seqno, queries, answers>>
  BY DEF RecvAnswer
<1>5. names' = [names EXCEPT ![a.id].state = s]
  BY DEF RecvAnswer
<1>6. \A i \in Entries : /\ names'[i] \in Entry
                         /\ i # a.id => names'[i] = names[i]
                         /\ i = a.id => names'[i].state = s /\ names'[i].tmr = names[i].tmr
  BY <1>1, <1>5 DEF Entry
<1>7. found' = <<>> \/ \E addr \in Hosts \cup {None} : found' = <<[name |-> host, addr |-> addr]>>
  <2>1. CASE a.kind = "other"
    <3>1. resolv_found(<<>>)
      BY <2>1 DEF RecvAnswer
    <3>2. found' = found \o <<>>
      BY <3>1, FoundNow
    <3> QED
      BY <1>3, <3>2
  <2>2. CASE a.kind = "address"
    <3>1. resolv_found(<<Call(a.id, a.name)>>)
      BY <2>2 DEF RecvAnswer
    <3>2. found' = found \o <<Call(a.id, a.name)>>
      BY <3>1, FoundNow
    <3>3. found' = <<Call(a.id, a.name)>>
      BY <1>3, <3>2, JustOne, Zenon
    <3> QED
      BY <1>1, <1>3, <3>3, Zenon DEF Call
  <2>3. CASE a.kind = "error"
    <3>1. resolv_found(<<Call(a.id, None)>>)
      BY <2>3 DEF RecvAnswer
    <3>2. found' = found \o <<Call(a.id, None)>>
      BY <3>1, FoundNow
    <3>3. found' = <<Call(a.id, None)>>
      BY <1>3, <3>2, JustOne, Zenon
    <3>4. None \in Hosts \cup {None}
      OBVIOUS
    <3> QED
      BY <1>3, <3>3, <3>4, Zenon DEF Call
  <2> QED
    BY <1>1, <2>1, <2>2, <2>3
<1>8. /\ found' \in Seq([name : Hosts, addr : Hosts \cup {None}])
      /\ Len(found') <= 1 /\ \A k \in DOMAIN found' : found'[k].name = host
  <2>1. CASE found' = <<>>
    BY <2>1
  <2>2. ASSUME NEW addr \in Hosts \cup {None}, found' = <<[name |-> host, addr |-> addr]>>
        PROVE  /\ found' \in Seq([name : Hosts, addr : Hosts \cup {None}])
               /\ Len(found') <= 1 /\ \A k \in DOMAIN found' : found'[k].name = host
    BY <1>3, <2>2, OneCall
  <2> QED
    BY <1>7, <2>1, <2>2
<1>9. Typed' /\ OneCallback'
  <2>1. names' \in [Entries -> Entry]
    BY <1>1, <1>5, <1>6
  <2> QED
    BY <1>4, <1>8, <2>1 DEF ResolverInv, Typed, OneCallback
<1>10. Timed' /\ GivesUpAfterAll' /\ OneQuery'
  <2>1. \A i \in Entries : names'[i].state = "ASKING" => i # a.id
    BY <1>6
  <2>2. \A i \in Entries : ~Active(i)'
    BY <1>3, <1>6 DEF Active
  <2>3. \A i \in Entries : ~GaveUp(i)'
    BY <1>1, <1>2, <1>3, <1>6 DEF GaveUp, Entry
  <2> QED
    BY <1>6, <2>1, <2>2, <2>3 DEF Timed, GivesUpAfterAll, OneQuery, GaveUp, ResolverInv
<1> QED
  BY <1>9, <1>10 DEF ResolverInv

(* No call of resolv_found, or one of a query that failed.                 *)
LEMMA Calls ==
  ASSUME NEW failing, NEW calls, found \in Seq([name : Hosts, addr : Hosts \cup {None}]),
         NEW f, calls = [k \in 1..Cardinality(failing) |-> f[k]],
         resolv_found(calls)
  PROVE  /\ failing = {} => found' = found
         /\ \A i : failing = {i} /\ found = <<>> => found' = <<f[1]>>
<1>1. found' = found \o calls
  BY FoundNow
<1>2. ASSUME failing = {} PROVE found' = found
  <2>1. Cardinality(failing) = 0
    BY <1>2, FS_EmptySet
  <2>2. calls = <<>>
    BY <2>1
  <2> QED
    BY <1>1, <2>2, NoneMore
<1>3. ASSUME NEW i, failing = {i}, found = <<>> PROVE found' = <<f[1]>>
  <2>1. Cardinality(failing) = 1
    BY <1>3, FS_Singleton
  <2>2. calls = <<f[1]>>
    BY <2>1
  <2> QED
    BY <1>1, <1>3, <2>2, JustOne, Zenon
<1> QED
  BY <1>2, <1>3

(* What a periodic call does to the table, the queries and the calls.      *)
LEMMA PollDoes ==
  ASSUME ResolverInv, Poll
  PROVE  /\ UNCHANGED <<host, udp, seqno, answers>>
         /\ (\A j \in Entries : ~Active(j)) => UNCHANGED <<names, queries, found>>
         /\ \A i \in Entries : Active(i) =>
              /\ names' = [names EXCEPT ![i] = Ticked(names[i])]
              /\ queries' = IF Sends(names[i]) THEN Append(queries, [id |-> i, name |-> host])
                            ELSE queries
              /\ found' = IF GivesUp(names[i]) THEN <<[name |-> host, addr |-> None]>> ELSE found
<1> DEFINE senders == {i \in Entries : Sends(names[i])}
           reached == {i \in Entries : \A j \in senders : i <= j}
           failing == {i \in reached : GivesUp(names[i])}
           nth(k)  == CHOOSE i \in failing : Cardinality({j \in failing : j < i}) = k - 1
           f       == [k \in 1..Cardinality(failing) |-> Call(nth(k), None)]
<1>1. /\ UNCHANGED <<host, udp, seqno, answers>> /\ udp
      /\ names' = [i \in Entries |-> IF i \in reached THEN Ticked(names[i]) ELSE names[i]]
      /\ queries' = IF senders = {} THEN queries
                    ELSE Append(queries, [id |-> Min(senders), name |-> names[Min(senders)].name])
      /\ resolv_found(f)
  BY DEF Poll, check_entries
<1>2. \A i \in Entries : ~Active(i) => ~Sends(names[i]) /\ ~GivesUp(names[i]) /\ Ticked(names[i]) = names[i]
  BY DEF Active, Sends, GivesUp, Expires, Ticked
<1>3. names \in [Entries -> Entry] /\ found \in Seq([name : Hosts, addr : Hosts \cup {None}])
  BY DEF ResolverInv, Typed
<1>4. /\ failing = {} => found' = found
      /\ \A i : failing = {i} /\ found = <<>> => found' = <<f[1]>>
  <2>1. f = [k \in 1..Cardinality(failing) |-> f[k]]
    OBVIOUS
  <2> HIDE DEF f, failing
  <2> QED
    BY <1>1, <1>3, <2>1, Calls
<1>5. ASSUME \A j \in Entries : ~Active(j) PROVE UNCHANGED <<names, queries, found>>
  <2>1. senders = {} /\ failing = {}
    BY <1>2, <1>5
  <2>2. \A i \in Entries : names'[i] = names[i]
    BY <1>1, <1>2, <1>5
  <2>3. names' = names
    BY <1>1, <1>3, <2>2
  <2> QED
    BY <1>1, <1>4, <2>1, <2>3
<1>6. ASSUME NEW i \in Entries, Active(i)
      PROVE  /\ names' = [names EXCEPT ![i] = Ticked(names[i])]
             /\ queries' = IF Sends(names[i]) THEN Append(queries, [id |-> i, name |-> host])
                           ELSE queries
             /\ found' = IF GivesUp(names[i]) THEN <<[name |-> host, addr |-> None]>> ELSE found
  <2>1. /\ names[i].name = host /\ found = <<>>
        /\ \A j \in Entries : j # i => ~Active(j)
    BY <1>1, <1>6 DEF ResolverInv, OneQuery
  <2>2. \A j \in Entries : j # i => Ticked(names[j]) = names[j] /\ ~Sends(names[j]) /\ ~GivesUp(names[j])
    BY <1>2, <2>1
  <2>3. senders = IF Sends(names[i]) THEN {i} ELSE {}
    BY <2>2
  <2>4. i \in Int /\ i \in reached
    BY <2>3, ResolverAssumption DEF Entries
  <2>5. failing = IF GivesUp(names[i]) THEN {i} ELSE {}
    BY <2>2, <2>4
  <2>6. names' = [names EXCEPT ![i] = Ticked(names[i])]
    <3> HIDE DEF reached
    <3> QED
      BY <1>1, <1>3, <2>2, <2>4
  <2>7. queries' = IF Sends(names[i]) THEN Append(queries, [id |-> i, name |-> host]) ELSE queries
    <3>1. Min({i}) = i
      BY <2>4 DEF Min
    <3> HIDE DEF senders
    <3> QED
      BY <1>1, <2>1, <2>3, <3>1
  <2>8. found' = IF GivesUp(names[i]) THEN <<[name |-> host, addr |-> None]>> ELSE found
    <3>1. CASE ~GivesUp(names[i])
      BY <1>4, <2>5, <3>1
    <3>2. CASE GivesUp(names[i])
      <4>1. failing = {i}
        BY <2>5, <3>2
      <4>2. {j \in failing : j < i} = {}
        BY <2>4, <4>1
      <4>3. Cardinality({j \in failing : j < i}) = 0
        BY <4>2, FS_EmptySet
      <4>4. nth(1) = i
        <5> HIDE DEF failing
        <5> QED
          BY <4>1, <4>3
      <4>5. f[1] = [name |-> host, addr |-> None]
        <5>1. Cardinality(failing) = 1
          BY <4>1, FS_Singleton
        <5>2. Call(nth(1), None) = [name |-> host, addr |-> None]
          BY <2>1, <4>4 DEF Call
        <5> HIDE DEF nth, failing
        <5> QED
          BY <5>1, <5>2
      <4>6. found' = <<f[1]>>
        <5> HIDE DEF f, failing
        <5> QED
          BY <1>4, <2>1, <4>1
      <4> QED
        BY <3>2, <4>5, <4>6
    <3> QED
      BY <3>1, <3>2
  <2> QED
    BY <2>6, <2>7, <2>8
<1> QED
  BY <1>1, <1>5, <1>6

(* The step of one entry: its timer, and what it has to be to send or fail. *)
LEMMA TickedEntry ==
  ASSUME NEW e \in Entry, e.state \in {"NEW", "ASKING"},
         e.state = "ASKING" => e.tmr >= 1 /\ e.retries < MAX_RETRIES
  PROVE  /\ Ticked(e) \in Entry /\ Ticked(e).name = e.name
         /\ Ticked(e).state = IF GivesUp(e) THEN "ERROR" ELSE "ASKING"
         /\ ~GivesUp(e) => Ticked(e).tmr >= 1 /\ Ticked(e).retries < MAX_RETRIES
         /\ Ticked(e).retries = IF e.state = "NEW" THEN 0
                                ELSE IF Expires(e) THEN e.retries + 1 ELSE e.retries
<1> USE ResolverAssumption DEF Entry
<1>1. CASE e.state = "NEW"
  <2>1. Ticked(e) = [e EXCEPT !.state = "ASKING", !.tmr = 1, !.retries = 0] /\ ~GivesUp(e)
    BY <1>1 DEF Ticked, GivesUp, Expires
  <2>2. Ticked(e) \in Entry
    <3>1. Ticked(e) = [state |-> "ASKING", tmr |-> 1, retries |-> 0,
                       seqno |-> e.seqno, name |-> e.name]
      BY <2>1
    <3> QED
      BY <2>1, <3>1
  <2>3. /\ Ticked(e).state = "ASKING" /\ Ticked(e).name = e.name
        /\ Ticked(e).tmr = 1 /\ Ticked(e).retries = 0
    BY <2>1
  <2> QED
    BY <1>1, <2>1, <2>2, <2>3
<1>2. CASE GivesUp(e)
  <2>1. Ticked(e) = [e EXCEPT !.state = "ERROR", !.tmr = 0, !.retries = @ + 1]
    BY <1>2 DEF Ticked, GivesUp, Expires
  <2>2. Ticked(e) \in Entry
    <3>1. Ticked(e) = [state |-> "ERROR", tmr |-> 0, retries |-> e.retries + 1,
                       seqno |-> e.seqno, name |-> e.name]
      BY <2>1
    <3> QED
      BY <1>2, <2>1, <3>1 DEF GivesUp
  <2>3. /\ Ticked(e).state = "ERROR" /\ Ticked(e).name = e.name
        /\ Ticked(e).retries = e.retries + 1 /\ Expires(e)
    BY <1>2, <2>1 DEF GivesUp
  <2> QED
    BY <1>2, <2>2, <2>3 DEF Expires
<1>3. CASE Expires(e) /\ ~GivesUp(e)
  <2>1. /\ Ticked(e) = [e EXCEPT !.tmr = e.retries + 1, !.retries = @ + 1]
        /\ e.state = "ASKING" /\ e.retries + 1 < MAX_RETRIES
    BY <1>3 DEF Ticked, GivesUp, Expires
  <2>2. Ticked(e) \in Entry
    <3>1. Ticked(e) = [state |-> e.state, tmr |-> e.retries + 1, retries |-> e.retries + 1,
                       seqno |-> e.seqno, name |-> e.name]
      BY <2>1
    <3> QED
      BY <2>1, <3>1
  <2>3. /\ Ticked(e).state = "ASKING" /\ Ticked(e).name = e.name
        /\ Ticked(e).tmr = e.retries + 1 /\ Ticked(e).retries = e.retries + 1
    BY <2>1
  <2> QED
    BY <1>3, <2>1, <2>2, <2>3
<1>4. CASE e.state = "ASKING" /\ ~Expires(e)
  <2>1. Ticked(e) = [e EXCEPT !.tmr = @ - 1] /\ ~GivesUp(e) /\ e.tmr > 1
    BY <1>4 DEF Ticked, GivesUp, Expires
  <2>2. Ticked(e) \in Entry
    BY <2>1
  <2>3. /\ Ticked(e).state = "ASKING" /\ Ticked(e).name = e.name
        /\ Ticked(e).tmr = e.tmr - 1 /\ Ticked(e).retries = e.retries
    BY <1>4, <2>1
  <2> QED
    BY <1>4, <2>1, <2>2, <2>3
<1> QED
  BY <1>1, <1>2, <1>3, <1>4 DEF GivesUp, Expires

(* A periodic call sends, counts down or gives up for the one query; it    *)
(* gives up when as many were sent as the limit says.                      *)
LEMMA PollKeeps == ASSUME ResolverInv, Poll PROVE ResolverInv'
<1>1. CASE \A j \in Entries : ~Active(j)
  BY <1>1, PollDoes, OthersKeep DEF ResolverInv, Typed
<1>2. ASSUME NEW i \in Entries, Active(i) PROVE ResolverInv'
  <2> DEFINE e == names[i]
  <2>1. /\ e \in Entry /\ e.state \in {"NEW", "ASKING"}
        /\ e.state = "ASKING" => e.tmr >= 1 /\ e.retries < MAX_RETRIES
        /\ names \in [Entries -> Entry] /\ queries \in Seq([id : Entries, name : Hosts])
    BY <1>2 DEF ResolverInv, Typed, Timed, Active
  <2>2. /\ udp /\ e.name = host /\ host \in Hosts /\ found = <<>>
        /\ Len(queries) = IF e.state = "NEW" THEN 0 ELSE e.retries + 1
        /\ \A j \in Entries : ~GaveUp(j)
        /\ \A j \in Entries : Active(j) => j = i
    BY <1>2 DEF ResolverInv, OneQuery, Poll
  <2>3. /\ UNCHANGED <<host, udp, seqno, answers>>
        /\ names' = [names EXCEPT ![i] = Ticked(e)]
        /\ queries' = IF Sends(e) THEN Append(queries, [id |-> i, name |-> host]) ELSE queries
        /\ found' = IF GivesUp(e) THEN <<[name |-> host, addr |-> None]>> ELSE found
    BY <1>2, PollDoes
  <2>4. /\ Ticked(e) \in Entry /\ Ticked(e).name = e.name
        /\ Ticked(e).state = IF GivesUp(e) THEN "ERROR" ELSE "ASKING"
        /\ ~GivesUp(e) => Ticked(e).tmr >= 1 /\ Ticked(e).retries < MAX_RETRIES
        /\ Ticked(e).retries = IF e.state = "NEW" THEN 0
                               ELSE IF Expires(e) THEN e.retries + 1 ELSE e.retries
        /\ Sends(e) <=> e.state = "NEW" \/ (Expires(e) /\ ~GivesUp(e))
        /\ GivesUp(e) => e.state = "ASKING" /\ e.retries + 1 = MAX_RETRIES
    <3> HIDE DEF e
    <3> QED
      BY <2>1, TickedEntry DEF Sends, GivesUp, Expires
  <2> HIDE DEF e
  <2>5. \A j \in Entries : names'[j] = IF j = i THEN Ticked(e) ELSE names[j]
    BY <2>1, <2>3
  <2>6. names' \in [Entries -> Entry]
    BY <2>1, <2>3, <2>4
  <2>7. /\ queries' \in Seq([id : Entries, name : Hosts])
        /\ Len(queries') = IF Sends(e) THEN Len(queries) + 1 ELSE Len(queries)
    <3>1. [id |-> i, name |-> host] \in [id : Entries, name : Hosts]
      BY <2>2
    <3> QED
      BY <2>1, <2>3, <3>1, OneMore
  <2>8. Typed'
    <3>1. found' \in Seq([name : Hosts, addr : Hosts \cup {None}])
      <4>1. CASE GivesUp(e)
        <5>1. None \in Hosts \cup {None} /\ found' = <<[name |-> host, addr |-> None]>>
          BY <2>3, <4>1
        <5> QED
          BY <2>2, <5>1, OneCall
      <4>2. CASE ~GivesUp(e)
        BY <2>2, <2>3, <4>2
      <4> QED
        BY <4>1, <4>2
    <3> QED
      BY <2>3, <2>6, <2>7, <3>1 DEF ResolverInv, Typed
  <2>9. OneCallback'
    BY <2>2, <2>3, OneCall DEF OneCallback
  <2>10. Timed'
    BY <2>4, <2>5 DEF ResolverInv, Timed
  <2>11. CASE GivesUp(e)
    <3>1. \A j \in Entries : ~Active(j)'
      BY <2>2, <2>4, <2>5, <2>11 DEF Active
    <3>2. Len(queries') = MAX_RETRIES
      BY <2>2, <2>4, <2>7, <2>11
    <3> QED
      BY <2>8, <2>9, <2>10, <3>1, <3>2 DEF ResolverInv, OneQuery, GivesUpAfterAll
  <2>12. CASE ~GivesUp(e)
    <3>1. \A j \in Entries : Active(j)' => j = i
      BY <2>2, <2>5 DEF Active
    <3>2. \A j \in Entries : ~GaveUp(j)'
      BY <2>2, <2>4, <2>5, <2>12 DEF GaveUp
    <3>3. names'[i].state = "ASKING" /\ names'[i].name = host
      BY <2>2, <2>4, <2>5, <2>12
    <3>4. Len(queries') = names'[i].retries + 1
      <4>1. CASE e.state = "NEW"
        BY <2>2, <2>4, <2>5, <2>7, <4>1
      <4>2. CASE e.state = "ASKING" /\ Expires(e)
        BY <2>1, <2>2, <2>4, <2>5, <2>7, <2>12, <4>2 DEF Entry
      <4>3. CASE e.state = "ASKING" /\ ~Expires(e)
        BY <2>2, <2>4, <2>5, <2>7, <2>12, <4>3
      <4> QED
        BY <2>1, <4>1, <4>2, <4>3
    <3>5. OneQuery'
      BY <2>2, <2>3, <2>12, <3>1, <3>2, <3>3, <3>4 DEF OneQuery
    <3>6. GivesUpAfterAll'
      BY <3>2 DEF GivesUpAfterAll, GaveUp
    <3> QED
      BY <2>8, <2>9, <2>10, <3>5, <3>6 DEF ResolverInv
  <2> QED
    BY <2>11, <2>12
<1> QED
  BY <1>1, <1>2

LEMMA ResolverNextInv == ResolverInv /\ [Next]_vars => ResolverInv'
<1> SUFFICES ASSUME ResolverInv, [Next]_vars PROVE ResolverInv'
  OBVIOUS
<1>1. ASSUME NEW h \in Hosts, StartLookup(h) PROVE ResolverInv'
  BY <1>1, LookupStarts
<1>2. CASE StartLiteral
  BY <1>2, LiteralStarts
<1>3. CASE Poll
  BY <1>3, PollKeeps
<1>4. CASE ConnectionEnds \/ LeaveLoop \/ UNCHANGED vars
  <2>1. UNCHANGED <<host, udp, names, seqno, found, queries, answers>>
    BY <1>4 DEF ConnectionEnds, LeaveLoop, vars
  <2> QED
    BY <2>1, OthersKeep DEF ResolverInv, Typed
<1>5. CASE NameServer
  BY <1>5, ServerAnswers
<1>6. ASSUME NEW a \in answers, RecvAnswer(a) PROVE ResolverInv'
  BY <1>6, AnswerEnds
<1> QED
  BY <1>1, <1>2, <1>3, <1>4, <1>5, <1>6 DEF Next

(* However late, doubled or ill-timed the answers are, main() hears of its *)
(* query once at most, of the name it asked for, and of a failure of the   *)
(* resolver's own only after MAX_RETRIES queries.                          *)
THEOREM AnsweredOnceHolds == Spec => []AnsweredOnce
<1>1. ResolverInv => AnsweredOnce
  BY DEF ResolverInv, AnsweredOnce
<1> QED
  BY <1>1, ResolverInitInv, ResolverNextInv, PTL DEF Spec

-------------------------------------------------------------------------------
(***************************************************************************)
(* ArpCache: for every size of the table, every maximum age and period of  *)
(* arptime, packets go to where their next hop was heard.                  *)
(***************************************************************************)

(* What is known of neighbour a.  An address with a zero half is left out: *)
(* it may have several slots.                                              *)
Kept(a) ==
  \A i \in ArpSlots : arp_table[i].ip = a =>
    /\ \A j \in ArpSlots : arp_table[j].ip = a => j = i
    /\ arp_table[i].mac = heard[a]
    /\ since[a] <= arptime => arp_table[i].time = arptime - since[a] /\ since[a] < ARP_MAXAGE

ArpInv == ArpTypeOK /\ \A a \in Neighbours \ HalfZero : Kept(a)

LEMMA ArpInitInv == ArpInit => ArpInv
<1> SUFFICES ASSUME ArpInit PROVE ArpInv
  OBVIOUS
<1>1. \A i \in ArpSlots : arp_table[i].ip = Unused /\ arp_table[i] \in ArpEntries
  BY ArpAssumption DEF ArpInit, ArpEntries
<1>2. arp_table \in [ArpSlots -> ArpEntries]
  BY <1>1 DEF ArpInit
<1>3. ArpTypeOK
  BY <1>2, ArpAssumption DEF ArpInit, ArpTypeOK
<1> QED
  BY <1>1, <1>3, ArpAssumption DEF ArpInv, Kept

(* Time goes on: ages and counts go on together until arptime wraps.       *)
LEMMA TimerKeeps == ASSUME ArpInv, uip_arp_timer PROVE ArpInv'
<1> DEFINE later == (arptime + 1) % ArpTimes
           old   == {i \in ArpSlots : arp_table[i].ip # Unused /\ later - arp_table[i].time >= ARP_MAXAGE}
<1>1. /\ arptime \in Nat /\ arptime < ArpTimes /\ ArpTimes \in Nat \ {0} /\ ARP_MAXAGE \in Nat
      /\ arp_table \in [ArpSlots -> ArpEntries]
      /\ since \in [Neighbours -> 0..ArpTimes] /\ heard \in [Neighbours -> Macs \cup {Unused}]
  BY ArpAssumption DEF ArpInv, ArpTypeOK
<1>2. later = IF arptime + 1 = ArpTimes THEN 0 ELSE arptime + 1
  BY <1>1
<1>3. /\ arptime' = later /\ heard' = heard
      /\ arp_table' = [i \in ArpSlots |-> IF i \in old THEN [arp_table[i] EXCEPT !.ip = Unused]
                                                       ELSE arp_table[i]]
      /\ since' = [a \in Neighbours |-> IF since[a] < ArpTimes THEN since[a] + 1 ELSE ArpTimes]
  BY DEF uip_arp_timer
<1>4. \A i \in ArpSlots : /\ arp_table'[i] \in ArpEntries
                          /\ i \in old => arp_table'[i].ip = Unused
                          /\ i \notin old => arp_table'[i] = arp_table[i]
  <2> HIDE DEF old
  <2> QED
    BY <1>1, <1>3 DEF ArpEntries
<1>5. ArpTypeOK'
  <2>1. arp_table' \in [ArpSlots -> ArpEntries]
    BY <1>3, <1>4
  <2>2. arptime' \in 0..ArpTimes - 1
    BY <1>1, <1>2, <1>3
  <2>3. since' \in [Neighbours -> 0..ArpTimes]
    BY <1>1, <1>3
  <2> QED
    BY <1>1, <1>3, <2>1, <2>2, <2>3 DEF ArpTypeOK
<1>6. ASSUME NEW a \in Neighbours \ HalfZero, NEW i \in ArpSlots, arp_table'[i].ip = a
      PROVE  /\ \A j \in ArpSlots : arp_table'[j].ip = a => j = i
             /\ arp_table'[i].mac = heard'[a]
             /\ since'[a] <= arptime' => arp_table'[i].time = arptime' - since'[a] /\ since'[a] < ARP_MAXAGE
  <2>1. a # Unused /\ i \notin old /\ arp_table'[i] = arp_table[i] /\ arp_table[i].ip = a
    BY <1>4, <1>6, ArpAssumption
  <2>2. /\ \A j \in ArpSlots : arp_table[j].ip = a => j = i
        /\ arp_table[i].mac = heard[a]
        /\ since[a] <= arptime => arp_table[i].time = arptime - since[a] /\ since[a] < ARP_MAXAGE
    BY <2>1 DEF ArpInv, Kept
  <2>3. \A j \in ArpSlots : arp_table'[j].ip = a => j = i
    BY <1>4, <2>1, <2>2
  <2>4. later - arp_table[i].time < ARP_MAXAGE
    <3>1. arp_table[i].time \in Nat
      BY <1>1 DEF ArpEntries
    <3> QED
      BY <1>1, <1>2, <2>1, <3>1
  <2>5. ASSUME since'[a] <= arptime'
        PROVE  arp_table'[i].time = arptime' - since'[a] /\ since'[a] < ARP_MAXAGE
    <3>1. since[a] \in 0..ArpTimes /\ since'[a] = IF since[a] < ArpTimes THEN since[a] + 1 ELSE ArpTimes
      BY <1>1, <1>3
    <3>2. arptime' = arptime + 1 /\ since'[a] = since[a] + 1 /\ since[a] <= arptime
      BY <1>1, <1>2, <1>3, <2>5, <3>1
    <3> QED
      BY <1>1, <1>3, <2>1, <2>2, <2>4, <3>1, <3>2
  <2> QED
    BY <1>3, <2>1, <2>2, <2>3, <2>5
<1> QED
  BY <1>5, <1>6 DEF ArpInv, Kept

(* A neighbour that is known gets its own slot again; one that is not gets *)
(* one slot.                                                               *)
LEMMA UpdateKeeps ==
  ASSUME ArpInv, NEW a \in Neighbours, NEW mac \in Macs, uip_arp_arpin(a, mac)
  PROVE  ArpInv'
<1> DEFINE s == SlotFor(a)
           e == [ip |-> a, mac |-> mac, time |-> arptime]
<1>1. /\ arptime \in Nat /\ ARP_MAXAGE \in Nat \ {0}
      /\ arp_table \in [ArpSlots -> ArpEntries] /\ arptime \in 0..ArpTimes - 1
      /\ since \in [Neighbours -> 0..ArpTimes] /\ heard \in [Neighbours -> Macs \cup {Unused}]
      /\ ArpTimes \in Nat
  BY ArpAssumption DEF ArpInv, ArpTypeOK
<1>2. /\ arptime' = arptime
      /\ arp_table' = [arp_table EXCEPT ![s] = e]
      /\ heard' = [heard EXCEPT ![a] = mac]
      /\ since' = [since EXCEPT ![a] = 0]
  BY DEF uip_arp_arpin, uip_arp_update
<1>3. a \notin HalfZero => \A i \in ArpSlots : arp_table[i].ip = a => i = s
  <2> SUFFICES ASSUME a \notin HalfZero, NEW i \in ArpSlots, arp_table[i].ip = a
               PROVE  i = s
    OBVIOUS
  <2> DEFINE known == {j \in ArpSlots : arp_table[j].ip = a /\ a \notin HalfZero}
  <2>1. \A j \in ArpSlots : arp_table[j].ip = a => j = i
    BY DEF ArpInv, Kept
  <2>2. known = {i}
    BY <2>1
  <2>3. s = FirstSlot(known)
    BY <2>2 DEF SlotFor
  <2>4. FirstSlot({i}) = i
    <3>1. i \in Int
      BY ArpAssumption DEF ArpSlots
    <3> QED
      BY <3>1 DEF FirstSlot
  <2> QED
    BY <2>2, <2>3, <2>4
<1> HIDE DEF s
<1>4. e \in ArpEntries
  BY <1>1 DEF ArpEntries
<1>5. ArpTypeOK'
  <2>1. arp_table' \in [ArpSlots -> ArpEntries]
    <3> HIDE DEF e
    <3> QED
      BY <1>1, <1>2, <1>4
  <2>2. heard' \in [Neighbours -> Macs \cup {Unused}] /\ since' \in [Neighbours -> 0..ArpTimes]
    BY <1>1, <1>2
  <2> QED
    BY <1>1, <1>2, <2>1, <2>2 DEF ArpTypeOK
<1>6. \A i \in ArpSlots : arp_table'[i] = IF i = s THEN e ELSE arp_table[i]
  <2> HIDE DEF e
  <2> QED
    BY <1>1, <1>2
<1>7. \A b \in Neighbours : /\ heard'[b] = IF b = a THEN mac ELSE heard[b]
                            /\ since'[b] = IF b = a THEN 0 ELSE since[b]
  BY <1>1, <1>2
<1>8. ASSUME NEW b \in Neighbours \ HalfZero, NEW i \in ArpSlots, arp_table'[i].ip = b
      PROVE  /\ \A j \in ArpSlots : arp_table'[j].ip = b => j = i
             /\ arp_table'[i].mac = heard'[b]
             /\ since'[b] <= arptime' => arp_table'[i].time = arptime' - since'[b] /\ since'[b] < ARP_MAXAGE
  <2>1. e.ip = a /\ e.mac = mac /\ e.time = arptime
    OBVIOUS
  <2> HIDE DEF e
  <2>2. CASE b = a
    <3>1. \A j \in ArpSlots : arp_table'[j].ip = a => j = s
      BY <1>3, <1>6, <2>2
    <3>2. i = s /\ arp_table'[i] = e
      BY <1>6, <1>8, <2>2, <3>1
    <3>3. arp_table'[i].time = arptime' - since'[b] /\ since'[b] < ARP_MAXAGE
      BY <1>1, <1>2, <1>7, <2>1, <2>2, <3>2
    <3> QED
      BY <1>7, <2>1, <2>2, <3>1, <3>2, <3>3
  <2>3. CASE b # a
    <3>1. \A j \in ArpSlots : arp_table'[j].ip = b => j # s /\ arp_table'[j] = arp_table[j]
      BY <1>6, <2>1, <2>3
    <3>2. /\ \A j \in ArpSlots : arp_table[j].ip = b => j = i
          /\ arp_table[i].mac = heard[b]
          /\ since[b] <= arptime => arp_table[i].time = arptime - since[b] /\ since[b] < ARP_MAXAGE
      BY <1>8, <3>1 DEF ArpInv, Kept
    <3> QED
      BY <1>2, <1>7, <1>8, <2>3, <3>1, <3>2
  <2> QED
    BY <2>2, <2>3
<1> QED
  BY <1>5, <1>8 DEF ArpInv, Kept

LEMMA ArpNextInv == ArpInv /\ [ArpNext]_arpVars => ArpInv'
<1> SUFFICES ASSUME ArpInv, [ArpNext]_arpVars PROVE ArpInv'
  OBVIOUS
<1>1. CASE uip_arp_timer
  BY <1>1, TimerKeeps
<1>2. ASSUME NEW a \in Neighbours, NEW mac \in Macs, uip_arp_arpin(a, mac) PROVE ArpInv'
  BY <1>2, UpdateKeeps
<1>3. CASE UNCHANGED arpVars
  BY <1>3 DEF arpVars, ArpInv, ArpTypeOK, Kept
<1> QED
  BY <1>1, <1>2, <1>3 DEF ArpNext

LEMMA KeptIsHeard == ArpInv => ArpAsHeard
<1> SUFFICES ASSUME ArpInv PROVE AgedOut /\ SentAsHeard
  BY DEF ArpAsHeard
<1>1. AgedOut
  <2> SUFFICES ASSUME NEW a \in ArpKnown \ (ArpWrapped \cup HalfZero) PROVE since[a] < ARP_MAXAGE
    BY DEF AgedOut
  <2>1. PICK i \in ArpSlots : arp_table[i].ip = a
    BY DEF ArpKnown
  <2>2. a \in Neighbours \ HalfZero
    BY <2>1 DEF ArpKnown, ArpInv, ArpTypeOK, ArpEntries
  <2>3. since[a] \in Int /\ arptime \in Int
    BY <2>2, ArpAssumption DEF ArpInv, ArpTypeOK
  <2>4. since[a] <= arptime
    BY <2>3 DEF ArpWrapped
  <2> QED
    BY <2>1, <2>2, <2>4 DEF ArpInv, Kept
<1>2. SentAsHeard
  <2> SUFFICES ASSUME NEW dest \in Neighbours \cup {"far"}, NextHop(dest) \notin HalfZero
               PROVE  uip_arp_out(NextHop(dest)) \in {heard[NextHop(dest)], Unused}
    BY DEF SentAsHeard
  <2> DEFINE hop   == NextHop(dest)
             known == {i \in ArpSlots : arp_table[i].ip = hop}
  <2>1. hop \in Neighbours \ HalfZero /\ hop # "broadcast"
    BY ArpAssumption DEF NextHop
  <2> HIDE DEF hop
  <2>2. ASSUME known = {} PROVE uip_arp_out(hop) = Unused
    <3>1. ~(hop = "broadcast") /\ ~(hop # "broadcast" /\ known # {})
      BY <2>1, <2>2
    <3> QED
      BY <3>1, Zenon DEF uip_arp_out
  <2>3. ASSUME NEW i \in known PROVE uip_arp_out(hop) = heard[hop]
    <3>1. \A j \in ArpSlots : arp_table[j].ip = hop => j = i
      BY <2>1, <2>3 DEF ArpInv, Kept
    <3>2. arp_table[i].mac = heard[hop]
      BY <2>1, <2>3 DEF ArpInv, Kept
    <3>3. known = {i} /\ i \in Int
      BY <2>3, <3>1, ArpAssumption DEF ArpSlots
    <3>4. FirstSlot(known) = i
      BY <3>3 DEF FirstSlot
    <3> QED
      BY <2>1, <3>2, <3>3, <3>4 DEF uip_arp_out
  <2> QED
    BY <2>2, <2>3 DEF hop
<1> QED
  BY <1>1, <1>2

(* Whatever is replaced, times out or comes back, for every size of the    *)
(* table, maximum age and period of arptime: what is sent goes to the      *)
(* address its next hop was last heard with, and, until arptime wraps,     *)
(* nobody is kept for ARP_MAXAGE calls of the timer.                       *)
THEOREM ArpAsHeardHolds == ArpSpec => []ArpAsHeard
BY ArpInitInv, ArpNextInv, KeptIsHeard, PTL DEF ArpSpec

(* The slot that is looked for exists. *)
LEMMA FirstSlotOf ==
  ASSUME NEW S \in SUBSET ArpSlots, S # {} PROVE FirstSlot(S) \in S
<1>1. S \in SUBSET Nat
  BY ArpAssumption DEF ArpSlots
<1>2. \E i \in S : \A j \in S : i <= j
  BY <1>1, LeastOf
<1> QED
  BY <1>2 DEF FirstSlot

(* No entry is older than the one that makes room. *)
LEMMA OldestIsOldest ==
  ASSUME ArpInv, \A j \in ArpSlots : Age(j) >= 0
  PROVE  Oldest \in ArpSlots /\ \A j \in ArpSlots : Age(j) <= Age(Oldest)
<1> DEFINE aged  == {i \in ArpSlots : Age(i) > 0 /\ \A j \in ArpSlots : Age(j) <= Age(i)}
           times == {arp_table[j].time : j \in ArpSlots}
<1>1. /\ arptime \in Nat /\ \A j \in ArpSlots : arp_table[j].time \in Nat
      /\ ArpSlots # {}
  BY ArpAssumption DEF ArpInv, ArpTypeOK, ArpEntries, ArpSlots
<1>2. PICK first \in ArpSlots : \A j \in ArpSlots : arp_table[first].time <= arp_table[j].time
  <2>1. times \in SUBSET Nat /\ times # {}
    BY <1>1
  <2>2. PICK t \in times : \A u \in times : t <= u
    BY <2>1, LeastOf
  <2> QED
    BY <2>2
<1>3. \A j \in ArpSlots : Age(j) <= Age(first)
  BY <1>1, <1>2 DEF Age
<1>4. CASE aged # {}
  <2>1. Oldest = FirstSlot(aged)
    BY <1>4 DEF Oldest
  <2>2. FirstSlot(aged) \in aged
    BY <1>4, FirstSlotOf
  <2> QED
    BY <2>1, <2>2
<1>5. CASE aged = {}
  <2>1. Oldest = FirstSlot(ArpSlots)
    BY <1>5 DEF Oldest
  <2>2. Oldest \in ArpSlots
    BY <1>1, <2>1, FirstSlotOf
  <2>3. \A j \in ArpSlots : Age(j) \in Int
    BY <1>1 DEF Age
  <2>4. Age(first) = 0
    BY <1>3, <1>5, <2>3
  <2>5. \A j \in ArpSlots : Age(j) = 0
    BY <1>3, <2>3, <2>4
  <2> QED
    BY <2>2, <2>5
<1> QED
  BY <1>4, <1>5

LEMMA VictimIsOldest ==
  ASSUME ArpInv, NEW a \in Neighbours, NEW mac \in Macs, uip_arp_arpin(a, mac), NEW i \in ArpSlots,
         ArpWrapped \cup (ArpKnown \cap HalfZero) = {},
         arp_table[i].ip # Unused, arp_table'[i].ip \notin {arp_table[i].ip, Unused}
  PROVE  \A b \in ArpKnown : since[arp_table[i].ip] >= since[b]
<1> DEFINE known == {j \in ArpSlots : arp_table[j].ip = a /\ a \notin HalfZero}
           free  == {j \in ArpSlots : arp_table[j].ip = Unused}
           s     == SlotFor(a)
<1>1. arp_table' = [arp_table EXCEPT ![s] = [ip |-> a, mac |-> mac, time |-> arptime]]
  BY DEF uip_arp_arpin, uip_arp_update
<1>2. arp_table \in [ArpSlots -> ArpEntries]
  BY DEF ArpInv, ArpTypeOK
<1> HIDE DEF s
<1>3. i = s /\ arp_table[i].ip # a
  <2>1. i # s => arp_table'[i] = arp_table[i]
    BY <1>1, <1>2
  <2>2. i = s => arp_table'[i].ip = a
    BY <1>1, <1>2
  <2> QED
    BY <2>1, <2>2
<1>4. known = {}
  <2> SUFFICES ASSUME known # {} PROVE FALSE
    OBVIOUS
  <2>1. s = FirstSlot(known)
    BY DEF SlotFor, s
  <2>2. s \in known
    BY <2>1, FirstSlotOf
  <2> QED
    BY <1>3, <2>2
<1>5. free = {}
  <2> SUFFICES ASSUME free # {} PROVE FALSE
    OBVIOUS
  <2>1. s = FirstSlot(free)
    BY <1>4 DEF SlotFor, s
  <2>2. s \in free
    BY <2>1, FirstSlotOf
  <2> QED
    BY <1>3, <2>2
<1>6. s = Oldest
  BY <1>4, <1>5 DEF SlotFor, s
<1>7. ASSUME NEW j \in ArpSlots
      PROVE  arp_table[j].ip \in ArpKnown /\ Age(j) = since[arp_table[j].ip] /\ Age(j) >= 0
  <2>1. arp_table[j].ip \in ArpKnown /\ arp_table[j].ip \in Neighbours
    BY <1>2, <1>5 DEF ArpKnown, ArpEntries
  <2>2. arp_table[j].ip \notin HalfZero /\ arp_table[j].ip \notin ArpWrapped
    BY <2>1
  <2>3. since[arp_table[j].ip] \in Nat /\ arptime \in Nat
    BY <2>1, ArpAssumption DEF ArpInv, ArpTypeOK
  <2>4. since[arp_table[j].ip] <= arptime
    BY <2>1, <2>2, <2>3 DEF ArpWrapped
  <2>5. arp_table[j].time = arptime - since[arp_table[j].ip]
    BY <2>1, <2>2, <2>4 DEF ArpInv, Kept
  <2> QED
    BY <2>1, <2>3, <2>5 DEF Age
<1>8. \A j \in ArpSlots : Age(j) <= Age(Oldest)
  BY <1>7, OldestIsOldest
<1>9. ASSUME NEW b \in ArpKnown PROVE since[arp_table[i].ip] >= since[b]
  <2>1. PICK j \in ArpSlots : b = arp_table[j].ip
    BY DEF ArpKnown
  <2>2. Age(j) = since[b] /\ Age(i) = since[arp_table[i].ip] /\ Age(j) <= Age(i)
    BY <1>3, <1>6, <1>7, <1>8, <2>1
  <2>3. since[b] \in Int /\ since[arp_table[i].ip] \in Int
    <3>1. b \in Neighbours /\ arp_table[i].ip \in Neighbours
      BY <1>2, <1>5, <2>1 DEF ArpKnown, ArpEntries
    <3> QED
      BY <3>1, ArpAssumption DEF ArpInv, ArpTypeOK
  <2> QED
    BY <2>2, <2>3
<1> QED
  BY <1>9

(* A neighbour that has to make room for another was heard of no later     *)
(* than any that stays, until arptime wraps (uip_arp_update).              *)
THEOREM OldestGivesWayHolds == ArpSpec => OldestGivesWay
<1>1. ArpInv /\ [ArpNext]_arpVars =>
        [\A i \in ArpSlots :
           LET a == arp_table[i].ip
           IN  ArpWrapped \cup (ArpKnown \cap HalfZero) = {} /\ a # Unused /\ arp_table'[i].ip \notin {a, Unused}
                 => \A b \in ArpKnown : since[a] >= since[b]]_arpVars
  <2> SUFFICES ASSUME ArpInv, ArpNext, NEW i \in ArpSlots,
                      ArpWrapped \cup (ArpKnown \cap HalfZero) = {},
                      arp_table[i].ip # Unused, arp_table'[i].ip \notin {arp_table[i].ip, Unused}
               PROVE  \A b \in ArpKnown : since[arp_table[i].ip] >= since[b]
    OBVIOUS
  <2>1. ~uip_arp_timer
    <3> SUFFICES ASSUME uip_arp_timer PROVE FALSE
      OBVIOUS
    <3>1. arp_table \in [ArpSlots -> ArpEntries]
      BY DEF ArpInv, ArpTypeOK
    <3>2. arp_table'[i] = arp_table[i] \/ arp_table'[i] = [arp_table[i] EXCEPT !.ip = Unused]
      BY DEF uip_arp_timer
    <3> QED
      BY <3>1, <3>2 DEF ArpEntries
  <2>2. PICK a \in Neighbours, mac \in Macs : uip_arp_arpin(a, mac)
    BY <2>1 DEF ArpNext
  <2> QED
    BY <2>2, VictimIsOldest
<1>2. ArpSpec => []ArpInv
  BY ArpInitInv, ArpNextInv, PTL DEF ArpSpec
<1> QED
  BY <1>1, <1>2, PTL DEF ArpSpec, OldestGivesWay

-------------------------------------------------------------------------------
(***************************************************************************)
(* UipTables: for every number of entries, of ports and of times to wait,  *)
(* no two connections share their ends, and of the entries in TIME_WAIT the *)
(* one that waited longest gives way.                                      *)
(***************************************************************************)

(* A waiting entry is closed as soon as it has waited for long enough. *)
StillWaiting == \A i \in 1..CONNS : conns[i].st = "TIME_WAIT" => conns[i].timer < TWTimeout

TablesInv == TablesTypeOK /\ StillWaiting /\ OneConnection

LEMMA FirstIsOf ==
  ASSUME NEW S \in SUBSET Nat, S # {} PROVE FirstEntry(S) \in S /\ \A j \in S : FirstEntry(S) <= j
<1>1. \E i \in S : \A j \in S : i <= j  BY LeastOf
<1> QED  BY <1>1 DEF FirstEntry

(* The connections in use have no more ports than the table has entries. *)
LEMMA FewPorts ==
  ASSUME NEW n \in Nat, NEW S \in SUBSET (1..n), NEW f \in [S -> Nat]
  PROVE  LET T == {f[i] : i \in S} IN IsFiniteSet(T) /\ Cardinality(T) <= n
<1> DEFINE T == {f[i] : i \in S}
<1>1. IsFiniteSet(1..n) /\ Cardinality(1..n) = n  BY FS_Interval
<1>2. IsFiniteSet(S) /\ Cardinality(S) <= n  BY <1>1, FS_Subset
<1>3. f \in Surjection(S, T)  BY DEF Surjection
<1>4. IsFiniteSet(T) /\ Cardinality(T) <= Cardinality(S)  BY <1>2, <1>3, FS_Surjection
<1>5. Cardinality(S) \in Nat /\ Cardinality(T) \in Nat  BY <1>2, <1>4, FS_CardinalityType
<1> QED  BY <1>2, <1>4, <1>5

(* So the search for a port ends, with one that is not taken. *)
LEMMA PortIsFree ==
  ASSUME TablesTypeOK, NEW taken, IsFiniteSet(taken), Cardinality(taken) < LastPort - NextPort
  PROVE  FreePort(taken) \in FirstPort..LastPort - 1 /\ FreePort(taken) \notin taken
         /\ FreePort(taken) \in LocalPorts
<1>1. /\ lastport \in FirstPort..LastPort - 1 /\ FirstPort \in Nat /\ NextPort \in Nat /\ LastPort \in Nat
      /\ FirstPort < NextPort /\ NextPort < LastPort
  BY TablesAssumption DEF TablesTypeOK
<1> DEFINE range == NextPort..LastPort - 1
           left  == Tried \ taken
           turns == {Turn(p) : p \in left}
<1>2. IsFiniteSet(range) /\ Cardinality(range) = LastPort - NextPort
  BY <1>1, FS_Interval
<1>3. left # {}
  <2>1. ~(range \subseteq taken)
    <3> SUFFICES ASSUME range \subseteq taken PROVE FALSE  OBVIOUS
    <3>1. Cardinality(range) <= Cardinality(taken)  BY FS_Subset
    <3>2. Cardinality(taken) \in Nat  BY FS_CardinalityType
    <3> QED  BY <3>1, <3>2, <1>1, <1>2
  <2> QED  BY <2>1 DEF Tried
<1>4. \A p \in left : p \in Nat /\ FirstPort <= p /\ p <= LastPort - 1 /\ Turn(p) \in Nat /\ p # 0
  BY <1>1 DEF Tried, Turn
<1>5. turns \in SUBSET Nat /\ turns # {}
  BY <1>3, <1>4
<1>6. \E t \in turns : \A k \in turns : t <= k
  BY <1>5, LeastOf
<1>7. \E p \in left : \A q \in left : Turn(p) <= Turn(q)
  BY <1>6
<1>8. FreePort(taken) \in left
  BY <1>7 DEF FreePort
<1> QED  BY <1>1, <1>4, <1>8 DEF LocalPorts

LEMMA TcpPortsFew ==
  ASSUME TablesTypeOK PROVE IsFiniteSet(TcpPorts) /\ Cardinality(TcpPorts) < LastPort - NextPort
<1> DEFINE S == {j \in 1..CONNS : InUse(j)}
           f == [i \in S |-> conns[i].lport]
<1>1. CONNS \in Nat /\ LastPort \in Nat /\ NextPort \in Nat /\ CONNS < LastPort - NextPort
  BY TablesAssumption
<1>2. f \in [S -> Nat] /\ S \in SUBSET (1..CONNS)
  BY <1>1 DEF TablesTypeOK, ConnEntries, LocalPorts
<1>3. TcpPorts = {f[i] : i \in S}
  BY DEF TcpPorts
<1> HIDE DEF S, f
<1>4. IsFiniteSet(TcpPorts) /\ Cardinality(TcpPorts) <= CONNS
  BY <1>1, <1>2, <1>3, FewPorts
<1>5. Cardinality(TcpPorts) \in Nat  BY <1>4, FS_CardinalityType
<1> QED  BY <1>1, <1>4, <1>5

LEMMA UdpPortsFew ==
  ASSUME TablesTypeOK PROVE IsFiniteSet(UdpPorts) /\ Cardinality(UdpPorts) < LastPort - NextPort
<1> DEFINE T == {udp_conns[i] : i \in 1..UDP_CONNS}
<1>1. UDP_CONNS \in Nat /\ LastPort \in Nat /\ NextPort \in Nat /\ UDP_CONNS < LastPort - NextPort
  BY TablesAssumption
<1>2. udp_conns \in [1..UDP_CONNS -> Nat] /\ 1..UDP_CONNS \in SUBSET (1..UDP_CONNS)
  BY <1>1, TablesAssumption DEF TablesTypeOK, LocalPorts
<1>3. IsFiniteSet(T) /\ Cardinality(T) <= UDP_CONNS
  BY <1>1, <1>2, FewPorts
<1>4. UdpPorts \in SUBSET T  BY DEF UdpPorts
<1>5. IsFiniteSet(UdpPorts) /\ Cardinality(UdpPorts) <= Cardinality(T)  BY <1>3, <1>4, FS_Subset
<1>6. Cardinality(UdpPorts) \in Nat /\ Cardinality(T) \in Nat  BY <1>3, <1>5, FS_CardinalityType
<1> QED  BY <1>1, <1>3, <1>5, <1>6

LEMMA TablesInitInv == uip_init => TablesInv
  BY TablesAssumption DEF uip_init, TablesInv, TablesTypeOK, StillWaiting, OneConnection, ConnEntries,
     LocalPorts, InUse

(* An entry is given to one new connection at most. *)
LEMMA EntryIsOne ==
  \A i, j \in FreeEntry : i = j
  BY DEF FreeEntry

(* A connection that is opened with a port and remote host that no other   *)
(* has leaves every connection with its own.                               *)
LEMMA OpenKeeps ==
  ASSUME TablesInv, NEW p \in LocalPorts \cup {0}, NEW r \in Remotes,
         \A i \in 1..CONNS : InUse(i) => <<conns[i].lport, conns[i].remote>> # <<p, r>>,
         conns' = [i \in 1..CONNS |-> IF i \in FreeEntry THEN Opened(p, r) ELSE conns[i]]
  PROVE  /\ conns' \in [1..CONNS -> ConnEntries] /\ StillWaiting'
         /\ \A i, j \in 1..CONNS :
              i # j /\ InUse(i)' /\ InUse(j)'
                => <<conns'[i].lport, conns'[i].remote>> # <<conns'[j].lport, conns'[j].remote>>
<1>1. Opened(p, r) \in ConnEntries /\ Opened(p, r).st = "active" /\ Opened(p, r).lport = p
      /\ Opened(p, r).remote = r
  BY TablesAssumption DEF Opened, ConnEntries
<1>2. conns \in [1..CONNS -> ConnEntries]  BY DEF TablesInv, TablesTypeOK
<1>3. conns' \in [1..CONNS -> ConnEntries]
  BY <1>1, <1>2
<1>4. StillWaiting'
  BY <1>1, <1>2 DEF TablesInv, StillWaiting
<1>5. ASSUME NEW i \in 1..CONNS, NEW j \in 1..CONNS, i # j, InUse(i)', InUse(j)'
      PROVE  <<conns'[i].lport, conns'[i].remote>> # <<conns'[j].lport, conns'[j].remote>>
  <2>1. CASE i \in FreeEntry
    <3>1. j \notin FreeEntry  BY <2>1, <1>5, EntryIsOne
    <3> QED  BY <2>1, <3>1, <1>1, <1>5 DEF InUse
  <2>2. CASE j \in FreeEntry
    <3>1. i \notin FreeEntry  BY <2>2, <1>5, EntryIsOne
    <3> QED  BY <2>2, <3>1, <1>1, <1>5 DEF InUse
  <2>3. CASE i \notin FreeEntry /\ j \notin FreeEntry
    BY <2>3, <1>5 DEF InUse, TablesInv, OneConnection
  <2> QED  BY <2>1, <2>2, <2>3
<1> QED  BY <1>3, <1>4, <1>5

LEMMA ConnectKeeps ==
  ASSUME TablesInv, NEW r \in Remotes, uip_connect(r) PROVE TablesInv'
<1> DEFINE p == FreePort(TcpPorts)
<1>1. p \in FirstPort..LastPort - 1 /\ p \notin TcpPorts /\ p \in LocalPorts
  BY TcpPortsFew, PortIsFree DEF TablesInv
<1>2. /\ lastport' = p /\ UNCHANGED <<listenports, udp_conns>>
      /\ conns' = [i \in 1..CONNS |-> IF i \in FreeEntry THEN Opened(p, r) ELSE conns[i]]
  BY DEF uip_connect
<1> HIDE DEF p
<1>3. \A i \in 1..CONNS : InUse(i) => <<conns[i].lport, conns[i].remote>> # <<p, r>>
  BY <1>1 DEF TcpPorts
<1>4. /\ conns' \in [1..CONNS -> ConnEntries] /\ StillWaiting'
      /\ \A i, j \in 1..CONNS :
           i # j /\ InUse(i)' /\ InUse(j)'
             => <<conns'[i].lport, conns'[i].remote>> # <<conns'[j].lport, conns'[j].remote>>
  BY <1>1, <1>2, <1>3, OpenKeeps
<1> QED  BY <1>1, <1>2, <1>4 DEF TablesInv, TablesTypeOK, OneConnection, InUse

LEMMA ListenKeeps ==
  ASSUME TablesInv, NEW p \in Servers \cup {0}, NEW r \in Remotes, found_listen(p, r) PROVE TablesInv'
<1>1. p \in LocalPorts \cup {0}
  <2>1. {FirstPort, NextPort, LastPort} \subseteq Nat /\ FirstPort < NextPort /\ NextPort < LastPort
    BY TablesAssumption
  <2>2. FirstPort \in Nat /\ LastPort \in Nat /\ FirstPort <= LastPort  BY <2>1
  <2>3. Servers \subseteq 1..FirstPort  BY TablesAssumption
  <2> QED  BY <2>2, <2>3 DEF LocalPorts
<1>2. \A i \in 1..CONNS : InUse(i) => <<conns[i].lport, conns[i].remote>> # <<p, r>>
  BY DEF found_listen, FoundConn
<1>3. /\ conns' = [i \in 1..CONNS |-> IF i \in FreeEntry THEN Opened(p, r) ELSE conns[i]]
      /\ UNCHANGED <<listenports, udp_conns, lastport>>
  BY DEF found_listen
<1>4. /\ conns' \in [1..CONNS -> ConnEntries] /\ StillWaiting'
      /\ \A i, j \in 1..CONNS :
           i # j /\ InUse(i)' /\ InUse(j)'
             => <<conns'[i].lport, conns'[i].remote>> # <<conns'[j].lport, conns'[j].remote>>
  BY <1>1, <1>2, <1>3, OpenKeeps
<1> QED  BY <1>3, <1>4 DEF TablesInv, TablesTypeOK, OneConnection, InUse

LEMMA UdpNewKeeps == ASSUME TablesInv, uip_udp_new PROVE TablesInv'
<1> DEFINE p    == FreePort(UdpPorts)
           free == {i \in 1..UDP_CONNS : udp_conns[i] = 0}
<1>1. p \in FirstPort..LastPort - 1 /\ p \notin UdpPorts /\ p \in LocalPorts
  BY UdpPortsFew, PortIsFree DEF TablesInv
<1>2. /\ lastport' = p /\ UNCHANGED <<conns, listenports>>
      /\ udp_conns' = [i \in 1..UDP_CONNS |-> IF free # {} /\ i = FirstEntry(free) THEN p ELSE udp_conns[i]]
  BY DEF uip_udp_new
<1> HIDE DEF p, free
<1>3. udp_conns' \in [1..UDP_CONNS -> LocalPorts \cup {0}]
  BY <1>1, <1>2 DEF TablesInv, TablesTypeOK
<1>4. \A i \in 1..UDP_CONNS : udp_conns[i] # 0 => udp_conns[i] # p
  BY <1>1 DEF UdpPorts
<1>5. \A i, j \in 1..UDP_CONNS : i # j /\ udp_conns'[i] # 0 => udp_conns'[i] # udp_conns'[j]
  BY <1>2, <1>4, <1>1, TablesAssumption DEF TablesInv, OneConnection, LocalPorts
<1> QED  BY <1>1, <1>2, <1>3, <1>5 DEF TablesInv, TablesTypeOK, OneConnection, StillWaiting, InUse

LEMMA UdpRemoveKeeps ==
  ASSUME TablesInv, NEW i \in 1..UDP_CONNS, uip_udp_remove(i) PROVE TablesInv'
  BY DEF uip_udp_remove, TablesInv, TablesTypeOK, OneConnection, StillWaiting, InUse

LEMMA ListenportsKeep ==
  ASSUME TablesInv, NEW p \in Servers, uip_listen(p) \/ uip_unlisten(p) PROVE TablesInv'
<1>1. p \in LocalPorts
  BY TablesAssumption DEF LocalPorts
<1>2. listenports' \in [1..LISTENPORTS -> LocalPorts \cup {0}]
  BY <1>1 DEF uip_listen, uip_unlisten, TablesInv, TablesTypeOK
<1>3. UNCHANGED <<conns, udp_conns, lastport>>
  BY DEF uip_listen, uip_unlisten
<1> QED  BY <1>2, <1>3 DEF TablesInv, TablesTypeOK, OneConnection, StillWaiting, InUse

LEMMA EndsKeeps == ASSUME TablesInv, NEW i \in 1..CONNS, Ends(i) PROVE TablesInv'
<1>1. PICK st \in {"CLOSED", "TIME_WAIT"} : conns' = [conns EXCEPT ![i].st = st, ![i].timer = 0]
  BY DEF Ends
<1>2. conns \in [1..CONNS -> ConnEntries] /\ TWTimeout \in Nat \ {0}
  BY TablesAssumption DEF TablesInv, TablesTypeOK
<1>3. conns' = [conns EXCEPT ![i] = [conns[i] EXCEPT !.st = st, !.timer = 0]]
  BY <1>1, <1>2 DEF ConnEntries
<1>4. conns' \in [1..CONNS -> ConnEntries]
  <2>1. conns[i] \in ConnEntries  BY <1>2
  <2>2. [conns[i] EXCEPT !.st = st, !.timer = 0] \in ConnEntries
    <3> DEFINE c == [conns[i] EXCEPT !.st = st]
    <3>1. c \in ConnEntries  BY <2>1 DEF ConnEntries
    <3>2. [conns[i] EXCEPT !.st = st, !.timer = 0] = [c EXCEPT !.timer = 0]  OBVIOUS
    <3> HIDE DEF c
    <3>3. [c EXCEPT !.timer = 0] \in ConnEntries  BY <1>2, <3>1 DEF ConnEntries
    <3> QED  BY <3>2, <3>3
  <2> QED  BY <1>2, <1>3, <2>2
<1>5. /\ \A j \in 1..CONNS : conns'[j].lport = conns[j].lport /\ conns'[j].remote = conns[j].remote
      /\ \A j \in 1..CONNS : InUse(j)' => InUse(j)
      /\ \A j \in 1..CONNS : j # i => conns'[j] = conns[j]
      /\ conns'[i].timer = 0
  BY <1>2, <1>3 DEF InUse, Ends, ConnEntries
<1>6. UNCHANGED <<listenports, udp_conns, lastport>>
  BY DEF Ends
<1> QED  BY <1>2, <1>4, <1>5, <1>6 DEF TablesInv, TablesTypeOK, OneConnection, StillWaiting

LEMMA PeriodicKeeps == ASSUME TablesInv, NEW i \in 1..CONNS, uip_periodic(i) PROVE TablesInv'
<1> DEFINE st == IF conns[i].timer + 1 = TWTimeout THEN "CLOSED" ELSE conns[i].st
<1>2. conns \in [1..CONNS -> ConnEntries] /\ TWTimeout \in Nat \ {0} /\ conns[i].timer < TWTimeout
      /\ conns[i] \in ConnEntries
  BY TablesAssumption DEF TablesInv, TablesTypeOK, StillWaiting, uip_periodic
<1>3. conns' = [conns EXCEPT ![i] = [conns[i] EXCEPT !.timer = conns[i].timer + 1, !.st = st]]
  BY <1>2 DEF uip_periodic, ConnEntries
<1>4. conns' \in [1..CONNS -> ConnEntries]
  <2>1. [conns[i] EXCEPT !.timer = conns[i].timer + 1, !.st = st] \in ConnEntries
    <3> DEFINE c == [conns[i] EXCEPT !.timer = conns[i].timer + 1]
    <3>1. c \in ConnEntries  BY <1>2 DEF ConnEntries
    <3>2. st \in {"CLOSED", "active", "TIME_WAIT"}  BY <1>2 DEF ConnEntries
    <3>3. [conns[i] EXCEPT !.timer = conns[i].timer + 1, !.st = st] = [c EXCEPT !.st = st]  OBVIOUS
    <3> HIDE DEF c, st
    <3>4. [c EXCEPT !.st = st] \in ConnEntries  BY <3>1, <3>2 DEF ConnEntries
    <3> QED  BY <3>3, <3>4
  <2> QED  BY <1>2, <1>3, <2>1
<1>5. /\ \A j \in 1..CONNS : conns'[j].lport = conns[j].lport /\ conns'[j].remote = conns[j].remote
      /\ \A j \in 1..CONNS : InUse(j)' => InUse(j)
      /\ \A j \in 1..CONNS : j # i => conns'[j] = conns[j]
      /\ conns'[i].st = "TIME_WAIT" => conns'[i].timer < TWTimeout
  BY <1>2, <1>3 DEF InUse, uip_periodic, ConnEntries
<1>6. UNCHANGED <<listenports, udp_conns, lastport>>
  BY DEF uip_periodic
<1> QED  BY <1>2, <1>4, <1>5, <1>6 DEF TablesInv, TablesTypeOK, OneConnection, StillWaiting

LEMMA TablesNextInv == TablesInv /\ [TablesNext]_tableVars => TablesInv'
<1> SUFFICES ASSUME TablesInv, [TablesNext]_tableVars PROVE TablesInv'
  OBVIOUS
<1>1. CASE TablesNext
  BY <1>1, ConnectKeeps, UdpNewKeeps, UdpRemoveKeeps, ListenportsKeep, ListenKeeps, EndsKeeps,
     PeriodicKeeps DEF TablesNext
<1>2. CASE UNCHANGED tableVars
  BY <1>2 DEF tableVars, TablesInv, TablesTypeOK, OneConnection, StillWaiting, InUse
<1> QED  BY <1>1, <1>2

LEMMA TablesInvHolds == TablesSpec => []TablesInv
  BY TablesInitInv, TablesNextInv, PTL DEF TablesSpec

(* uip_connect, uip_listen and incoming SYNs leave no two connections with *)
(* the same ends, and no two UDP connections with the same port, for every *)
(* number of entries that is smaller than that of the ports to choose from.*)
THEOREM OneConnectionHolds == TablesSpec => []OneConnection
<1>1. TablesInv => OneConnection  BY DEF TablesInv
<1> QED  BY <1>1, TablesInvHolds, PTL

(* What gives way to a new connection is what FreeEntry chose. *)
LEMMA FreeEntryChosen ==
  ASSUME TablesTypeOK, NEW i \in 1..CONNS, i \in FreeEntry, InUse(i)
  PROVE  /\ conns[i].st = "TIME_WAIT"
         /\ \A j \in 1..CONNS : /\ InUse(j)
                                 /\ conns[j].st = "TIME_WAIT" => conns[j].timer <= conns[i].timer
<1> DEFINE closed  == {k \in 1..CONNS : ~InUse(k)}
           inwait  == {k \in 1..CONNS : conns[k].st = "TIME_WAIT"}
           oldest  == {k \in inwait : \A j \in inwait : conns[j].timer <= conns[k].timer}
<1>1. closed \in SUBSET Nat /\ oldest \in SUBSET Nat
  BY TablesAssumption
<1>2. closed = {}
  <2> SUFFICES ASSUME closed # {} PROVE FALSE  OBVIOUS
  <2>1. i = FirstEntry(closed)  BY DEF FreeEntry
  <2>2. i \in closed  BY <1>1, <2>1, FirstIsOf
  <2> QED  BY <2>2
<1>3. oldest # {} /\ i = FirstEntry(oldest)
  BY <1>2 DEF FreeEntry
<1>4. i \in oldest
  <2> HIDE DEF oldest
  <2> QED  BY <1>1, <1>3, FirstIsOf
<1> QED  BY <1>2, <1>4

LEMMA WaitGivesWay ==
  TablesTypeOK /\ [TablesNext]_tableVars =>
    \A i \in 1..CONNS :
       InUse(i) /\ <<conns'[i].lport, conns'[i].remote>> # <<conns[i].lport, conns[i].remote>>
         => /\ conns[i].st = "TIME_WAIT"
            /\ \A j \in 1..CONNS : /\ InUse(j)
                                    /\ conns[j].st = "TIME_WAIT" => conns[j].timer <= conns[i].timer
<1> SUFFICES ASSUME TablesTypeOK, [TablesNext]_tableVars, NEW i \in 1..CONNS, InUse(i),
                    <<conns'[i].lport, conns'[i].remote>> # <<conns[i].lport, conns[i].remote>>
             PROVE  i \in FreeEntry
  BY FreeEntryChosen
<1>1. conns \in [1..CONNS -> ConnEntries]  BY DEF TablesTypeOK
<1>2. conns' # conns  OBVIOUS
<1>3. CASE \E r \in Remotes : uip_connect(r) \/ \E p \in Servers \cup {0} : found_listen(p, r)
  BY <1>1, <1>3 DEF uip_connect, found_listen
<1>4. ASSUME NEW k \in 1..CONNS, Ends(k) \/ uip_periodic(k) PROVE FALSE
  <2>1. conns'[i].lport = conns[i].lport /\ conns'[i].remote = conns[i].remote
    <3>1. conns[i] \in ConnEntries /\ conns[k] \in ConnEntries  BY <1>1
    <3>2. CASE Ends(k)
      <4>1. PICK st \in {"CLOSED", "TIME_WAIT"} : conns' = [conns EXCEPT ![k].st = st, ![k].timer = 0]
        BY <3>2 DEF Ends
      <4> QED  BY <1>1, <3>1, <4>1 DEF ConnEntries
    <3>3. CASE uip_periodic(k)
      BY <1>1, <3>1, <3>3 DEF uip_periodic, ConnEntries
    <3> QED  BY <1>4, <3>2, <3>3
  <2> QED  BY <2>1
<1>5. CASE UNCHANGED conns  BY <1>2, <1>5
<1>6. TablesNext \/ UNCHANGED conns  BY DEF tableVars
<1> QED
  BY <1>3, <1>4, <1>5, <1>6 DEF TablesNext, uip_udp_new, uip_udp_remove, uip_listen, uip_unlisten

(* When no entry is free, the one that goes is the one that has been in    *)
(* TIME_WAIT the longest, and never a connection that is still in use.     *)
THEOREM LongestWaitGivesWayHolds == TablesSpec => LongestWaitGivesWay
<1>1. TablesInv => TablesTypeOK  BY DEF TablesInv
<1> QED  BY <1>1, WaitGivesWay, TablesInvHolds, PTL DEF TablesSpec, LongestWaitGivesWay

-------------------------------------------------------------------------------
(***************************************************************************)
(* Reassembly: for all datagrams, fragments and sizes of the buffer, a     *)
(* datagram handed on has all of its own bytes and no others.              *)
(***************************************************************************)

(* A length was told by the last fragment of the datagram in the buffer. *)
LengthIsOwners == uip_reasstmr > 0 /\ uip_reasslen > 0 => uip_reasslen = Length[owner]

OwnerKnown == uip_reasstmr > 0 => owner \in Datagrams

(* What was handed on is as long as its header says, less that header. *)
WholeTyped ==
  whole.of # NoDatagram =>
    /\ whole.of \in Datagrams
    /\ DOMAIN whole.data = 0..Length[whole.of] - HeaderUnits - 1

ReassInv == ReassTypeOK /\ LengthIsOwners /\ OwnerKnown /\ WholeTyped /\ OwnData

(* Units of a datagram lie in the bytes of the bitmap in their order. *)
LEMMA DivMonotone ==
  ASSUME NEW a \in Nat, NEW b \in Nat, NEW d \in Nat \ {0}, a <= b
  PROVE  a \div d \in Nat /\ b \div d \in Nat /\ a \div d <= b \div d
  OBVIOUS

LEMMA ReassInitInv == ReassInit => ReassInv
  BY ReassAssumption DEF ReassInit, ReassInv, ReassTypeOK, LengthIsOwners, OwnerKnown, WholeTyped,
     OwnData, NothingYet, NoDatagram

(* With the marked units from one datagram, and all bytes of the bitmap    *)
(* full that FullBitmap looks at, the others are in the byte it passes     *)
(* over.                                                                   *)
LEMMA FullIsOwn ==
  ASSUME NEW buf \in [ReassUnits -> Datagrams \cup {NoDatagram}], NEW bits \in SUBSET ReassUnits,
         NEW d \in Datagrams, Length[d] <= BufUnits,
         \A u \in bits : buf[u] = d, FullBitmap(bits, Length[d])
  PROVE  /\ DOMAIN HandedOn(buf, Length[d]) = 0..Length[d] - HeaderUnits - 1
         /\ \A u \in 0..Length[d] - HeaderUnits - 1 :
              HandedOn(buf, Length[d])[u] = d \/ u \div UnitsPerByte + 1 = Length[d] \div UnitsPerByte
<1>1. Length[d] \in Nat /\ HeaderUnits \in Nat /\ BufUnits \in Nat /\ UnitsPerByte \in Nat \ {0}
  BY ReassAssumption
<1>2. DOMAIN HandedOn(buf, Length[d]) = 0..Length[d] - HeaderUnits - 1
  BY DEF HandedOn
<1>3. ASSUME NEW u \in 0..Length[d] - HeaderUnits - 1,
             u \div UnitsPerByte + 1 # Length[d] \div UnitsPerByte
      PROVE  HandedOn(buf, Length[d])[u] = d
  <2>1. u \in Nat /\ u < Length[d] /\ u \in ReassUnits
    BY <1>1, <1>3 DEF ReassUnits
  <2>2. /\ u \div UnitsPerByte \in Nat /\ Length[d] \div UnitsPerByte \in Nat
        /\ u \div UnitsPerByte <= Length[d] \div UnitsPerByte
    BY <1>1, <2>1, DivMonotone
  <2>3. CASE u \div UnitsPerByte = Length[d] \div UnitsPerByte
    <3>1. u \in bits
      BY <2>1, <2>3 DEF FullBitmap
    <3> QED  BY <3>1 DEF HandedOn
  <2>4. CASE u \div UnitsPerByte + 1 < Length[d] \div UnitsPerByte
    <3>1. u \in bits
      BY <2>1, <2>4 DEF FullBitmap
    <3> QED  BY <3>1 DEF HandedOn
  <2> QED  BY <1>3, <2>2, <2>3, <2>4
<1> QED  BY <1>2, <1>3

LEMMA FragmentKeeps ==
  ASSUME ReassInv, NEW f \in Fragments, uip_reass(f) PROVE ReassInv'
<1> DEFINE cells == f.off..f.off + f.len - 1
           bits  == Bitmap \cup cells
           buf   == [u \in ReassUnits |-> IF u \in cells THEN f.of ELSE uip_reassbuf[u]]
           n     == IF f.off + f.len = Length[f.of] THEN Length[f.of] ELSE Reasslen
           full  == n > 0 /\ FullBitmap(bits, n)
<1>1. /\ Accepts(f) /\ f.off + f.len <= BufUnits
      /\ owner' = f.of /\ uip_reassbuf' = buf /\ uip_reassbitmap' = bits /\ uip_reasslen' = n
      /\ uip_reasstmr' = IF full THEN 0 ELSE Timer
      /\ whole' = IF full THEN [of |-> f.of, data |-> HandedOn(buf, n)] ELSE whole
  BY DEF uip_reass
<1>2. /\ f.of \in Datagrams /\ f.off \in 0..BufUnits /\ f.len \in 1..MaxFragment
      /\ MaxFragment \in Nat /\ BufUnits \in Nat /\ REASS_MAXAGE \in Nat \ {0}
      /\ Length[f.of] \in Nat \ {0}
  BY ReassAssumption DEF Fragments
<1>3. cells \subseteq ReassUnits /\ Bitmap \subseteq ReassUnits
  <2>1. f.off + f.len <= BufUnits /\ f.off \in Nat /\ f.len \in Nat /\ BufUnits \in Nat
    BY <1>1, <1>2
  <2>2. cells \subseteq ReassUnits  BY <2>1 DEF ReassUnits
  <2>3. Bitmap \subseteq ReassUnits  BY DEF Bitmap, ReassInv, ReassTypeOK
  <2> QED  BY <2>2, <2>3
<1>4. \A u \in bits : buf[u] = f.of
  <2> TAKE u \in bits
  <2>1. u \in ReassUnits  BY <1>3
  <2>2. CASE u \in cells  BY <2>1, <2>2
  <2>3. CASE u \notin cells
    <3>1. uip_reasstmr # 0 /\ u \in uip_reassbitmap  BY <2>3 DEF Bitmap
    <3>2. uip_reasstmr > 0  BY <3>1 DEF ReassInv, ReassTypeOK
    <3>3. owner = f.of  BY <1>1, <3>1 DEF Accepts
    <3>4. uip_reassbuf[u] = owner  BY <3>1, <3>2 DEF ReassInv, ReassTypeOK
    <3> QED  BY <2>1, <2>3, <3>3, <3>4
  <2> QED  BY <2>2, <2>3
<1>5. buf \in [ReassUnits -> Datagrams \cup {NoDatagram}]
  BY <1>2 DEF ReassInv, ReassTypeOK
<1>6. n \in 0..BufUnits /\ (n > 0 => n = Length[f.of])
  <2>1. CASE f.off + f.len = Length[f.of]  BY <2>1, <1>1, <1>2
  <2>2. CASE f.off + f.len # Length[f.of] /\ uip_reasstmr = 0  BY <2>2, <1>2 DEF Reasslen
  <2>3. CASE f.off + f.len # Length[f.of] /\ uip_reasstmr # 0
    <3>1. Reasslen = uip_reasslen  BY <2>3 DEF Reasslen
    <3>2. owner = f.of  BY <2>3, <1>1 DEF Accepts
    <3>3. uip_reasslen \in 0..BufUnits /\ (uip_reasslen > 0 => uip_reasslen = Length[owner])
      BY <2>3 DEF ReassInv, ReassTypeOK, LengthIsOwners
    <3>4. n = Reasslen  BY <2>3
    <3> QED  BY <3>1, <3>2, <3>3, <3>4
  <2> QED  BY <2>1, <2>2, <2>3
<1>7. Timer \in 0..REASS_MAXAGE
  BY <1>2 DEF Timer, ReassInv, ReassTypeOK
<1> HIDE DEF cells, bits, buf, n
<1>8. ReassTypeOK'
  BY <1>1, <1>2, <1>3, <1>4, <1>5, <1>6, <1>7 DEF ReassTypeOK, bits
<1>9. LengthIsOwners' /\ OwnerKnown'
  BY <1>1, <1>2, <1>6 DEF LengthIsOwners, OwnerKnown
<1>10. WholeTyped' /\ OwnData'
  <2>1. CASE full
    <3>1. n = Length[f.of] /\ Length[f.of] <= BufUnits
      BY <2>1, <1>2, <1>6
    <3>2. /\ DOMAIN HandedOn(buf, n) = 0..n - HeaderUnits - 1
          /\ \A u \in 0..n - HeaderUnits - 1 :
               HandedOn(buf, n)[u] = f.of \/ u \div UnitsPerByte + 1 = n \div UnitsPerByte
      <4>1. bits \in SUBSET ReassUnits  BY <1>3 DEF bits
      <4>2. FullBitmap(bits, Length[f.of])  BY <2>1, <3>1
      <4>3. /\ DOMAIN HandedOn(buf, Length[f.of]) = 0..Length[f.of] - HeaderUnits - 1
            /\ \A u \in 0..Length[f.of] - HeaderUnits - 1 :
                 HandedOn(buf, Length[f.of])[u] = f.of \/ u \div UnitsPerByte + 1 = Length[f.of] \div UnitsPerByte
        BY <4>1, <4>2, <3>1, <1>2, <1>4, <1>5, FullIsOwn
      <4> QED  BY <4>3, <3>1
    <3>3. whole' = [of |-> f.of, data |-> HandedOn(buf, n)]
      BY <1>1, <2>1
    <3>4. whole'.of = f.of /\ whole'.data = HandedOn(buf, n)  BY <3>3
    <3> QED  BY <3>1, <3>2, <3>4, <1>2 DEF WholeTyped, OwnData
  <2>2. CASE ~full
    BY <1>1, <2>2 DEF ReassInv, WholeTyped, OwnData
  <2> QED  BY <2>1, <2>2
<1> QED  BY <1>8, <1>9, <1>10 DEF ReassInv

LEMMA TooLongKeeps ==
  ASSUME ReassInv, NEW f \in Fragments, TooLong(f) PROVE ReassInv'
<1>1. f.of \in Datagrams /\ REASS_MAXAGE \in Nat /\ BufUnits \in Nat
  BY ReassAssumption DEF Fragments
<1> QED
  BY <1>1 DEF TooLong, ReassInv, ReassTypeOK, LengthIsOwners, OwnerKnown, WholeTyped, OwnData,
     Bitmap, Reasslen

LEMMA TickKeeps == ASSUME ReassInv, uip_periodic_reass PROVE ReassInv'
<1>1. REASS_MAXAGE \in Nat  BY ReassAssumption
<1> QED
  BY <1>1 DEF uip_periodic_reass, ReassInv, ReassTypeOK, LengthIsOwners, OwnerKnown, WholeTyped,
     OwnData

LEMMA ReassNextInv == ReassInv /\ [ReassNext]_reassVars => ReassInv'
<1> SUFFICES ASSUME ReassInv, [ReassNext]_reassVars PROVE ReassInv'
  OBVIOUS
<1>1. CASE ReassNext
  BY <1>1, FragmentKeeps, TooLongKeeps, TickKeeps DEF ReassNext
<1>2. CASE UNCHANGED reassVars
  BY <1>2 DEF reassVars, ReassInv, ReassTypeOK, LengthIsOwners, OwnerKnown, WholeTyped, OwnData
<1> QED  BY <1>1, <1>2

(* The buffer holds one datagram only as far as the bitmap says so, for all*)
(* sizes and fragments.                                                    *)
THEOREM ReassTypeCorrect == ReassSpec => []ReassTypeOK
<1>1. ReassSpec => []ReassInv
  BY ReassInitInv, ReassNextInv, PTL DEF ReassSpec
<1>2. ReassInv => ReassTypeOK  BY DEF ReassInv
<1> QED  BY <1>1, <1>2, PTL

(* However fragments overlap, repeat, overtake each other or never come: a *)
(* datagram handed on has its own data, but for the byte of the bitmap     *)
(* that uip_reass does not look at.                                        *)
THEOREM OwnDataHolds == ReassSpec => []OwnData
<1>1. ReassSpec => []ReassInv
  BY ReassInitInv, ReassNextInv, PTL DEF ReassSpec
<1>2. ReassInv => OwnData  BY DEF ReassInv
<1> QED  BY <1>1, <1>2, PTL

-------------------------------------------------------------------------------
(***************************************************************************)
(* Forwarding: for every network of routers, every size of the cache and   *)
(* time that it keeps a packet.                                            *)
(***************************************************************************)
LEMMA GreatestOf ==
  ASSUME NEW n \in Nat, NEW M \in SUBSET (0..n), M # {}
  PROVE  \E m \in M : \A k \in M : m >= k
<1> DEFINE T == {k \in 0..n : n - k \in M}
<1>1. T \in SUBSET Nat  OBVIOUS
<1>2. T # {}
  <2>1. PICK m \in M : TRUE  OBVIOUS
  <2>2. n - m \in 0..n /\ n - (n - m) = m  BY <2>1
  <2> QED  BY <2>1, <2>2
<1>3. PICK k \in T : \A j \in T : k <= j  BY <1>1, <1>2, LeastOf
<1>4. n - k \in M /\ k \in 0..n  BY <1>3
<1>5. ASSUME NEW m \in M PROVE n - k >= m
  <2>1. n - m \in 0..n /\ n - (n - m) = m  OBVIOUS
  <2>2. k <= n - m  BY <2>1, <1>3
  <2> QED  BY <2>2, <1>4
<1> QED  BY <1>4, <1>5

FwEntry(timer, pkt) == [timer |-> timer, pkt |-> pkt]
FwRecord(timer, pkt, slot) == [timer |-> timer, pkt |-> pkt, slot |-> slot]

IsFwEntry(x)  == x = FwEntry(x.timer, x.pkt) /\ x.timer \in 0..FW_TIME
IsFwRecord(e) == e = FwRecord(e.timer, e.pkt, e.slot) /\ e.timer \in 1..FW_TIME /\ e.slot \in FwSlots

(* A cache, and what was sent on: all that is in use in the cache was; and *)
(* what is no longer in it was given up for something sent on no earlier,  *)
(* as all that the cache now holds.                                        *)
CacheOK(cache, sent) ==
  /\ cache = [i \in FwSlots |-> cache[i]] /\ \A i \in FwSlots : IsFwEntry(cache[i])
  /\ IsFiniteSet(sent) /\ \A e \in sent : IsFwRecord(e)
  /\ \A i \in FwSlots : cache[i].timer # 0 => FwRecord(cache[i].timer, cache[i].pkt, i) \in sent
  /\ \A e \in sent : \/ cache[e.slot] = FwEntry(e.timer, e.pkt)
                     \/ \A i \in FwSlots : cache[i].timer >= e.timer

FwInv ==
  /\ fwcache = [r \in Routers |-> fwcache[r]] /\ recent = [r \in Routers |-> recent[r]]
  /\ \A r \in Routers : CacheOK(fwcache[r], recent[r])

LEMMA FwConsts == FWCACHE_SIZE \in Nat /\ FWCACHE_SIZE > 0 /\ FW_TIME \in Nat /\ FW_TIME > 0
<1>1. {FWCACHE_SIZE, FW_TIME} \subseteq Nat \ {0}  BY FwAssumption
<1> QED  BY <1>1

(* If anything was given up, more was sent on than the cache holds. *)
LEMMA NothingGivenUp ==
  ASSUME NEW cache, NEW sent, CacheOK(cache, sent), Cardinality(sent) <= FWCACHE_SIZE, NEW e \in sent
  PROVE  cache[e.slot] = FwEntry(e.timer, e.pkt)
<1> SUFFICES ASSUME cache[e.slot] # FwEntry(e.timer, e.pkt) PROVE FALSE
  OBVIOUS
<1>1. IsFiniteSet(sent) /\ IsFwRecord(e) /\ \A i \in FwSlots : cache[i].timer >= e.timer
  BY DEF CacheOK
<1> DEFINE rec(i) == FwRecord(cache[i].timer, cache[i].pkt, i)
           f      == [i \in FwSlots |-> rec(i)]
           rest   == sent \ {e}
<1>2. \A i \in FwSlots : rec(i) \in sent
  <2>1. \A i \in FwSlots : cache[i].timer # 0
    <3> TAKE i \in FwSlots
    <3>1. cache[i].timer \in 0..FW_TIME /\ e.timer \in 1..FW_TIME /\ cache[i].timer >= e.timer
      BY <1>1 DEF CacheOK, IsFwEntry, IsFwRecord
    <3> QED  BY <3>1, FwConsts
  <2> QED  BY <2>1 DEF CacheOK
<1>3. \A i \in FwSlots : rec(i) # e
  <2> SUFFICES ASSUME NEW i \in FwSlots, rec(i) = e PROVE FALSE
    OBVIOUS
  <2>1. e.slot = i /\ e.timer = cache[i].timer /\ e.pkt = cache[i].pkt  BY DEF FwRecord
  <2>2. cache[i] = FwEntry(cache[i].timer, cache[i].pkt)  BY DEF CacheOK, IsFwEntry
  <2> QED  BY <2>1, <2>2
<1>4. f \in Injection(FwSlots, rest)
  <2>1. f \in [FwSlots -> rest]  BY <1>2, <1>3
  <2>2. \A i, j \in FwSlots : f[i] = f[j] => i = j
    <3> SUFFICES ASSUME NEW i \in FwSlots, NEW j \in FwSlots, rec(i) = rec(j) PROVE i = j
      OBVIOUS
    <3>1. rec(i).slot = i /\ rec(j).slot = j  BY DEF FwRecord
    <3> QED  BY <3>1
  <2> HIDE DEF f
  <2> QED  BY <2>1, <2>2 DEF Injection, IsInjective
<1> HIDE DEF f, rec
<1>5. IsFiniteSet(rest) /\ Cardinality(rest) = Cardinality(sent) - 1 /\ Cardinality(sent) \in Nat
  BY <1>1, FS_RemoveElement, FS_CardinalityType
<1>6. Cardinality(FwSlots) = FWCACHE_SIZE
  <2>1. Cardinality(1..FWCACHE_SIZE) = IF 1 > FWCACHE_SIZE THEN 0 ELSE FWCACHE_SIZE - 1 + 1
    BY FwConsts, FS_Interval
  <2> QED  BY <2>1, FwConsts DEF FwSlots
<1> HIDE DEF rest
<1>7. Cardinality(FwSlots) <= Cardinality(rest)  BY <1>4, <1>5, FS_Injection
<1> QED  BY <1>5, <1>6, <1>7, FwConsts

(* fwcache_register gives up an entry with the least time left. *)
LEMMA VictimIs ==
  ASSUME NEW r, \A i \in FwSlots : fwcache[r][i].timer \in Nat
  PROVE  FwVictim(r) \in FwSlots /\ \A i \in FwSlots : fwcache[r][FwVictim(r)].timer <= fwcache[r][i].timer
<1> DEFINE left(i) == fwcache[r][i].timer
           unused  == {i \in FwSlots : left(i) = 0}
           least   == {i \in FwSlots : \A j \in FwSlots : left(i) <= left(j)}
<1>1. FwVictim(r) = IF unused # {} THEN CHOOSE i \in unused : \A j \in unused : i <= j
                                   ELSE CHOOSE i \in least  : \A j \in least  : i >= j
  BY DEF FwVictim
<1>2. FwSlots \in SUBSET Nat /\ FwSlots \in SUBSET (0..FWCACHE_SIZE) /\ 1 \in FwSlots  BY FwConsts DEF FwSlots
<1>3. unused \subseteq least  OBVIOUS
<1>4. least # {}
  <2> DEFINE M == {left(i) : i \in FwSlots}
  <2>1. M \in SUBSET Nat /\ M # {}  BY <1>2
  <2>2. PICK m \in M : \A k \in M : m <= k  BY <2>1, LeastOf
  <2> QED  BY <2>2
<1>5. FwVictim(r) \in least
  <2>1. CASE unused # {}
    <3>1. unused \in SUBSET Nat  BY <1>2
    <3> HIDE DEF unused
    <3>2. (CHOOSE i \in unused : \A j \in unused : i <= j) \in unused  BY <2>1, <3>1, LeastOf
    <3> QED  BY <2>1, <3>2, <1>1, <1>3
  <2>2. CASE unused = {}
    <3>1. least \in SUBSET (0..FWCACHE_SIZE)  BY <1>2
    <3> HIDE DEF least
    <3>2. (CHOOSE i \in least : \A j \in least : i >= j) \in least  BY <1>4, <3>1, FwConsts, GreatestOf
    <3> QED  BY <2>2, <3>2, <1>1
  <2> QED  BY <2>1, <2>2
<1> QED  BY <1>5

LEMMA RegisterKeeps ==
  ASSUME NEW cache, NEW sent, CacheOK(cache, sent), NEW v \in FwSlots, NEW h,
         \A i \in FwSlots : cache[v].timer <= cache[i].timer
  PROVE  CacheOK([cache EXCEPT ![v] = FwEntry(FW_TIME, h)], sent \cup {FwRecord(FW_TIME, h, v)})
<1> DEFINE new   == FwEntry(FW_TIME, h)
           rec   == FwRecord(FW_TIME, h, v)
           after == [cache EXCEPT ![v] = new]
           all   == sent \cup {rec}
<1>1. /\ cache = [i \in FwSlots |-> cache[i]] /\ \A i \in FwSlots : IsFwEntry(cache[i])
      /\ IsFiniteSet(sent) /\ \A e \in sent : IsFwRecord(e)
      /\ \A i \in FwSlots : cache[i].timer # 0 => FwRecord(cache[i].timer, cache[i].pkt, i) \in sent
      /\ \A e \in sent : \/ cache[e.slot] = FwEntry(e.timer, e.pkt)
                         \/ \A i \in FwSlots : cache[i].timer >= e.timer
  BY DEF CacheOK
<1>2. new.timer = FW_TIME /\ new.pkt = h /\ IsFwEntry(new)  BY FwConsts DEF FwEntry, IsFwEntry
<1>3. rec.timer = FW_TIME /\ rec.pkt = h /\ rec.slot = v /\ IsFwRecord(rec)
  BY FwConsts DEF FwRecord, IsFwRecord
<1>4. after = [i \in FwSlots |-> IF i = v THEN new ELSE cache[i]]
  <2> HIDE DEF new
  <2> QED  BY <1>1
<1>5. rec = FwRecord(new.timer, new.pkt, v) /\ new = FwEntry(rec.timer, rec.pkt)  BY <1>2, <1>3
<1> HIDE DEF new, rec, after
<1>6. after = [i \in FwSlots |-> after[i]] /\ \A i \in FwSlots : after[i] = IF i = v THEN new ELSE cache[i]
  BY <1>4
<1>7. \A i \in FwSlots : IsFwEntry(after[i])  BY <1>1, <1>2, <1>6
<1>8. IsFiniteSet(all) /\ \A e \in all : IsFwRecord(e)  BY <1>1, <1>3, FS_AddElement
<1>9. \A i \in FwSlots : after[i].timer # 0 => FwRecord(after[i].timer, after[i].pkt, i) \in all
  BY <1>1, <1>5, <1>6
<1>10. ASSUME NEW e \in all
       PROVE  \/ after[e.slot] = FwEntry(e.timer, e.pkt)
              \/ \A i \in FwSlots : after[i].timer >= e.timer
  <2>1. CASE e = rec  BY <2>1, <1>3, <1>5, <1>6
  <2>2. CASE e \in sent
    <3>1. e.timer \in 1..FW_TIME /\ e.slot \in FwSlots  BY <2>2, <1>1 DEF IsFwRecord
    <3>2. new.timer >= e.timer  BY <3>1, <1>2, FwConsts
    <3>3. CASE \A i \in FwSlots : cache[i].timer >= e.timer  BY <3>2, <3>3, <1>6
    <3>4. CASE cache[e.slot] = FwEntry(e.timer, e.pkt) /\ e.slot # v  BY <3>1, <3>4, <1>6
    <3>5. CASE cache[e.slot] = FwEntry(e.timer, e.pkt) /\ e.slot = v
      <4>1. cache[v].timer = e.timer  BY <3>5 DEF FwEntry
      <4>2. \A i \in FwSlots : cache[i].timer \in 0..FW_TIME /\ cache[v].timer <= cache[i].timer
        BY <1>1 DEF IsFwEntry
      <4>3. \A i \in FwSlots : cache[i].timer >= e.timer  BY <4>1, <4>2, <3>1, FwConsts
      <4> QED  BY <4>3, <3>2, <1>6
    <3> QED  BY <2>2, <3>3, <3>4, <3>5, <1>1
  <2> QED  BY <2>1, <2>2
<1> HIDE DEF all
<1>11. CacheOK(after, all)  BY <1>6, <1>7, <1>8, <1>9, <1>10 DEF CacheOK
<1> QED  BY <1>11 DEF after, all, new, rec

(* uip_fw_periodic. *)
LEMMA AgingKeeps ==
  ASSUME NEW cache, NEW sent, CacheOK(cache, sent)
  PROVE  CacheOK([i \in FwSlots |-> FwAged(cache[i])], {FwAged(e) : e \in {d \in sent : d.timer > 1}})
<1> DEFINE after == [i \in FwSlots |-> FwAged(cache[i])]
           young == {d \in sent : d.timer > 1}
           all   == {FwAged(e) : e \in young}
<1>1. /\ cache = [i \in FwSlots |-> cache[i]] /\ \A i \in FwSlots : IsFwEntry(cache[i])
      /\ IsFiniteSet(sent) /\ \A e \in sent : IsFwRecord(e)
      /\ \A i \in FwSlots : cache[i].timer # 0 => FwRecord(cache[i].timer, cache[i].pkt, i) \in sent
      /\ \A e \in sent : \/ cache[e.slot] = FwEntry(e.timer, e.pkt)
                         \/ \A i \in FwSlots : cache[i].timer >= e.timer
  BY DEF CacheOK
<1>2. ASSUME NEW x, IsFwEntry(x)
      PROVE  /\ IsFwEntry(FwAged(x)) /\ FwAged(x).pkt = x.pkt
             /\ FwAged(x).timer = IF x.timer > 0 THEN x.timer - 1 ELSE 0
  <2> DEFINE n == IF x.timer > 0 THEN x.timer - 1 ELSE 0
  <2>1. x = FwEntry(x.timer, x.pkt) /\ x.timer \in 0..FW_TIME  BY <1>2 DEF IsFwEntry
  <2>2. n \in 0..FW_TIME  BY <2>1, FwConsts
  <2> HIDE DEF n
  <2>3. [x EXCEPT !.timer = n] = FwEntry(n, x.pkt)  BY <2>1 DEF FwEntry
  <2>4. FwAged(x) = [x EXCEPT !.timer = n]  BY DEF FwAged, n
  <2>5. FwAged(x).timer = n /\ FwAged(x).pkt = x.pkt  BY <2>3, <2>4 DEF FwEntry
  <2> QED  BY <2>2, <2>3, <2>4, <2>5 DEF IsFwEntry, n
<1>3. ASSUME NEW e, IsFwRecord(e), e.timer > 1
      PROVE  /\ FwAged(e) = FwRecord(e.timer - 1, e.pkt, e.slot) /\ IsFwRecord(FwAged(e))
             /\ FwAged(e).timer = e.timer - 1 /\ FwAged(e).pkt = e.pkt /\ FwAged(e).slot = e.slot
  <2> DEFINE n == e.timer - 1
  <2>1. e = FwRecord(e.timer, e.pkt, e.slot) /\ e.timer \in 1..FW_TIME /\ e.slot \in FwSlots
    BY <1>3 DEF IsFwRecord
  <2>2. n \in 1..FW_TIME  BY <2>1, <1>3, FwConsts
  <2>3. FwAged(e) = [e EXCEPT !.timer = n]
    <3>1. e.timer > 0  BY <2>1
    <3> QED  BY <3>1 DEF FwAged
  <2> HIDE DEF n
  <2>4. FwAged(e) = FwRecord(n, e.pkt, e.slot)  BY <2>1, <2>3 DEF FwRecord
  <2>5. FwAged(e).timer = n /\ FwAged(e).pkt = e.pkt /\ FwAged(e).slot = e.slot  BY <2>4 DEF FwRecord
  <2> QED  BY <2>1, <2>2, <2>4, <2>5 DEF IsFwRecord, n
<1>4. \A i \in FwSlots : after[i] = FwAged(cache[i])  OBVIOUS
<1>5. after = [i \in FwSlots |-> after[i]]  OBVIOUS
<1>6. IsFiniteSet(all)
  <2>1. IsFiniteSet(young)  BY <1>1, FS_Subset
  <2> DEFINE f == [e \in young |-> FwAged(e)]
  <2> HIDE DEF young
  <2>2. f \in Surjection(young, all)  BY DEF Surjection
  <2> QED  BY <2>1, <2>2, FS_Surjection
<1> HIDE DEF after
<1>7. \A i \in FwSlots : IsFwEntry(after[i])  BY <1>1, <1>2, <1>4
<1>8. \A e \in all : IsFwRecord(e)  BY <1>1, <1>3
<1>9. ASSUME NEW i \in FwSlots, after[i].timer # 0
      PROVE  FwRecord(after[i].timer, after[i].pkt, i) \in all
  <2>1. cache[i].timer \in 0..FW_TIME /\ IsFwEntry(cache[i])  BY <1>1 DEF IsFwEntry
  <2>2. /\ after[i].timer = IF cache[i].timer > 0 THEN cache[i].timer - 1 ELSE 0
        /\ after[i].pkt = cache[i].pkt
    BY <2>1, <1>2, <1>4
  <2>3. cache[i].timer > 1 /\ cache[i].timer # 0 /\ after[i].timer = cache[i].timer - 1
    BY <2>1, <2>2, <1>9, FwConsts
  <2> DEFINE e == FwRecord(cache[i].timer, cache[i].pkt, i)
  <2>4. e.timer = cache[i].timer /\ e.pkt = cache[i].pkt /\ e.slot = i  BY DEF FwRecord
  <2>5. e \in sent  BY <2>3, <1>1
  <2> HIDE DEF e
  <2>6. e \in young /\ FwAged(e) \in all  BY <2>3, <2>4, <2>5
  <2>7. FwAged(e) = FwRecord(e.timer - 1, e.pkt, e.slot)  BY <2>3, <2>4, <2>5, <1>1, <1>3
  <2> QED  BY <2>2, <2>3, <2>4, <2>6, <2>7
<1>10. ASSUME NEW a \in all
       PROVE  \/ after[a.slot] = FwEntry(a.timer, a.pkt)
              \/ \A i \in FwSlots : after[i].timer >= a.timer
  <2>1. PICK e \in young : a = FwAged(e)  OBVIOUS
  <2>2. e \in sent /\ e.timer > 1 /\ IsFwRecord(e) /\ e.slot \in FwSlots /\ e.timer \in 1..FW_TIME
    BY <2>1, <1>1 DEF IsFwRecord
  <2>3. a.timer = e.timer - 1 /\ a.pkt = e.pkt /\ a.slot = e.slot  BY <2>1, <2>2, <1>3
  <2>4. \A i \in FwSlots : cache[i].timer \in 0..FW_TIME /\ after[i].pkt = cache[i].pkt
          /\ after[i].timer = IF cache[i].timer > 0 THEN cache[i].timer - 1 ELSE 0
    BY <1>1, <1>2, <1>4 DEF IsFwEntry
  <2>5. CASE \A i \in FwSlots : cache[i].timer >= e.timer
    <3>1. ASSUME NEW i \in FwSlots PROVE after[i].timer >= a.timer
      BY <2>2, <2>3, <2>4, <2>5, FwConsts
    <3> QED  BY <3>1
  <2>6. CASE cache[e.slot] = FwEntry(e.timer, e.pkt)
    <3>1. cache[e.slot].timer = e.timer /\ cache[e.slot].pkt = e.pkt  BY <2>6 DEF FwEntry
    <3>2. after[e.slot].timer = a.timer /\ after[e.slot].pkt = a.pkt  BY <3>1, <2>2, <2>3, <2>4, FwConsts
    <3>3. after[e.slot] = FwEntry(after[e.slot].timer, after[e.slot].pkt)  BY <2>2, <1>7 DEF IsFwEntry
    <3> QED  BY <3>2, <3>3, <2>3
  <2> QED  BY <2>2, <2>5, <2>6, <1>1
<1> HIDE DEF all
<1>11. CacheOK(after, all)  BY <1>5, <1>6, <1>7, <1>8, <1>9, <1>10 DEF CacheOK
<1> QED  BY <1>11 DEF after, all

(* An empty cache, and nothing sent on. *)
LEMMA EmptyCache ==
  ASSUME fwcache = [r \in Routers |-> [i \in FwSlots |-> FwEntry(0, NoFwHeader)]],
         recent = [r \in Routers |-> {}]
  PROVE  FwInv
<1> DEFINE unused == FwEntry(0, NoFwHeader)
           empty  == [i \in FwSlots |-> unused]
<1>1. fwcache = [r \in Routers |-> empty] /\ recent = [r \in Routers |-> {}]
  OBVIOUS
<1>2. unused.timer = 0 /\ IsFwEntry(unused)  BY FwConsts DEF FwEntry, IsFwEntry
<1>3. CacheOK(empty, {})
  <2> HIDE DEF unused
  <2>1. \A i \in FwSlots : empty[i] = unused  OBVIOUS
  <2>2. empty = [i \in FwSlots |-> empty[i]]  OBVIOUS
  <2> HIDE DEF empty
  <2> QED  BY <1>2, <2>1, <2>2, FS_EmptySet DEF CacheOK
<1> HIDE DEF empty
<1> QED  BY <1>1, <1>3 DEF FwInv

LEMMA FwInitial == FwInit => FwInv
BY EmptyCache DEF FwInit, FwEntry

(* Only router r does something to its cache. *)
LEMMA OneRouter ==
  ASSUME FwInv, NEW r \in Routers, NEW cache, NEW sent, CacheOK(cache, sent),
         fwcache' = [fwcache EXCEPT ![r] = cache], recent' = [recent EXCEPT ![r] = sent]
  PROVE  FwInv'
<1>1. fwcache = [q \in Routers |-> fwcache[q]] /\ recent = [q \in Routers |-> recent[q]]  BY DEF FwInv
<1>2. fwcache' = [q \in Routers |-> IF q = r THEN cache ELSE fwcache[q]]
  <2>1. fwcache' = [fwcache EXCEPT ![r] = cache]  OBVIOUS
  <2> QED  BY <1>1, <2>1
<1>3. recent' = [q \in Routers |-> IF q = r THEN sent ELSE recent[q]]
  <2>1. recent' = [recent EXCEPT ![r] = sent]  OBVIOUS
  <2> QED  BY <1>1, <2>1
<1>4. \A q \in Routers : CacheOK(fwcache'[q], recent'[q])  BY <1>2, <1>3 DEF FwInv
<1>5. fwcache' = [q \in Routers |-> fwcache'[q]] /\ recent' = [q \in Routers |-> recent'[q]]
  BY <1>2, <1>3
<1> QED  BY <1>4, <1>5 DEF FwInv

LEMMA RegisterInv ==
  ASSUME FwInv, NEW r \in Routers, NEW p, fwcache_register(r, p)
  PROVE  FwInv'
<1> DEFINE c == fwcache[r]
           v == FwVictim(r)
           h == FwHeader(p)
           cache == [c EXCEPT ![v] = FwEntry(FW_TIME, h)]
           sent  == recent[r] \cup {FwRecord(FW_TIME, h, v)}
<1>1. CacheOK(c, recent[r])  BY DEF FwInv
<1>2. \A i \in FwSlots : c[i].timer \in Nat  BY <1>1, FwConsts DEF CacheOK, IsFwEntry
<1>3. v \in FwSlots /\ \A i \in FwSlots : c[v].timer <= c[i].timer  BY <1>2, VictimIs
<1>4. /\ fwcache' = [fwcache EXCEPT ![r][v] = FwEntry(FW_TIME, h)]
      /\ recent' = [recent EXCEPT ![r] = @ \cup {FwRecord(FW_TIME, h, v)}]
  BY DEF fwcache_register, FwEntry, FwRecord
<1>5. fwcache' = [fwcache EXCEPT ![r] = cache] /\ recent' = [recent EXCEPT ![r] = sent]
  <2> HIDE DEF v, h
  <2> QED  BY <1>4, Zenon
<1> HIDE DEF v, h, c
<1>6. CacheOK(cache, sent)  BY <1>1, <1>3, RegisterKeeps
<1> HIDE DEF cache, sent
<1> QED  BY <1>5, <1>6, OneRouter

LEMMA PeriodicInv ==
  ASSUME FwInv, NEW r \in Routers, uip_fw_periodic(r)
  PROVE  FwInv'
<1> DEFINE c     == fwcache[r]
           cache == [i \in FwSlots |-> FwAged(c[i])]
           sent  == {FwAged(e) : e \in {d \in recent[r] : d.timer > 1}}
<1>1. CacheOK(c, recent[r])  BY DEF FwInv
<1>2. fwcache' = [fwcache EXCEPT ![r] = cache]
  BY Zenon DEF uip_fw_periodic
<1>3. recent' = [recent EXCEPT ![r] = sent]
  BY Zenon DEF uip_fw_periodic
<1> HIDE DEF c
<1>4. CacheOK(cache, sent)  BY <1>1, AgingKeeps
<1> HIDE DEF cache, sent
<1> QED  BY <1>2, <1>3, <1>4, OneRouter

LEMMA FwStep == FwInv /\ [FwNext]_fwVars => FwInv'
<1> SUFFICES ASSUME FwInv, [FwNext]_fwVars PROVE FwInv'
  OBVIOUS
<1>1. CASE UNCHANGED <<fwcache, recent>>  BY <1>1 DEF FwInv
<1>2. ASSUME NEW r \in Routers, uip_fw_register(r) PROVE FwInv'
  BY <1>1, <1>2 DEF uip_fw_register
<1>3. ASSUME NEW r \in Routers, uip_fw_periodic(r) PROVE FwInv'  BY <1>3, PeriodicInv
<1>4. ASSUME NEW r \in Routers, NEW m, uip_fw_forward(r, m) PROVE FwInv'
  <2>1. \/ FwDropped(m)
        \/ \E q : uip_fw_output(r, m, Sent(q))
    BY <1>4, Zenon DEF uip_fw_forward
  <2>2. CASE FwDropped(m)  BY <2>2, <1>1 DEF FwDropped
  <2>3. ASSUME NEW q, uip_fw_output(r, m, Sent(q)) PROVE FwInv'
    BY <2>3, RegisterInv DEF uip_fw_output
  <2> QED  BY <2>1, <2>2, <2>3
<1>5. CASE UNCHANGED fwVars  BY <1>1, <1>5 DEF fwVars
<1> QED  BY <1>2, <1>3, <1>4, <1>5 DEF FwNext

(* As long as a router sends on no more packets within FW_TIME than its    *)
(* cache holds, all of them are still in the cache (fwcache_register,      *)
(* uip_fw_periodic), so that none of them is sent on again.                *)
THEOREM RecentInCacheHolds == FwSpec => []RecentInCache
<1>1. FwInit => FwInv  BY FwInitial
<1>2. FwInv /\ [FwNext]_fwVars => FwInv'  BY FwStep
<1>3. FwInv => RecentInCache
  <2> SUFFICES ASSUME FwInv, NEW r \in Routers, Cardinality(recent[r]) <= FWCACHE_SIZE, NEW e \in recent[r]
               PROVE  Remembered(r, e)
    BY DEF RecentInCache
  <2>1. CacheOK(fwcache[r], recent[r])  BY DEF FwInv
  <2>2. fwcache[r][e.slot] = FwEntry(e.timer, e.pkt)  BY <2>1, NothingGivenUp
  <2> QED  BY <2>2 DEF Remembered, FwEntry
<1> QED  BY <1>1, <1>2, <1>3, PTL DEF FwSpec

-------------------------------------------------------------------------------
(*****************************************************************************)
(* uIP main loop: for every period, width of the clock and delay, as long as *)
(* the loop is not so late that the clock comes round.                       *)
(*****************************************************************************)
LEMMA LoopConsts ==
  /\ Period \in Nat /\ ArpPeriod \in Nat /\ ClockMod \in Nat /\ MaxDue \in Nat /\ Backlog \in Nat
  /\ Period > 0 /\ ArpPeriod > 0 /\ ClockMod > 0 /\ MaxDue > 0
  /\ Period < ArpPeriod /\ (MaxDue + 1) * Period + ArpPeriod < ClockMod
  /\ ArpPeriod % Period = 0 /\ ClockMod % ArpPeriod = 0
<1>1. {Period, ArpPeriod, ClockMod, Backlog, MaxDue} \subseteq Nat \ {0}
  BY MainLoopAssumption
<1> QED  BY <1>1, MainLoopAssumption

(* A tick of the clock, and its remainders. *)
LEMMA NextRemainder ==
  ASSUME NEW P \in Nat, P > 0, NEW C \in Nat, C > 0, C % P = 0, NEW n \in 0..(C-1)
  PROVE  ((n + 1) % C) % P = IF (n % P) + 1 = P THEN 0 ELSE (n % P) + 1
<1> DEFINE q == n \div P  r == n % P  c == C \div P
<1>1. n = P * q + r /\ q \in Nat /\ r \in 0..(P-1)  BY Divided
<1>2. C = P * c /\ c \in Nat  BY Divided
<1> HIDE DEF q, r, c
<1>3. CASE n + 1 = C
  <2>1. (n + 1) % C = 0 /\ 0 % P = 0  BY <1>3, Quotient, 0 = C * 0 + 0, C = C * 1 + 0, 0 = P * 0 + 0
  <2>2. P * q + (r + 1) = P * c  BY <1>1, <1>2, <1>3
  <2>3. r + 1 = P
    <3> SUFFICES ASSUME r + 1 # P PROVE FALSE
      OBVIOUS
    <3>1. r + 1 \in 0..(P-1)  BY <1>1
    <3>2. (P * q + (r + 1)) % P = r + 1
      <4> DEFINE s == r + 1
      <4>1. P * q + s \in Nat /\ s \in 0..(P-1)  BY <1>1, <3>1
      <4> HIDE DEF s
      <4>2. (P * q + s) % P = s  BY <1>1, <4>1, Quotient
      <4> QED  BY <4>2 DEF s
    <3>3. C % P = r + 1  BY <2>2, <3>2, <1>2
    <3> QED  BY <3>3, <1>1
  <2> QED  BY <2>1, <2>3 DEF r
<1>4. CASE n + 1 # C
  <2> DEFINE n1 == n + 1
  <2>1. n1 \in 0..(C-1) /\ n1 \in Nat /\ n1 = C * 0 + n1  BY <1>4
  <2>2. n1 = P * q + (r + 1)  BY <1>1
  <2>2a. P * q + (r + 1) = P * (q + 1) + 0 \/ r + 1 # P
    <3>1. P * (q + 1) = P * q + P  BY <1>1
    <3> QED  BY <3>1, <1>1
  <2> HIDE DEF n1
  <2>3. n1 % C = n1
    <3>1. (C * 0 + n1) % C = n1  BY <2>1, Quotient
    <3> QED  BY <2>1, <3>1
  <2>4. CASE r + 1 = P
    <3>1. n1 = P * (q + 1) + 0 /\ q + 1 \in Int  BY <2>2, <2>2a, <2>4, <1>1
    <3> DEFINE q1 == q + 1
    <3>2. n1 = P * q1 + 0 /\ q1 \in Int  BY <3>1
    <3> HIDE DEF q1
    <3>3. n1 % P = 0  BY <2>1, <3>2, Quotient
    <3> QED  BY <2>3, <2>4, <3>3 DEF n1, r
  <2>5. CASE r + 1 # P
    <3> DEFINE s == r + 1
    <3>1. n1 = P * q + s /\ s \in 0..(P-1)  BY <1>1, <2>2, <2>5
    <3> HIDE DEF s
    <3>2. n1 % P = s  BY <1>1, <2>1, <3>1, Quotient
    <3> QED  BY <2>3, <2>5, <3>2 DEF n1, r, s
  <2> QED  BY <2>4, <2>5
<1> QED  BY <1>3, <1>4

(* The time since a moment of the clock, which comes round.                *)
Since(t, start) == (t + ClockMod - start) % ClockMod

LEMMA SinceIs ==
  ASSUME NEW t \in 0..(ClockMod - 1), NEW s \in 0..(ClockMod - 1)
  PROVE  Since(t, s) = IF t >= s THEN t - s ELSE t + ClockMod - s
<1> DEFINE x == t + ClockMod - s
<1>1. x \in 0..(2 * ClockMod - 1) /\ x = t + ClockMod - s  BY LoopConsts
<1> HIDE DEF x
<1>2. x % ClockMod = IF x < ClockMod THEN x ELSE x - ClockMod  BY <1>1, LoopConsts, Within
<1> QED  BY <1>1, <1>2, LoopConsts DEF Since, x

LEMMA SinceTick ==
  ASSUME NEW t \in 0..(ClockMod - 1), NEW s \in 0..(ClockMod - 1), Since(t, s) + 1 < ClockMod
  PROVE  /\ (t + 1) % ClockMod \in 0..(ClockMod - 1)
         /\ Since((t + 1) % ClockMod, s) = Since(t, s) + 1
<1> DEFINE u == (t + 1) % ClockMod
<1>1. u = IF t + 1 < ClockMod THEN t + 1 ELSE (t + 1) - ClockMod
  <2> DEFINE x == t + 1
  <2>1. x \in 0..(2 * ClockMod - 1)  BY LoopConsts
  <2> HIDE DEF x
  <2>2. x % ClockMod = IF x < ClockMod THEN x ELSE x - ClockMod  BY <2>1, LoopConsts, Within
  <2> QED  BY <2>2 DEF x
<1> HIDE DEF u
<1>2. u \in 0..(ClockMod - 1)  BY <1>1, LoopConsts
<1>3. Since(u, s) = IF u >= s THEN u - s ELSE u + ClockMod - s  BY <1>2, SinceIs
<1>4. Since(t, s) = IF t >= s THEN t - s ELSE t + ClockMod - s  BY SinceIs
<1>5. Since(u, s) = Since(t, s) + 1  BY <1>1, <1>2, <1>3, <1>4, LoopConsts
<1> QED  BY <1>2, <1>5 DEF u

LEMMA SinceReset ==
  ASSUME NEW t \in 0..(ClockMod - 1), NEW s \in 0..(ClockMod - 1), NEW i \in Nat,
         i < ClockMod, Since(t, s) >= i
  PROVE  /\ timer_reset(s, i) \in 0..(ClockMod - 1)
         /\ Since(t, timer_reset(s, i)) = Since(t, s) - i
<1> DEFINE u == timer_reset(s, i)
<1>1. u = IF s + i < ClockMod THEN s + i ELSE (s + i) - ClockMod
  <2> DEFINE x == s + i
  <2>1. x \in 0..(2 * ClockMod - 1)  BY LoopConsts
  <2> HIDE DEF x
  <2>2. x % ClockMod = IF x < ClockMod THEN x ELSE x - ClockMod  BY <2>1, LoopConsts, Within
  <2> QED  BY <2>2 DEF x, timer_reset
<1> HIDE DEF u
<1>2. u \in 0..(ClockMod - 1)  BY <1>1, LoopConsts
<1>3. Since(t, u) = IF t >= u THEN t - u ELSE t + ClockMod - u  BY <1>2, SinceIs
<1>4. Since(t, s) = IF t >= s THEN t - s ELSE t + ClockMod - s  BY SinceIs
<1>5. Since(t, u) = Since(t, s) - i  BY <1>1, <1>2, <1>3, <1>4, LoopConsts
<1> QED  BY <1>2, <1>5 DEF u

(* Both timers are behind the clock by what is due, and that of the ARP    *)
(* cache by less than its period more than the other.                      *)
LoopInv ==
  /\ now \in 0..(ClockMod - 1) /\ periodic_timer \in 0..(ClockMod - 1) /\ arp_timer \in 0..(ClockMod - 1)
  /\ due \in 0..MaxDue /\ arpDue \in Nat
  /\ Since(now, periodic_timer) = (due * Period) + (now % Period)
  /\ Since(now, arp_timer) = (arpDue * ArpPeriod) + (now % ArpPeriod)
  /\ Since(now, arp_timer) < Since(now, periodic_timer) + ArpPeriod

LEMMA SinceInv ==
  ASSUME LoopInv
  PROVE  /\ Since(now, periodic_timer) \in Nat /\ Since(now, arp_timer) \in Nat
         /\ Since(now, periodic_timer) < (MaxDue + 1) * Period
         /\ Since(now, arp_timer) + 1 < ClockMod /\ Since(now, periodic_timer) + 1 < ClockMod
<1> DEFINE a == Since(now, arp_timer)  p == Since(now, periodic_timer)
<1>1. now \in Nat /\ due \in Nat /\ due <= MaxDue  BY LoopConsts DEF LoopInv
<1>2. now % Period \in 0..(Period - 1)  BY <1>1, LoopConsts, Divided
<1>3. p = (due * Period) + (now % Period) /\ a < p + ArpPeriod  BY DEF LoopInv
<1>4. due * Period \in Nat /\ due * Period <= MaxDue * Period /\ (MaxDue + 1) * Period = MaxDue * Period + Period
      /\ MaxDue * Period \in Nat
  BY <1>1, LoopConsts, Times
<1>5. a \in Nat
  <2>1. now \in 0..(ClockMod - 1) /\ arp_timer \in 0..(ClockMod - 1)  BY DEF LoopInv
  <2>2. a = IF now >= arp_timer THEN now - arp_timer ELSE now + ClockMod - arp_timer  BY <2>1, SinceIs
  <2> HIDE DEF a
  <2> QED  BY <2>1, <2>2, LoopConsts
<1> HIDE DEF a, p
<1> DEFINE dp == due * Period  mp == MaxDue * Period  m1 == (MaxDue + 1) * Period  r == now % Period
<1>6. dp \in Nat /\ mp \in Nat /\ dp <= mp /\ m1 = mp + Period /\ r \in 0..(Period-1)
      /\ p = dp + r /\ a < p + ArpPeriod /\ m1 + ArpPeriod < ClockMod
  BY <1>2, <1>3, <1>4, LoopConsts
<1> HIDE DEF dp, mp, m1, r
<1>7. p \in Nat /\ p < m1 /\ a + 1 < ClockMod /\ p + 1 < ClockMod  BY <1>5, <1>6, LoopConsts
<1> QED  BY <1>5, <1>7 DEF a, p, m1

LEMMA LoopInitial == LoopInit => LoopInv
<1> SUFFICES ASSUME LoopInit PROVE LoopInv
  OBVIOUS
<1>1. now = 0 /\ periodic_timer = 0 /\ arp_timer = 0 /\ due = 0 /\ arpDue = 0  BY DEF LoopInit
<1>2. Since(now, periodic_timer) = 0 /\ Since(now, arp_timer) = 0
  <2>1. now \in 0..(ClockMod - 1)  BY <1>1, LoopConsts
  <2> QED  BY <1>1, <2>1, SinceIs
<1>3. now % Period = 0 /\ now % ArpPeriod = 0
  <2>1. 0 = Period * 0 + 0 /\ 0 = ArpPeriod * 0 + 0 /\ 0 \in 0..(Period-1) /\ 0 \in 0..(ArpPeriod-1)  BY LoopConsts
  <2> QED  BY <1>1, <2>1, LoopConsts, Quotient
<1>4. 0 * Period = 0 /\ 0 * ArpPeriod = 0  BY LoopConsts
<1> QED  BY <1>1, <1>2, <1>3, <1>4, LoopConsts DEF LoopInv

(* A timer with this period and start is behind the clock by d periods,    *)
(* and by the part of the next one that has passed.                        *)
Behind(n, s, d, P) == Since(n, s) = (d * P) + (n % P)

(* What is due after the tick to n. *)
DueAt(n, d, P) == IF n % P = 0 THEN d + 1 ELSE d

(* One tick more since the reset of a timer; and so is what is due. *)
LEMMA TickCounts ==
  ASSUME NEW P \in Nat, P > 0, ClockMod % P = 0, NEW n \in 0..(ClockMod - 1), NEW d \in Nat,
         NEW s \in 0..(ClockMod - 1), Since(n, s) + 1 < ClockMod, Behind(n, s, d, P)
  PROVE  /\ DueAt((n + 1) % ClockMod, d, P) \in Nat
         /\ Behind((n + 1) % ClockMod, s, DueAt((n + 1) % ClockMod, d, P), P)
<1> DEFINE e == DueAt((n + 1) % ClockMod, d, P)
<1> DEFINE u == (n + 1) % ClockMod  r == n % P  w == u % P  dp == d * P  ep == e * P
           b == Since(n, s)  c == Since(u, s)
<1>1. c = b + 1  BY SinceTick
<1>2. w = IF r + 1 = P THEN 0 ELSE r + 1
  <2>1. ((n + 1) % ClockMod) % P = IF (n % P) + 1 = P THEN 0 ELSE (n % P) + 1  BY LoopConsts, NextRemainder
  <2> QED  BY <2>1
<1>3. r \in 0..(P-1)
  <2>1. n \in Nat  BY LoopConsts
  <2> QED  BY <2>1, Divided
<1>4. dp \in Nat /\ (d + 1) * P = dp + P  BY Times
<1>5. b = dp + r /\ e = IF w = 0 THEN d + 1 ELSE d  BY DEF Behind, DueAt
<1>5a. e \in Nat  BY <1>5
<1>6. ep = IF w = 0 THEN dp + P ELSE dp  BY <1>4, <1>5
<1> HIDE DEF e, u, r, w, dp, ep, b, c
<1>7. c = ep + w  BY <1>1, <1>2, <1>3, <1>4, <1>5, <1>6
<1> QED  BY <1>5a, <1>7 DEF e, u, w, ep, c, Behind

LEMMA TickInv == LoopInv /\ Tick => LoopInv'
<1> SUFFICES ASSUME LoopInv, Tick PROVE LoopInv'
  OBVIOUS
<1> DEFINE u == (now + 1) % ClockMod
<1>1. /\ now \in 0..(ClockMod - 1) /\ periodic_timer \in 0..(ClockMod - 1) /\ arp_timer \in 0..(ClockMod - 1)
      /\ due \in 0..MaxDue /\ due \in Nat /\ arpDue \in Nat
      /\ Since(now, periodic_timer) = (due * Period) + (now % Period)
      /\ Since(now, arp_timer) = (arpDue * ArpPeriod) + (now % ArpPeriod)
      /\ Since(now, arp_timer) < Since(now, periodic_timer) + ArpPeriod
  BY LoopConsts DEF LoopInv
<1>2. /\ now' = u /\ due' = (IF u % Period = 0 THEN due + 1 ELSE due)
      /\ arpDue' = (IF u % ArpPeriod = 0 THEN arpDue + 1 ELSE arpDue)
      /\ periodic_timer' = periodic_timer /\ arp_timer' = arp_timer
      /\ (due < MaxDue \/ u % Period # 0)
  BY DEF Tick
<1>3. due' \in 0..MaxDue /\ due' \in Nat /\ arpDue' \in Nat  BY <1>1, <1>2, LoopConsts
<1>4. Since(now, arp_timer) + 1 < ClockMod /\ Since(now, periodic_timer) + 1 < ClockMod
      /\ Since(now, periodic_timer) \in Nat /\ Since(now, arp_timer) \in Nat
  BY SinceInv
<1>5. ClockMod % Period = 0 /\ ClockMod % ArpPeriod = 0  BY LoopConsts, Multiple
<1>6. Since(u, periodic_timer) = (due' * Period) + (u % Period)
  <2>1. Behind(now, periodic_timer, due, Period) /\ due' = DueAt(u, due, Period)
    BY <1>1, <1>2 DEF Behind, DueAt
  <2>2. Period \in Nat /\ Period > 0  BY LoopConsts
  <2>3. Behind(u, periodic_timer, DueAt(u, due, Period), Period)
    BY <1>1, <1>4, <1>5, <2>1, <2>2, TickCounts
  <2> QED  BY <2>1, <2>3 DEF Behind
<1>7. Since(u, arp_timer) = (arpDue' * ArpPeriod) + (u % ArpPeriod)
  <2>1. Behind(now, arp_timer, arpDue, ArpPeriod) /\ arpDue' = DueAt(u, arpDue, ArpPeriod)
    BY <1>1, <1>2 DEF Behind, DueAt
  <2>2. ArpPeriod \in Nat /\ ArpPeriod > 0  BY LoopConsts
  <2>3. Behind(u, arp_timer, DueAt(u, arpDue, ArpPeriod), ArpPeriod)
    BY <1>1, <1>4, <1>5, <2>1, <2>2, TickCounts
  <2> QED  BY <2>1, <2>3 DEF Behind
<1>8. u \in 0..(ClockMod - 1) /\ Since(u, periodic_timer) = Since(now, periodic_timer) + 1
      /\ Since(u, arp_timer) = Since(now, arp_timer) + 1
  BY <1>1, <1>4, SinceTick
<1> HIDE DEF u
<1>9. Since(u, arp_timer) < Since(u, periodic_timer) + ArpPeriod  BY <1>1, <1>4, <1>8, LoopConsts
<1> QED  BY <1>1, <1>2, <1>3, <1>6, <1>7, <1>8, <1>9 DEF LoopInv, Since

(* A timer that has expired starts the next interval: one period less is   *)
(* due.                                                                    *)
LEMMA ResetCounts ==
  ASSUME NEW P \in Nat, P > 0, P < ClockMod, NEW n \in 0..(ClockMod - 1), NEW d \in Nat,
         NEW s \in 0..(ClockMod - 1), Since(n, s) >= P, Behind(n, s, d, P)
  PROVE  /\ timer_reset(s, P) \in 0..(ClockMod - 1) /\ Took(d) \in Nat /\ Took(d) <= d
         /\ Behind(n, timer_reset(s, P), Took(d), P)
         /\ Since(n, timer_reset(s, P)) = Since(n, s) - P
<1> DEFINE r == n % P  dp == d * P  b == Since(n, s)  c == Since(n, timer_reset(s, P))
<1>1. r \in 0..(P-1)
  <2>1. n \in Nat  BY LoopConsts
  <2> QED  BY <2>1, Divided
<1>2. dp \in Nat /\ (d > 0 => (d - 1) * P = dp - P) /\ (d = 0 => dp = 0)  BY Times
<1>3. timer_reset(s, P) \in 0..(ClockMod - 1) /\ c = b - P  BY SinceReset
<1>4. b = dp + r /\ b >= P  BY DEF Behind
<1> HIDE DEF r, dp, b, c
<1>5. d > 0  BY <1>1, <1>2, <1>4
<1>6. Took(d) = d - 1 /\ Took(d) \in Nat /\ Took(d) <= d  BY <1>5 DEF Took
<1>7. Took(d) * P = dp - P  BY <1>2, <1>5, <1>6
<1>8. c = (dp - P) + r  BY <1>1, <1>2, <1>3, <1>4
<1> QED  BY <1>3, <1>6, <1>7, <1>8 DEF r, b, c, Behind

LEMMA WorkKeeps == LoopInv /\ Periodic => LoopInv'
<1> SUFFICES ASSUME LoopInv, Periodic PROVE LoopInv'
  OBVIOUS
<1>1. /\ now \in 0..(ClockMod - 1) /\ periodic_timer \in 0..(ClockMod - 1) /\ arp_timer \in 0..(ClockMod - 1)
      /\ due \in 0..MaxDue /\ due \in Nat /\ arpDue \in Nat
      /\ Since(now, periodic_timer) = (due * Period) + (now % Period)
      /\ Since(now, arp_timer) = (arpDue * ArpPeriod) + (now % ArpPeriod)
      /\ Since(now, arp_timer) < Since(now, periodic_timer) + ArpPeriod
  BY LoopConsts DEF LoopInv
<1>2. /\ Since(now, periodic_timer) >= Period /\ due' = Took(due) /\ now' = now
      /\ periodic_timer' = timer_reset(periodic_timer, Period)
      /\ IF Since(now, arp_timer) >= ArpPeriod
         THEN arp_timer' = timer_reset(arp_timer, ArpPeriod) /\ arpDue' = Took(arpDue)
         ELSE arp_timer' = arp_timer /\ arpDue' = arpDue
  BY DEF Periodic, Expired, Elapsed, Since
<1>3. Period < ClockMod /\ ArpPeriod < ClockMod
  <2>1. (MaxDue + 1) * Period \in Nat  BY LoopConsts, Times
  <2> DEFINE m1 == (MaxDue + 1) * Period
  <2>2. m1 \in Nat /\ m1 + ArpPeriod < ClockMod  BY <2>1, LoopConsts
  <2> HIDE DEF m1
  <2> QED  BY <2>2, LoopConsts
<1> DEFINE p == Since(now, periodic_timer)  a == Since(now, arp_timer)
           q == Since(now, timer_reset(periodic_timer, Period))  b == Since(now, arp_timer')
<1>4. /\ timer_reset(periodic_timer, Period) \in 0..(ClockMod - 1)
      /\ Took(due) \in Nat /\ Took(due) <= due
      /\ q = (Took(due) * Period) + (now % Period) /\ q = p - Period
  <2>1. Behind(now, periodic_timer, due, Period)  BY <1>1 DEF Behind
  <2>2. Period \in Nat /\ Period > 0  BY LoopConsts
  <2>3. /\ timer_reset(periodic_timer, Period) \in 0..(ClockMod - 1)
        /\ Took(due) \in Nat /\ Took(due) <= due /\ q = p - Period
        /\ Behind(now, timer_reset(periodic_timer, Period), Took(due), Period)
    BY <1>1, <1>2, <1>3, <2>1, <2>2, ResetCounts
  <2> QED  BY <2>3 DEF Behind
<1>5. p \in Nat /\ a \in Nat  BY SinceInv
<1>6. /\ arp_timer' \in 0..(ClockMod - 1) /\ arpDue' \in Nat
      /\ b = (arpDue' * ArpPeriod) + (now % ArpPeriod)
      /\ b = a - ArpPeriod \/ (b = a /\ a < ArpPeriod)
  <2>1. CASE a >= ArpPeriod
    <3>1. Behind(now, arp_timer, arpDue, ArpPeriod)  BY <1>1 DEF Behind
    <3>2. ArpPeriod \in Nat /\ ArpPeriod > 0  BY LoopConsts
    <3>3. /\ timer_reset(arp_timer, ArpPeriod) \in 0..(ClockMod - 1) /\ Took(arpDue) \in Nat
          /\ Behind(now, timer_reset(arp_timer, ArpPeriod), Took(arpDue), ArpPeriod)
          /\ Since(now, timer_reset(arp_timer, ArpPeriod)) = a - ArpPeriod
      BY <2>1, <1>1, <1>3, <3>1, <3>2, ResetCounts
    <3> QED  BY <2>1, <3>3, <1>2 DEF Behind
  <2>2. CASE ~(a >= ArpPeriod)
    <3>1. a < ArpPeriod
      <4> HIDE DEF a
      <4> QED  BY <2>2, <1>5, LoopConsts
    <3> QED  BY <2>2, <3>1, <1>1, <1>2
  <2> QED  BY <2>1, <2>2
<1>7. b < q + ArpPeriod
  <2>1. p >= Period /\ a < p + ArpPeriod  BY <1>1, <1>2
  <2> HIDE DEF p, a, q, b
  <2> QED  BY <2>1, <1>4, <1>5, <1>6, LoopConsts
<1>8. Took(due) \in 0..MaxDue  BY <1>1, <1>4, LoopConsts
<1> QED  BY <1>1, <1>2, <1>4, <1>6, <1>7, <1>8 DEF LoopInv, Since

LEMMA LoopStep == LoopInv /\ [LoopNext]_loopVars => LoopInv'
<1> SUFFICES ASSUME LoopInv, [LoopNext]_loopVars PROVE LoopInv'
  OBVIOUS
<1>1. CASE UNCHANGED <<now, periodic_timer, arp_timer, due, arpDue>>
  BY <1>1 DEF LoopInv, Since
<1>2. CASE HandlePacket  BY <1>1, <1>2 DEF HandlePacket
<1>3. CASE Periodic  BY <1>3, WorkKeeps
<1>4. CASE Arrives  BY <1>1, <1>4 DEF Arrives
<1>5. CASE Tick  BY <1>5, TickInv
<1>6. CASE UNCHANGED loopVars  BY <1>1, <1>6 DEF loopVars
<1> QED  BY <1>2, <1>3, <1>4, <1>5, <1>6 DEF LoopNext

(* However late the loop is and across the wrap of the clock, no period is *)
(* lost and none is counted twice (timer_reset and the loop of main.c).    *)
THEOREM NoneIsLostHolds == LoopSpec => []NoneIsLost
<1>1. LoopInit => LoopInv  BY LoopInitial
<1>2. LoopInv /\ [LoopNext]_loopVars => LoopInv'  BY LoopStep
<1>3. LoopInv => NoneIsLost  BY DEF LoopInv, NoneIsLost, Elapsed, Since
<1> QED  BY <1>1, <1>2, <1>3, PTL DEF LoopSpec

-------------------------------------------------------------------------------
(*****************************************************************************)
(* uIP arithmetic: for every size of a byte, so for 256, and whatever the    *)
(* order of the bytes in a word.                                             *)
(*****************************************************************************)
LEMMA ByteConsts ==
  /\ Byte \in Nat /\ Byte > 1 /\ FullSegment \in Nat /\ FullSegment > 0
  /\ Word = Byte * Byte /\ Word \in Nat /\ Word > 0 /\ FullSegment < Word /\ Word * Word \in Nat /\ Word * Word > 0
<1>1. {Byte, FullSegment} \subseteq Nat \ {0} /\ Byte > 1 /\ FullSegment < Byte * Byte  BY ArithAssumption
<1>2. Byte * Byte \in Nat /\ Byte * Byte > 0  BY <1>1
<1> DEFINE w == Byte * Byte
<1>3. w \in Nat /\ w > 0 /\ Word = w  BY <1>2 DEF Word
<1> HIDE DEF w
<1>4. w * w \in Nat /\ w * w > 0  BY <1>3
<1> QED  BY <1>1, <1>3, <1>4 DEF w

Bytes4(a) == a = <<a[1], a[2], a[3], a[4]>> /\ \A i \in 1..4 : a[i] \in ByteValues

(* Two bytes are added: the sum is short of one of them just if there was  *)
(* a carry.                                                                *)
LEMMA ByteSum ==
  ASSUME NEW x \in ByteValues, NEW y \in ByteValues
  PROVE  LET s == (x + y) % Byte
         IN  s \in ByteValues /\ (IF s < y THEN s = x + y - Byte ELSE s = x + y)
<1> DEFINE z == x + y
<1>1. z \in 0..(2 * Byte - 1) /\ x \in 0..(Byte-1) /\ y \in 0..(Byte-1) /\ z = x + y  BY ByteConsts DEF ByteValues
<1> HIDE DEF z
<1>2. z % Byte = IF z < Byte THEN z ELSE z - Byte  BY <1>1, ByteConsts, Within
<1> QED  BY <1>1, <1>2, ByteConsts DEF ByteValues, z

(* A word is its two bytes. *)
LEMMA WordBytes ==
  ASSUME NEW n \in 0..(Word - 1)
  PROVE  Hi(n) \in ByteValues /\ Lo(n) \in ByteValues /\ n = Hi(n) * Byte + Lo(n)
<1> DEFINE h == n \div Byte  l == n % Byte
<1>1. n \in Nat /\ n < Word  BY ByteConsts
<1>2. h \in Nat /\ l \in 0..(Byte-1) /\ n = Byte * h + l  BY <1>1, ByteConsts, Divided
<1> HIDE DEF h, l
<1>3. h < Byte
  <2> SUFFICES ASSUME h >= Byte PROVE FALSE
    BY <1>2, ByteConsts
  <2> DEFINE d == h - Byte
  <2>1. d \in Nat /\ h = Byte + d  BY <1>2, ByteConsts
  <2> HIDE DEF d
  <2>2. Byte * h = Byte * Byte + Byte * d /\ Byte * d \in Nat  BY <2>1, ByteConsts
  <2>3. Byte * h >= Byte * Byte  BY <2>2, ByteConsts
  <2> QED  BY <2>3, <1>1, <1>2, ByteConsts
<1>4. Byte * h = h * Byte  BY <1>2, ByteConsts
<1> QED  BY <1>2, <1>3, <1>4, ByteConsts DEF ByteValues, Hi, Lo, h, l

(* The value of two bytes; counting on from it, and what is carried out.   *)
Pair(x, y) == x * Byte + y

(* A value as its upper and its lower word. *)
LEMMA ValueWords ==
  ASSUME NEW b1 \in ByteValues, NEW b2 \in ByteValues, NEW b3 \in ByteValues, NEW b4 \in ByteValues
  PROVE  /\ Value(<<b1, b2, b3, b4>>) = Pair(b1, b2) * Word + Pair(b3, b4)
         /\ Pair(b1, b2) \in 0..(Word - 1) /\ Pair(b3, b4) \in 0..(Word - 1)
<1>1. ASSUME NEW x \in ByteValues, NEW y \in ByteValues PROVE Pair(x, y) \in 0..(Word - 1)
  <2>1. x \in Nat /\ y \in Nat /\ y < Byte /\ Byte - 1 - x \in Nat  BY ByteConsts DEF ByteValues
  <2> DEFINE d == Byte - 1 - x
  <2>2. d \in Nat /\ x = (Byte - 1) - d  BY <2>1, ByteConsts
  <2> HIDE DEF d
  <2>3. x * Byte = Byte * Byte - Byte - d * Byte /\ d * Byte \in Nat /\ x * Byte \in Nat
    <3>1. ((Byte - 1) - d) * Byte = (Byte * Byte - Byte) - (d * Byte)  BY <2>2, ByteConsts
    <3> QED  BY <3>1, <2>1, <2>2, ByteConsts
  <2> DEFINE xb == x * Byte  db == d * Byte
  <2>4. xb = (Word - Byte) - db /\ db \in Nat /\ xb \in Nat  BY <2>3, ByteConsts
  <2> HIDE DEF xb, db
  <2>5. xb + y \in 0..(Word - 1)  BY <2>1, <2>4, ByteConsts
  <2> QED  BY <2>5 DEF Pair, xb
<1>2. Value(<<b1, b2, b3, b4>>) = ((b1 * Byte + b2) * Byte + b3) * Byte + b4  BY DEF Value
<1>3. /\ b1 \in Nat /\ b2 \in Nat /\ b3 \in Nat /\ b4 \in Nat
  BY ByteConsts DEF ByteValues
<1>4. ((b1 * Byte + b2) * Byte + b3) * Byte + b4 = (b1 * Byte + b2) * (Byte * Byte) + (b3 * Byte + b4)
  <2> DEFINE t == b1 * Byte + b2
  <2>1. t \in Nat  BY <1>3, ByteConsts
  <2> HIDE DEF t
  <2>2. (t * Byte + b3) * Byte = t * (Byte * Byte) + b3 * Byte  BY <2>1, <1>3, ByteConsts
  <2>3. t * (Byte * Byte) \in Nat /\ b3 * Byte \in Nat  BY <2>1, <1>3, ByteConsts
  <2> DEFINE tw == t * (Byte * Byte)  bb == b3 * Byte  tb == (t * Byte + b3) * Byte
  <2>4. tb = tw + bb /\ tw \in Nat /\ bb \in Nat  BY <2>2, <2>3
  <2> HIDE DEF tw, bb, tb
  <2>5. tb + b4 = tw + (bb + b4)  BY <2>4, <1>3
  <2> QED  BY <2>5 DEF tw, bb, tb, t
<1> QED  BY <1>1, <1>2, <1>4 DEF Pair, Word

(* A carry into the upper word. *)
Carried(x, y) == IF y + 1 = Byte THEN <<(x + 1) % Byte, 0>> ELSE <<x, y + 1>>

LEMMA CarriedIs ==
  ASSUME NEW x \in ByteValues, NEW y \in ByteValues
  PROVE  \E u, v \in ByteValues : \E k \in {0, 1} :
           Carried(x, y) = <<u, v>> /\ Pair(u, v) = Pair(x, y) + 1 - Word * k
<1>0. x \in Nat /\ y \in Nat /\ x < Byte /\ y < Byte /\ 0 \in ByteValues  BY ByteConsts DEF ByteValues
<1>1. CASE y + 1 # Byte
  <2>1. y + 1 \in ByteValues  BY <1>0, <1>1, ByteConsts DEF ByteValues
  <2>2. Pair(x, y + 1) = Pair(x, y) + 1 - Word * 0  BY <1>0, ByteConsts DEF Pair
  <2> QED  BY <1>1, <2>1, <2>2 DEF Carried
<1>2. CASE y + 1 = Byte
  <2>1. x * Byte \in Nat /\ (x + 1) * Byte = x * Byte + Byte /\ Byte * Byte = Word  BY <1>0, ByteConsts
  <2>2. CASE x + 1 = Byte
    <3>1. (x + 1) % Byte = 0  BY <2>2, ByteConsts, Quotient, Byte = Byte * 1 + 0
    <3>2. Pair(x, y) = x * Byte + y /\ Pair(0, 0) = 0  BY ByteConsts DEF Pair
    <3>3. Pair(0, 0) = Pair(x, y) + 1 - Word * 1
      <4> DEFINE xb == x * Byte
      <4>1. xb \in Nat /\ xb + Byte = Word /\ Pair(x, y) = xb + y  BY <2>1, <2>2, <3>2
      <4> HIDE DEF xb
      <4> QED  BY <4>1, <3>2, <1>0, <1>2, ByteConsts
    <3> QED  BY <1>0, <1>2, <3>1, <3>3 DEF Carried
  <2>3. CASE x + 1 # Byte
    <3>1. x + 1 \in 0..(Byte - 1) /\ x + 1 \in ByteValues  BY <1>0, <2>3, ByteConsts DEF ByteValues
    <3>2. (x + 1) % Byte = x + 1  BY <3>1, <1>0, ByteConsts, Within
    <3>3. Pair(x + 1, 0) = (x + 1) * Byte + 0 /\ Pair(x, y) = x * Byte + y  BY DEF Pair
    <3>4. Pair(x + 1, 0) = Pair(x, y) + 1 - Word * 0
      <4> DEFINE xb == x * Byte  xc == (x + 1) * Byte
      <4>1. xb \in Nat /\ xc = xb + Byte /\ Pair(x, y) = xb + y /\ Pair(x + 1, 0) = xc + 0  BY <2>1, <3>3
      <4> HIDE DEF xb, xc
      <4> QED  BY <4>1, <1>0, <1>2, ByteConsts
    <3> QED  BY <1>0, <1>2, <3>1, <3>2, <3>4 DEF Carried
  <2> QED  BY <2>2, <2>3
<1> QED  BY <1>1, <1>2

(* uip_add32, with its local macros. *)
Inc2(a) == IF a[2] + 1 = Byte THEN <<(a[1] + 1) % Byte, 0, a[3], a[4]>>
                              ELSE <<a[1], a[2] + 1, a[3], a[4]>>
Inc3(a) == IF a[3] + 1 = Byte THEN Inc2(<<a[1], a[2], 0, a[4]>>)
                              ELSE <<a[1], a[2], a[3] + 1, a[4]>>

LEMMA Inc2Is ==
  ASSUME NEW b1, NEW b2, NEW b3, NEW b4, NEW u, NEW v, Carried(b1, b2) = <<u, v>>
  PROVE  Inc2(<<b1, b2, b3, b4>>) = <<u, v, b3, b4>>
<1>1. CASE b2 + 1 = Byte
  <2>1. <<(b1 + 1) % Byte, 0>> = <<u, v>>  BY <1>1 DEF Carried
  <2>2. u = (b1 + 1) % Byte /\ v = 0  BY <2>1
  <2> QED  BY <1>1, <2>2 DEF Inc2
<1>2. CASE b2 + 1 # Byte
  <2>1. <<b1, b2 + 1>> = <<u, v>>  BY <1>2 DEF Carried
  <2>2. u = b1 /\ v = b2 + 1  BY <2>1
  <2> QED  BY <1>2, <2>2 DEF Inc2
<1> QED  BY <1>1, <1>2

LEMMA AddSteps ==
  ASSUME NEW b1, NEW b2, NEW b3, NEW b4, NEW n, NEW s3, NEW s4, NEW u, NEW v,
         s3 = (b3 + Hi(n)) % Byte, s4 = (b4 + Lo(n)) % Byte, Carried(b1, b2) = <<u, v>>
  PROVE  uip_add32(<<b1, b2, b3, b4>>, n) =
           IF s3 < Hi(n)
           THEN IF s4 < Lo(n) THEN Inc3(<<u, v, s3, s4>>) ELSE <<u, v, s3, s4>>
           ELSE IF s4 < Lo(n) THEN Inc3(<<b1, b2, s3, s4>>) ELSE <<b1, b2, s3, s4>>
<1> DEFINE a1 == <<b1, b2, s3, s4>>
           a2 == IF a1[3] < Hi(n) THEN Inc2(a1) ELSE a1
<1>1. uip_add32(<<b1, b2, b3, b4>>, n) = IF a1[4] < Lo(n) THEN Inc3(a2) ELSE a2
  BY Zenon DEF uip_add32, Inc2, Inc3
<1>2. a1[3] = s3 /\ a1[4] = s4  OBVIOUS
<1>3. Inc2(a1) = <<u, v, s3, s4>>  BY Inc2Is
<1> QED  BY <1>1, <1>2, <1>3, Zenon

(* The lower word of the sum, and whether there is a carry out of it.      *)
LEMMA LowerWord ==
  ASSUME NEW b1 \in ByteValues, NEW b2 \in ByteValues, NEW b3 \in ByteValues, NEW b4 \in ByteValues,
         NEW n \in 0..(Word - 1), NEW u \in ByteValues, NEW v \in ByteValues, Carried(b1, b2) = <<u, v>>
  PROVE  \E r3, r4 \in ByteValues :
           \/ /\ uip_add32(<<b1, b2, b3, b4>>, n) = <<b1, b2, r3, r4>>
              /\ Pair(r3, r4) = Pair(b3, b4) + n
           \/ /\ uip_add32(<<b1, b2, b3, b4>>, n) = <<u, v, r3, r4>>
              /\ Pair(r3, r4) = (Pair(b3, b4) + n) - Word
<1> DEFINE h == Hi(n)  l == Lo(n)  s3 == (b3 + h) % Byte  s4 == (b4 + l) % Byte
           sum == uip_add32(<<b1, b2, b3, b4>>, n)
<1>1. h \in ByteValues /\ l \in ByteValues /\ n = h * Byte + l  BY WordBytes
<1>2. s3 \in ByteValues /\ (IF s3 < h THEN s3 = b3 + h - Byte ELSE s3 = b3 + h)  BY <1>1, ByteSum
<1>3. s4 \in ByteValues /\ (IF s4 < l THEN s4 = b4 + l - Byte ELSE s4 = b4 + l)  BY <1>1, ByteSum
<1>4. sum = IF s3 < h
            THEN IF s4 < l THEN Inc3(<<u, v, s3, s4>>) ELSE <<u, v, s3, s4>>
            ELSE IF s4 < l THEN Inc3(<<b1, b2, s3, s4>>) ELSE <<b1, b2, s3, s4>>
  BY AddSteps
<1> HIDE DEF h, l, s3, s4, sum
<1>5. ASSUME NEW x, NEW y, s3 + 1 # Byte PROVE Inc3(<<x, y, s3, s4>>) = <<x, y, s3 + 1, s4>>
  BY <1>5 DEF Inc3
<1>6. ASSUME s3 + 1 = Byte PROVE Inc3(<<b1, b2, s3, s4>>) = <<u, v, 0, s4>>
  <2>1. Inc3(<<b1, b2, s3, s4>>) = Inc2(<<b1, b2, 0, s4>>)  BY <1>6 DEF Inc3
  <2> QED  BY <2>1, Inc2Is
<1>7. /\ b3 \in 0..(Byte-1) /\ b4 \in 0..(Byte-1) /\ h \in 0..(Byte-1) /\ l \in 0..(Byte-1)
      /\ s3 \in 0..(Byte-1) /\ s4 \in 0..(Byte-1)
  BY <1>1, <1>2, <1>3 DEF ByteValues
<1> DEFINE bb == b3 * Byte  hb == h * Byte
<1>8. /\ (b3 + h) * Byte = bb + hb /\ (b3 + h + 1) * Byte = bb + hb + Byte
      /\ (b3 + h - Byte) * Byte = (bb + hb) - Word /\ ((b3 + h - Byte) + 1) * Byte = ((bb + hb) + Byte) - Word
      /\ bb \in Nat /\ hb \in Nat
  <2>1. b3 \in Nat /\ h \in Nat /\ Byte \in Nat /\ Word = Byte * Byte  BY <1>7, ByteConsts
  <2>2. (b3 + h) * Byte = bb + hb /\ bb \in Nat /\ hb \in Nat  BY <2>1
  <2>3. (b3 + h + 1) * Byte = bb + hb + Byte  BY <2>1
  <2>4. (b3 + h - Byte) * Byte = (bb + hb) - Word  BY <2>1
  <2>5. ((b3 + h - Byte) + 1) * Byte = ((bb + hb) + Byte) - Word  BY <2>1
  <2> QED  BY <2>2, <2>3, <2>4, <2>5
<1>9. n = hb + l /\ Pair(b3, b4) = bb + b4  BY <1>1 DEF Pair
<1> HIDE DEF bb, hb
<1>10. CASE s3 < h /\ ~(s4 < l)
  <2>1. sum = <<u, v, s3, s4>>  BY <1>4, <1>10
  <2>2. s3 = b3 + h - Byte /\ s4 = b4 + l  BY <1>2, <1>3, <1>10
  <2>3. Pair(s3, s4) = ((bb + hb) - Word) + (b4 + l)  BY <1>8, <2>2 DEF Pair
  <2>4. Pair(s3, s4) = (Pair(b3, b4) + n) - Word  BY <1>7, <1>8, <1>9, <2>3, ByteConsts
  <2> QED  BY <1>2, <1>3, <2>1, <2>4 DEF sum
<1>11. CASE s3 < h /\ s4 < l
  <2>1. s3 = b3 + h - Byte /\ s4 = b4 + l - Byte  BY <1>2, <1>3, <1>11
  <2>2. s3 + 1 # Byte /\ s3 + 1 \in ByteValues  BY <1>7, <2>1, ByteConsts DEF ByteValues
  <2>3. sum = <<u, v, s3 + 1, s4>>  BY <1>4, <1>5, <1>11, <2>2
  <2>4. Pair(s3 + 1, s4) = (((bb + hb) + Byte) - Word) + (b4 + l - Byte)  BY <1>8, <2>1 DEF Pair
  <2>5. Pair(s3 + 1, s4) = (Pair(b3, b4) + n) - Word  BY <1>7, <1>8, <1>9, <2>4, ByteConsts
  <2> QED  BY <1>3, <2>2, <2>3, <2>5 DEF sum
<1>12. CASE ~(s3 < h) /\ ~(s4 < l)
  <2>1. sum = <<b1, b2, s3, s4>>  BY <1>4, <1>12
  <2>2. s3 = b3 + h /\ s4 = b4 + l  BY <1>2, <1>3, <1>12
  <2>3. Pair(s3, s4) = (bb + hb) + (b4 + l)  BY <1>8, <2>2 DEF Pair
  <2>4. Pair(s3, s4) = Pair(b3, b4) + n  BY <1>7, <1>8, <1>9, <2>3, ByteConsts
  <2> QED  BY <1>2, <1>3, <2>1, <2>4 DEF sum
<1>13. CASE ~(s3 < h) /\ s4 < l /\ s3 + 1 # Byte
  <2>1. s3 = b3 + h /\ s4 = b4 + l - Byte  BY <1>2, <1>3, <1>13
  <2>2. s3 + 1 \in ByteValues  BY <1>7, <1>13, ByteConsts DEF ByteValues
  <2>3. sum = <<b1, b2, s3 + 1, s4>>  BY <1>4, <1>5, <1>13
  <2>4. Pair(s3 + 1, s4) = ((bb + hb) + Byte) + (b4 + l - Byte)
    <3>1. (s3 + 1) * Byte = (bb + hb) + Byte  BY <1>7, <1>8, <2>1, ByteConsts
    <3> QED  BY <2>1, <3>1 DEF Pair
  <2>5. Pair(s3 + 1, s4) = Pair(b3, b4) + n  BY <1>7, <1>8, <1>9, <2>4, ByteConsts
  <2> QED  BY <1>3, <2>2, <2>3, <2>5 DEF sum
<1>14. CASE ~(s3 < h) /\ s4 < l /\ s3 + 1 = Byte
  <2>1. s3 = b3 + h /\ s4 = b4 + l - Byte  BY <1>2, <1>3, <1>14
  <2>2. 0 \in ByteValues  BY ByteConsts DEF ByteValues
  <2>3. sum = <<u, v, 0, s4>>  BY <1>4, <1>6, <1>14
  <2>4. bb + hb + Byte = Word
    <3>1. b3 + h + 1 = Byte  BY <1>7, <1>14, <2>1, ByteConsts
    <3> QED  BY <3>1, <1>8, ByteConsts
  <2>5. Pair(0, s4) = s4  BY <1>7, ByteConsts DEF Pair
  <2>6. Pair(0, s4) = (Pair(b3, b4) + n) - Word  BY <1>7, <1>8, <1>9, <2>1, <2>4, <2>5, ByteConsts
  <2> QED  BY <1>3, <2>2, <2>3, <2>6 DEF sum
<1> QED  BY <1>10, <1>11, <1>12, <1>13, <1>14

(* uip_add32 adds modulo 2^32. *)
LEMMA Adds ==
  ASSUME NEW b1 \in ByteValues, NEW b2 \in ByteValues, NEW b3 \in ByteValues, NEW b4 \in ByteValues,
         NEW n \in 0..(Word - 1)
  PROVE  /\ \E r1, r2, r3, r4 \in ByteValues : uip_add32(<<b1, b2, b3, b4>>, n) = <<r1, r2, r3, r4>>
         /\ Value(uip_add32(<<b1, b2, b3, b4>>, n)) = (Value(<<b1, b2, b3, b4>>) + n) % (Word * Word)
<1> DEFINE a == uip_add32(<<b1, b2, b3, b4>>, n)
           x == Pair(b1, b2)  y == Pair(b3, b4)
<1>1. PICK u, v \in ByteValues : \E k \in {0, 1} :
        Carried(b1, b2) = <<u, v>> /\ Pair(u, v) = Pair(b1, b2) + 1 - Word * k
  BY CarriedIs
<1>2. PICK k \in {0, 1} : Carried(b1, b2) = <<u, v>> /\ Pair(u, v) = Pair(b1, b2) + 1 - Word * k
  BY <1>1
<1>3. PICK r3, r4 \in ByteValues :
        \/ a = <<b1, b2, r3, r4>> /\ Pair(r3, r4) = Pair(b3, b4) + n
        \/ a = <<u, v, r3, r4>> /\ Pair(r3, r4) = (Pair(b3, b4) + n) - Word
  BY <1>2, LowerWord
<1> DEFINE V == Value(<<b1, b2, b3, b4>>)  W == Word * Word
<1>4. V = x * Word + y /\ x \in 0..(Word-1) /\ y \in 0..(Word-1)  BY ValueWords
<1>5. ASSUME NEW r1 \in ByteValues, NEW r2 \in ByteValues, NEW c \in {0, 1},
             a = <<r1, r2, r3, r4>>, Value(a) = (V + n) - W * c
      PROVE  Value(a) = (V + n) % W
  <2>1. Value(a) = Pair(r1, r2) * Word + Pair(r3, r4) /\ Pair(r1, r2) \in 0..(Word-1) /\ Pair(r3, r4) \in 0..(Word-1)
    BY <1>5, ValueWords
  <2>2. ASSUME NEW p \in 0..(Word-1), NEW q \in 0..(Word-1) PROVE p * Word + q \in 0..(W - 1)
    <3> DEFINE d == Word - 1 - p
    <3>1. d \in Nat /\ p = (Word - 1) - d  BY <2>2, ByteConsts
    <3> HIDE DEF d
    <3>2. ((Word - 1) - d) * Word = (Word * Word - Word) - (d * Word) /\ d * Word \in Nat  BY <3>1, ByteConsts
    <3>3. p * Word \in Nat  BY ByteConsts
    <3> DEFINE pw == p * Word  dw == d * Word
    <3>4. pw = (W - Word) - dw /\ pw \in Nat /\ dw \in Nat /\ W \in Nat  BY <3>1, <3>2, <3>3, ByteConsts
    <3> HIDE DEF pw, dw, W
    <3>5. pw + q \in 0..(W - 1)  BY <3>4, ByteConsts
    <3> QED  BY <3>5 DEF pw
  <2>3. Value(a) \in 0..(W - 1)  BY <2>1, <2>2
  <2>4. V \in 0..(W - 1)  BY <1>4, <2>2
  <2>5. W \in Nat /\ W > 0  BY ByteConsts
  <2>6. n \in Nat  BY ByteConsts
  <2> HIDE DEF V, W, a
  <2>7. V + n = W * c + Value(a) /\ W * c + Value(a) \in Nat  BY <1>5, <2>3, <2>4, <2>5, <2>6
  <2> DEFINE va == Value(a)
  <2>8. va \in 0..(W - 1) /\ V + n = W * c + va /\ W * c + va \in Nat  BY <2>3, <2>7
  <2>9. c \in Int  OBVIOUS
  <2> HIDE DEF va
  <2>10. (W * c + va) % W = va  BY <2>5, <2>8, <2>9, Quotient
  <2> QED  BY <2>8, <2>10 DEF va
<1>6. CASE a = <<b1, b2, r3, r4>> /\ Pair(r3, r4) = Pair(b3, b4) + n
  <2>1. Value(a) = x * Word + (y + n)  BY <1>6, ValueWords
  <2>2. Value(a) = (V + n) - W * 0
    <3> DEFINE xw == x * Word
    <3>1. xw \in Nat /\ W \in Nat /\ V = xw + y /\ Value(a) = xw + (y + n)  BY <1>4, <2>1, ByteConsts
    <3> HIDE DEF xw, V, W, a
    <3> QED  BY <3>1, <1>4, ByteConsts
  <2>3. Value(a) = (V + n) % W
    <3> HIDE DEF V, W, a
    <3> QED  BY <1>5, <1>6, <2>2
  <2> QED  BY <1>6, <2>3
<1>7. CASE a = <<u, v, r3, r4>> /\ Pair(r3, r4) = (Pair(b3, b4) + n) - Word
  <2>1. Value(a) = Pair(u, v) * Word + Pair(r3, r4)  BY <1>7, ValueWords
  <2>2. (x + 1 - Word * k) * Word = (x * Word + Word) - W * k /\ x * Word \in Nat /\ W * k \in Nat
    <3>1. x \in Nat /\ Word \in Nat  BY <1>4, ByteConsts
    <3>2. CASE k = 0  BY <3>1, <3>2
    <3>3. CASE k = 1  BY <3>1, <3>3
    <3> QED  BY <3>2, <3>3
  <2>3. Value(a) = (V + n) - W * k
    <3> DEFINE xw == x * Word  wk == W * k
    <3>1. Value(a) = ((xw + Word) - wk) + ((y + n) - Word)  BY <1>2, <1>7, <2>1, <2>2
    <3>2. xw \in Nat /\ wk \in Nat /\ V = xw + y  BY <1>4, <2>2
    <3> HIDE DEF xw, wk, V, a
    <3>3. Value(a) = (V + n) - wk  BY <3>1, <3>2, <1>4, ByteConsts
    <3> QED  BY <3>3 DEF wk
  <2>4. Value(a) = (V + n) % W
    <3> HIDE DEF V, W, a
    <3> QED  BY <1>5, <1>7, <2>3
  <2> QED  BY <1>7, <2>4
<1> QED  BY <1>3, <1>6, <1>7

ArithInv ==
  /\ \E b1, b2, b3, b4 \in ByteValues : sndseq = <<b1, b2, b3, b4>>
  /\ Value(sndseq) = total

LEMMA ArithInitial == ArithInit => ArithInv
<1> SUFFICES ASSUME ArithInit PROVE ArithInv
  OBVIOUS
<1>1. 0 \in ByteValues  BY ByteConsts DEF ByteValues
<1>2. sndseq = <<0, 0, 0, 0>> /\ total = 0  BY DEF ArithInit
<1>3. Value(<<0, 0, 0, 0>>) = 0
  <2>1. Value(<<0, 0, 0, 0>>) = ((0 * Byte + 0) * Byte + 0) * Byte + 0  BY DEF Value
  <2> QED  BY <2>1, ByteConsts
<1> QED  BY <1>1, <1>2, <1>3 DEF ArithInv

LEMMA AddsStep == ArithInv /\ [ArithNext]_arithVars => ArithInv'
<1> SUFFICES ASSUME ArithInv, [ArithNext]_arithVars PROVE ArithInv'
  OBVIOUS
<1>1. CASE UNCHANGED <<sndseq, total>>  BY <1>1 DEF ArithInv, Value
<1>2. CASE uip_fw_ttl \/ icmp_input  BY <1>1, <1>2 DEF uip_fw_ttl, icmp_input
<1>3. ASSUME NEW n \in 1..FullSegment, SendBytes(n) PROVE ArithInv'
  <2>1. n \in 0..(Word - 1)  BY ByteConsts
  <2>2. PICK b1, b2, b3, b4 \in ByteValues : sndseq = <<b1, b2, b3, b4>>  BY DEF ArithInv
  <2>3. sndseq' = uip_add32(sndseq, n) /\ total' = (total + n) % (Word * Word)  BY <1>3 DEF SendBytes
  <2>4. Value(sndseq') = (Value(sndseq) + n) % (Word * Word)  BY <2>1, <2>2, <2>3, Adds
  <2>5. \E r1, r2, r3, r4 \in ByteValues : sndseq' = <<r1, r2, r3, r4>>  BY <2>1, <2>2, <2>3, Adds
  <2> QED  BY <2>3, <2>4, <2>5 DEF ArithInv, Value
<1>4. CASE UNCHANGED arithVars  BY <1>1, <1>4 DEF arithVars
<1> QED  BY <1>2, <1>3, <1>4 DEF ArithNext

(* Across every carry and through 0, uip_add32 adds modulo 2^32: the       *)
(* sequence number is what has been added to it.                           *)
THEOREM AddsModuloHolds == ArithSpec => []AddsModulo
<1>1. ArithInit => ArithInv  BY ArithInitial
<1>2. ArithInv /\ [ArithNext]_arithVars => ArithInv'  BY AddsStep
<1>3. ArithInv => AddsModulo  BY DEF ArithInv, AddsModulo
<1> QED  BY <1>1, <1>2, <1>3, PTL DEF ArithSpec

(* Where the segments of uip_split_output lie.                             *)
Joined(segments, after) ==
  /\ segments[1].seq = sndseq
  /\ \A i \in 2..Len(segments) :
       segments[i].seq = uip_add32(segments[i - 1].seq, segments[i - 1].len)
  /\ Value(after) =
       (Value(segments[Len(segments)].seq) + segments[Len(segments)].len) % (Word * Word)

(* A remainder may be taken before adding, too. *)
LEMMA AddTwice ==
  ASSUME NEW M \in Nat, M > 0, NEW x \in Nat, NEW y \in Nat, NEW z \in Nat
  PROVE  (((x + y) % M) + z) % M = (x + (y + z)) % M
<1> DEFINE s == x + y  q == s \div M  r == s % M  t == r + z  p == t \div M  e == t % M
<1>1. s \in Nat /\ s + z = x + (y + z)  OBVIOUS
<1>2. q \in Nat /\ r \in 0..(M-1) /\ s = M * q + r  BY <1>1, Divided
<1>3. t = r + z /\ t \in Nat  BY <1>2
<1>4. p \in Nat /\ e \in 0..(M-1) /\ t = M * p + e  BY <1>3, Divided
<1> HIDE DEF s, q, r, t, p, e
<1>5. M * q + M * p = M * (q + p) /\ q + p \in Int  BY <1>2, <1>4
<1> DEFINE w == x + (y + z)  m == q + p
<1>6. w = M * m + e /\ m \in Int /\ w \in Nat
  <2> DEFINE mq == M * q  mp == M * p  mm == M * m
  <2>1. mq + mp = mm /\ s = mq + r /\ t = mp + e /\ w = s + z /\ mq \in Int /\ mp \in Int
    BY <1>1, <1>2, <1>4, <1>5
  <2>2. w \in Nat /\ m \in Int  BY <1>5
  <2> HIDE DEF mq, mp, mm, w, m
  <2>3. w = mm + e  BY <2>1, <1>1, <1>2, <1>3, <1>4
  <2> QED  BY <2>2, <2>3 DEF mm
<1> HIDE DEF w, m
<1>7. w % M = e  BY <1>4, <1>6, Quotient
<1> QED  BY <1>7 DEF w, e, t, r, s

LEMMA SplitJoins ==
  ASSUME ArithInv, NEW n \in 1..FullSegment
  PROVE  Joined(uip_split_output(n), uip_add32(sndseq, n))
<1>1. n \in 0..(Word - 1) /\ n \in Nat  BY ByteConsts
<1>2. PICK b1, b2, b3, b4 \in ByteValues : sndseq = <<b1, b2, b3, b4>>  BY DEF ArithInv
<1>3. ASSUME NEW k \in 0..(Word - 1) PROVE Value(uip_add32(sndseq, k)) = (Value(sndseq) + k) % (Word * Word)
  BY <1>2, Adds
<1> DEFINE len1 == n \div 2  len2 == n - len1  V == Value(sndseq)
           first == [seq |-> sndseq, len |-> len1]
           rest  == [seq |-> uip_add32(sndseq, len1), len |-> len2]
           single == [seq |-> sndseq, len |-> n]
<1>4. len1 \in Nat /\ len1 <= n /\ len2 \in Nat /\ len1 + len2 = n  BY <1>1
<1> HIDE DEF len1, len2
<1>5. CASE n = FullSegment
  <2>1. uip_split_output(n) = <<first, rest>>  BY <1>5 DEF uip_split_output, len1, len2
  <2>2. Len(<<first, rest>>) = 2 /\ <<first, rest>>[1] = first /\ <<first, rest>>[2] = rest  OBVIOUS
  <2>3. V \in Nat
    <3>1. V = Pair(b1, b2) * Word + Pair(b3, b4) /\ Pair(b1, b2) \in 0..(Word - 1) /\ Pair(b3, b4) \in 0..(Word - 1)
      BY <1>2, ValueWords
    <3> QED  BY <3>1, ByteConsts
  <2>4. len1 \in 0..(Word - 1)  BY <1>1, <1>4, ByteConsts
  <2>5. Value(rest.seq) = (V + len1) % (Word * Word)  BY <1>3, <2>4
  <2>6. Value(uip_add32(sndseq, n)) = (V + n) % (Word * Word)  BY <1>1, <1>3
  <2> HIDE DEF V
  <2>7. (((V + len1) % (Word * Word)) + len2) % (Word * Word) = (V + (len1 + len2)) % (Word * Word)
    <3> DEFINE M == Word * Word
    <3>1. M \in Nat /\ M > 0  BY ByteConsts
    <3> HIDE DEF M
    <3>2. \A x, y, z \in Nat : (((x + y) % M) + z) % M = (x + (y + z)) % M  BY <3>1, AddTwice
    <3>3. (((V + len1) % M) + len2) % M = (V + (len1 + len2)) % M  BY <1>4, <2>3, <3>2, Zenon
    <3> QED  BY <3>3 DEF M
  <2>8. Value(uip_add32(sndseq, n)) = (Value(rest.seq) + rest.len) % (Word * Word)
    <3>1. rest.len = len2 /\ V + n = V + (len1 + len2)  BY <1>4
    <3> QED  BY <3>1, <2>5, <2>6, <2>7
  <2>9. first.seq = sndseq /\ rest.seq = uip_add32(first.seq, first.len)  OBVIOUS
  <2> HIDE DEF first, rest
  <2>10. \A i \in 2..2 : i = 2 /\ i - 1 = 1  OBVIOUS
  <2> DEFINE segments == <<first, rest>>
  <2>11. Len(segments) = 2 /\ segments[1] = first /\ segments[2] = rest  BY <2>2
  <2> HIDE DEF segments
  <2>12. Joined(segments, uip_add32(sndseq, n))  BY <2>8, <2>9, <2>10, <2>11 DEF Joined
  <2> QED  BY <2>1, <2>12 DEF segments
<1>6. CASE n # FullSegment
  <2>1. uip_split_output(n) = <<single>>  BY <1>6 DEF uip_split_output
  <2>2. single.seq = sndseq /\ single.len = n  OBVIOUS
  <2> HIDE DEF single
  <2> DEFINE segments == <<single>>
  <2>3. Len(segments) = 1 /\ segments[1] = single  OBVIOUS
  <2> HIDE DEF segments
  <2>4. \A i \in 2..1 : FALSE  OBVIOUS
  <2>5. Joined(segments, uip_add32(sndseq, n))  BY <1>1, <1>3, <2>2, <2>3, <2>4 DEF Joined
  <2> QED  BY <2>1, <2>5 DEF segments
<1> QED  BY <1>5, <1>6

(* A segment that is split is the same bytes in the same places, whatever  *)
(* its sequence number (uip_split_output).                                 *)
THEOREM SplitFitsHolds == ArithSpec => SplitFits
<1>1. ArithInit => ArithInv  BY ArithInitial
<1>2. ArithInv /\ [ArithNext]_arithVars => ArithInv'  BY AddsStep
<1>3. ArithInv /\ [ArithNext]_arithVars => [out' # out => Joined(out', sndseq')]_arithVars
  <2> SUFFICES ASSUME ArithInv, ArithNext, out' # out PROVE Joined(out', sndseq')
    OBVIOUS
  <2>1. PICK n \in 1..FullSegment : SendBytes(n)  BY DEF ArithNext, uip_fw_ttl, icmp_input
  <2> QED  BY <2>1, SplitJoins DEF SendBytes
<1>4. SplitFits <=> [][out' # out => Joined(out', sndseq')]_arithVars  BY DEF SplitFits, Joined
<1> QED  BY <1>1, <1>2, <1>3, <1>4, PTL DEF ArithSpec

(* The one's complement sum of words: modulo All, which is all ones and    *)
(* stands for 0 as well.                                                   *)
All == Word - 1

Alike(x, y) == \E k \in Int : x = y + All * k

LEMMA AllConsts == All \in Nat /\ All > 0 /\ Word = All + 1 /\ Byte * Byte = All + 1
<1>1. Byte * Byte > 1
  <2> DEFINE d == Byte - 2
  <2>1. d \in Nat /\ Byte = 2 + d  BY ByteConsts
  <2> HIDE DEF d
  <2>2. Byte * Byte = 4 + 4 * d + d * d /\ d * d \in Nat  BY <2>1
  <2> DEFINE bb == Byte * Byte  dd == d * d
  <2>3. bb = 4 + 4 * d + dd /\ dd \in Nat  BY <2>2
  <2> HIDE DEF bb, dd
  <2>4. bb > 1  BY <2>1, <2>3
  <2> QED  BY <2>4 DEF bb
<1> DEFINE w == Byte * Byte
<1>2. Word = w /\ w > 1 /\ w \in Nat  BY <1>1, ByteConsts
<1> HIDE DEF w
<1> QED  BY <1>2 DEF All, w

LEMMA AlikeRefl == ASSUME NEW x \in Int PROVE Alike(x, x)
<1>1. x = x + All * 0 /\ 0 \in Int  BY AllConsts
<1> QED  BY <1>1 DEF Alike

LEMMA AlikeTrans ==
  ASSUME NEW x \in Int, NEW y \in Int, NEW z \in Int, Alike(x, y), Alike(y, z) PROVE Alike(x, z)
<1>1. PICK k \in Int : x = y + All * k  BY DEF Alike
<1>2. PICK j \in Int : y = z + All * j  BY DEF Alike
<1>3. All * j + All * k = All * (j + k) /\ All * j \in Int /\ All * k \in Int  BY AllConsts
<1> DEFINE a == All * j  b == All * k  c == All * (j + k)
<1>4. x = y + b /\ y = z + a /\ a + b = c /\ a \in Int /\ b \in Int  BY <1>1, <1>2, <1>3
<1> HIDE DEF a, b, c
<1>5. x = z + c  BY <1>4
<1> QED  BY <1>5 DEF c, Alike

LEMMA AlikeSum ==
  ASSUME NEW x \in Int, NEW y \in Int, NEW u \in Int, NEW v \in Int, Alike(x, y), Alike(u, v)
  PROVE  Alike(x + u, y + v)
<1>1. PICK k \in Int : x = y + All * k  BY DEF Alike
<1>2. PICK j \in Int : u = v + All * j  BY DEF Alike
<1>3. All * k + All * j = All * (k + j) /\ All * j \in Int /\ All * k \in Int  BY AllConsts
<1> DEFINE a == All * j  b == All * k  c == All * (k + j)
<1>4. x = y + b /\ u = v + a /\ b + a = c /\ a \in Int /\ b \in Int  BY <1>1, <1>2, <1>3
<1> HIDE DEF a, b, c
<1>5. x + u = (y + v) + c  BY <1>4
<1> QED  BY <1>5 DEF c, Alike

LEMMA AlikeTimes ==
  ASSUME NEW x \in Int, NEW y \in Int, NEW b \in Int, Alike(x, y)
  PROVE  Alike(b * x, b * y)
<1>1. PICK k \in Int : x = y + All * k  BY DEF Alike
<1>2. b * (All * k) = All * (b * k) /\ b * k \in Int  BY AllConsts
<1>3. b * x = b * y + b * (All * k)  BY <1>1, AllConsts
<1>4. b * x = b * y + All * (b * k)  BY <1>2, <1>3
<1> QED  BY <1>2, <1>4 DEF Alike

LEMMA AlikeSym == ASSUME NEW x \in Int, NEW y \in Int, Alike(x, y) PROVE Alike(y, x)
<1>1. PICK k \in Int : x = y + All * k  BY DEF Alike
<1>2. All * (-k) = -(All * k) /\ All * k \in Int  BY AllConsts
<1> DEFINE a == All * k  b == All * (-k)
<1>3. x = y + a /\ b = -a /\ a \in Int  BY <1>1, <1>2
<1> HIDE DEF a, b
<1>4. y = x + b  BY <1>3
<1> QED  BY <1>4 DEF b, Alike

(* What is 0 modulo All, and no more than that. *)
LEMMA ZeroOrAll ==
  ASSUME NEW c \in 0..All, Alike(c, 0) PROVE c = 0 \/ c = All
<1>1. PICK k \in Int : c = All * k  BY AllConsts DEF Alike
<1>2. CASE k < 0
  <2> DEFINE d == (-k) - 1
  <2>1. d \in Nat /\ k = -(d + 1)  BY <1>2
  <2> HIDE DEF d
  <2>2. All * k = -(All * d) - All /\ All * d \in Nat  BY <2>1, AllConsts
  <2> DEFINE ad == All * d  ak == All * k
  <2>3. ak = -ad - All /\ ad \in Nat /\ c = ak  BY <1>1, <2>2
  <2> HIDE DEF ad, ak
  <2> QED  BY <2>3, AllConsts
<1>3. CASE k = 0  BY <1>1, <1>3, AllConsts
<1>4. CASE k = 1  BY <1>1, <1>4, AllConsts
<1>5. CASE k > 1
  <2> DEFINE d == k - 2
  <2>1. d \in Nat /\ k = d + 2  BY <1>5
  <2> HIDE DEF d
  <2>2. All * k = All * d + 2 * All /\ All * d \in Nat  BY <2>1, AllConsts
  <2> DEFINE ad == All * d  ak == All * k
  <2>3. ak = ad + 2 * All /\ ad \in Nat /\ c = ak  BY <1>1, <2>2
  <2> HIDE DEF ad, ak
  <2> QED  BY <2>3, AllConsts
<1> QED  BY <1>2, <1>3, <1>4, <1>5

LEMMA CarryIs ==
  ASSUME NEW s \in 0..All, NEW w \in 0..All
  PROVE  /\ WithCarry(s, w) \in 0..All /\ Alike(WithCarry(s, w), s + w)
         /\ WithCarry(s, w) = 0 <=> (s = 0 /\ w = 0)
<1> DEFINE x == s + w  c == WithCarry(s, w)
<1>1. x = s + w /\ x \in 0..(2 * Word - 1)  BY AllConsts
<1> HIDE DEF x
<1>2. x % Word = IF x < Word THEN x ELSE x - Word  BY <1>1, ByteConsts, Within
<1>3. c = IF x % Word < w THEN (x % Word) + 1 ELSE x % Word  BY DEF WithCarry, x
<1> HIDE DEF c
<1>4. c = (IF x < Word THEN x ELSE x - All)  BY <1>1, <1>2, <1>3, AllConsts
<1>5. c \in 0..All /\ (c = 0 <=> (s = 0 /\ w = 0))  BY <1>1, <1>4, AllConsts
<1>6. Alike(c, x)
  <2>1. CASE x < Word
    <3>1. c = x + All * 0  BY <2>1, <1>1, <1>4, AllConsts
    <3> QED  BY <3>1 DEF Alike
  <2>2. CASE ~(x < Word)
    <3>1. c = x + All * (-1)  BY <2>2, <1>1, <1>4, AllConsts
    <3> QED  BY <3>1 DEF Alike
  <2> QED  BY <2>1, <2>2
<1> QED  BY <1>1, <1>5, <1>6 DEF c

LEMMA SumIs ==
  ASSUME NEW a \in 0..All, NEW b \in 0..All, NEW d \in 0..All
  PROVE  /\ chksum(a, b, d) \in 0..All /\ Alike(chksum(a, b, d), a + (b + d))
         /\ chksum(a, b, d) = 0 <=> (a = 0 /\ b = 0 /\ d = 0)
<1> DEFINE p == WithCarry(0, a)  q == WithCarry(p, b)  r == WithCarry(q, d)
<1>1. p \in 0..All /\ Alike(p, 0 + a) /\ (p = 0 <=> (0 = 0 /\ a = 0))
  <2>1. 0 \in 0..All  BY AllConsts
  <2> QED  BY <2>1, CarryIs
<1> HIDE DEF p
<1>2. q \in 0..All /\ Alike(q, p + b) /\ (q = 0 <=> (p = 0 /\ b = 0))  BY <1>1, CarryIs
<1> HIDE DEF q
<1>3. r \in 0..All /\ Alike(r, q + d) /\ (r = 0 <=> (q = 0 /\ d = 0))  BY <1>2, CarryIs
<1> HIDE DEF r
<1>4. a \in Int /\ b \in Int /\ d \in Int /\ p \in Int /\ q \in Int /\ r \in Int /\ 0 + a = a
  BY <1>1, <1>2, <1>3, AllConsts
<1>5. Alike(p + b, a + b)  BY <1>1, <1>4, AlikeRefl, AlikeSum
<1>6. Alike(q, a + b)
  <2>1. p + b \in Int /\ a + b \in Int  BY <1>4
  <2> QED  BY <2>1, <1>2, <1>4, <1>5, AlikeTrans
<1>7. Alike(q + d, (a + b) + d)
  <2>1. a + b \in Int  BY <1>4
  <2> QED  BY <2>1, <1>4, <1>6, AlikeRefl, AlikeSum
<1>8. Alike(r, (a + b) + d)
  <2>1. q + d \in Int /\ (a + b) + d \in Int  BY <1>4
  <2> QED  BY <2>1, <1>3, <1>4, <1>7, AlikeTrans
<1>9. (a + b) + d = a + (b + d)  BY <1>4
<1>10. r = chksum(a, b, d)  BY DEF chksum, r, q, p
<1> QED  BY <1>1, <1>2, <1>3, <1>8, <1>9, <1>10

(* A sum that is 0 modulo All is accepted.                                 *)
LEMMA Accepted ==
  ASSUME NEW a \in 0..All, NEW b \in 0..All, NEW d \in 0..All, Alike(a + (b + d), 0)
  PROVE  chksum(a, b, d) = 0 \/ chksum(a, b, d) = All
<1> DEFINE c == chksum(a, b, d)
<1>1. c \in 0..All /\ Alike(c, a + (b + d))  BY SumIs
<1> HIDE DEF c
<1>2. c \in Int /\ a + (b + d) \in Int  BY <1>1, AllConsts
<1>3. Alike(c, 0)  BY <1>1, <1>2, AlikeTrans
<1> QED  BY <1>1, <1>3, ZeroOrAll DEF c

LEMMA PairRange ==
  ASSUME NEW x \in ByteValues, NEW y \in ByteValues PROVE Pair(x, y) \in 0..All
<1>1. Pair(x, y) \in 0..(Word - 1)  BY ValueWords
<1> QED  BY <1>1 DEF All

(* A word has one high byte and one low one. *)
LEMMA PairParts ==
  ASSUME NEW x \in ByteValues, NEW y \in ByteValues
  PROVE  Hi(Pair(x, y)) = x /\ Lo(Pair(x, y)) = y
<1> DEFINE n == Pair(x, y)  h == Hi(n)  l == Lo(n)
<1>1. n \in 0..(Word - 1)  BY ValueWords
<1>2. h \in ByteValues /\ l \in ByteValues /\ n = h * Byte + l  BY <1>1, WordBytes
<1>3. n = x * Byte + y  BY DEF Pair
<1>4. x \in 0..(Byte-1) /\ y \in 0..(Byte-1)  BY DEF ByteValues
<1>5. l = y
  <2>1. n = Byte * x + y /\ n \in Nat /\ x \in Int  BY <1>1, <1>3, <1>4, ByteConsts
  <2> HIDE DEF n
  <2>2. n % Byte = y  BY <2>1, <1>4, ByteConsts, Quotient
  <2> QED  BY <2>2 DEF Lo
<1> HIDE DEF n, h, l
<1>6. h \in 0..(Byte-1)  BY <1>2 DEF ByteValues
<1>7. (h - x) * Byte = h * Byte - x * Byte  BY <1>4, <1>6, ByteConsts
<1>8. h * Byte = x * Byte
  <2> DEFINE hb == h * Byte  xb == x * Byte
  <2>1. hb \in Int /\ xb \in Int /\ n = hb + l /\ n = xb + y /\ l \in Int  BY <1>2, <1>3, <1>4, <1>5, <1>6, ByteConsts
  <2> HIDE DEF hb, xb
  <2>2. hb = xb  BY <2>1, <1>5
  <2> QED  BY <2>2 DEF hb, xb
<1>9. h = x
  <2>1. (h - x) * Byte = 0  BY <1>7, <1>8, <1>4, ByteConsts
  <2> DEFINE e == h - x
  <2>2. e \in Int /\ e * Byte = 0  BY <2>1, <1>4, <1>6, ByteConsts
  <2> HIDE DEF e
  <2>3. e = 0  BY <2>2, ByteConsts
  <2> QED  BY <2>3, <1>4, <1>6, ByteConsts DEF e
<1> QED  BY <1>5, <1>9 DEF h, l, n

(* The bytes of a word are swapped by multiplying it with a byte, modulo All. *)
LEMMA SwappedIs ==
  ASSUME NEW w \in 0..All
  PROVE  Swapped(w) \in 0..All /\ Alike(Swapped(w), Byte * w) /\ Swapped(All - w) = All - Swapped(w)
<1> DEFINE h == Hi(w)  l == Lo(w)
<1>1. h \in ByteValues /\ l \in ByteValues /\ w = h * Byte + l  BY WordBytes DEF All
<1>2. Swapped(w) = Pair(l, h)  BY DEF Swapped, Pair
<1>3. Pair(l, h) \in 0..All  BY <1>1, PairRange
<1> HIDE DEF h, l
<1>4. h \in 0..(Byte-1) /\ l \in 0..(Byte-1) /\ h \in Int /\ l \in Int  BY <1>1, ByteConsts DEF ByteValues
<1>5. Alike(Pair(l, h), Byte * w)
  <2>1. Byte * w = h * (Byte * Byte) + Byte * l  BY <1>1, <1>4, ByteConsts
  <2>2. h * (All + 1) = h * All + h /\ h * All \in Int  BY <1>4, AllConsts
  <2>3. h * All = -(All * (-h)) /\ All * (-h) \in Int  BY <1>4, AllConsts
  <2>4. Byte * l = l * Byte /\ l * Byte \in Int  BY <1>4, ByteConsts
  <2> DEFINE bw == Byte * w  lb == l * Byte  ha == h * All  nh == All * (-h)
  <2>5. bw = (ha + h) + lb /\ ha = -nh /\ nh \in Int /\ lb \in Int  BY <2>1, <2>2, <2>3, <2>4, AllConsts
  <2>6. Pair(l, h) = lb + h  BY DEF Pair
  <2> HIDE DEF bw, lb, ha, nh
  <2>7. Pair(l, h) = bw + nh  BY <2>5, <2>6, <1>4
  <2>8. -h \in Int  BY <1>4
  <2> QED  BY <2>7, <2>8 DEF Alike, bw, nh
<1>6. Swapped(All - w) = All - Pair(l, h)
  <2> DEFINE g == (Byte - 1) - h  k == (Byte - 1) - l
  <2>1. g \in ByteValues /\ k \in ByteValues /\ g \in Int /\ k \in Int  BY <1>4, ByteConsts DEF ByteValues
  <2>2. g * Byte = (Byte * Byte - Byte) - h * Byte /\ k * Byte = (Byte * Byte - Byte) - l * Byte
    BY <1>4, ByteConsts
  <2>3. g = (Byte - 1) - h /\ k = (Byte - 1) - l  OBVIOUS
  <2> HIDE DEF g, k
  <2> DEFINE gb == g * Byte  kb == k * Byte  hb == h * Byte  lb == l * Byte
  <2>4. gb = ((All + 1) - Byte) - hb /\ kb = ((All + 1) - Byte) - lb /\ hb \in Int /\ lb \in Int
        /\ w = hb + l
    BY <2>2, <1>1, <1>4, AllConsts, ByteConsts
  <2>5. Pair(g, k) = gb + k /\ Pair(k, g) = kb + g /\ Pair(l, h) = lb + h  BY DEF Pair
  <2> HIDE DEF gb, kb, hb, lb
  <2>6. Pair(g, k) = All - w /\ Pair(k, g) = All - Pair(l, h)
    BY <2>1, <2>3, <2>4, <2>5, <1>4, AllConsts, ByteConsts
  <2>7. Hi(All - w) = g /\ Lo(All - w) = k
    <3>1. Hi(Pair(g, k)) = g /\ Lo(Pair(g, k)) = k  BY <2>1, PairParts
    <3> QED  BY <2>6, <3>1
  <2> QED  BY <2>6, <2>7 DEF Swapped, Pair
<1> QED  BY <1>2, <1>3, <1>5, <1>6

(* HTONS multiplies by this. *)
SwapFactor == IF LittleEndian THEN Byte ELSE 1

LEMMA HtonsIs ==
  ASSUME NEW w \in 0..All
  PROVE  HTONS(w) \in 0..All /\ Alike(HTONS(w), SwapFactor * w) /\ HTONS(All - w) = All - HTONS(w)
<1>1. CASE LittleEndian  BY <1>1, SwappedIs DEF HTONS, SwapFactor
<1>2. CASE ~LittleEndian
  <2>1. HTONS(w) = w /\ HTONS(All - w) = All - w /\ SwapFactor * w = w  BY <1>2, AllConsts DEF HTONS, SwapFactor
  <2>2. w \in Int  BY AllConsts
  <2> QED  BY <2>1, <2>2, AlikeRefl
<1> QED  BY <1>1, <1>2

LEMMA SwappedTwice == SwapFactor \in Int /\ Alike(SwapFactor * SwapFactor, 1)
<1>1. CASE LittleEndian
  <2>1. Byte * Byte = 1 + All * 1  BY AllConsts
  <2>2. Alike(Byte * Byte, 1)  BY <2>1 DEF Alike
  <2> QED  BY <1>1, <2>2, ByteConsts DEF SwapFactor
<1>2. CASE ~LittleEndian
  <2>1. SwapFactor = 1 /\ 1 * 1 = 1  BY <1>2 DEF SwapFactor
  <2> QED  BY <2>1, AlikeRefl
<1> QED  BY <1>1, <1>2

(* The correction adds the word, modulo All.                               *)
LEMMA CorrectedIs ==
  ASSUME NEW s \in 0..All, NEW w \in 0..All
  PROVE  Corrected(s, w) \in 0..All /\ Alike(Corrected(s, w), s + w)
<1> DEFINE a == HTONS(s)  b == HTONS(w)
           x == IF a >= HTONS((Word - 1) - w) THEN (a + b) + 1 ELSE a + b
           r == x % Word  c == HTONS(r)
<1>1. a \in 0..All /\ Alike(a, SwapFactor * s)  BY HtonsIs
<1>2. b \in 0..All /\ Alike(b, SwapFactor * w) /\ HTONS((Word - 1) - w) = All - b  BY HtonsIs DEF All
<1>3. Corrected(s, w) = c
  <2>1. Word - 1 - w = (Word - 1) - w  BY AllConsts
  <2>2. a + b + 1 = (a + b) + 1
    <3> HIDE DEF a, b
    <3> QED  BY <1>1, <1>2, AllConsts
  <2> QED  BY <2>1, <2>2 DEF Corrected
<1>4. x = IF a >= All - b THEN (a + b) + 1 ELSE a + b  BY <1>2
<1> HIDE DEF a, b, x
<1>5. x \in 0..(2 * Word - 1)  BY <1>1, <1>2, <1>4, AllConsts
<1>6. r = IF x < Word THEN x ELSE x - Word  BY <1>5, ByteConsts, Within
<1> HIDE DEF r
<1>7. r \in 0..All /\ (r = a + b \/ r = (a + b) - All)  BY <1>1, <1>2, <1>4, <1>5, <1>6, AllConsts
<1>8. Alike(r, a + b)
  <2>1. CASE r = a + b
    <3>1. a + b \in Int  BY <1>1, <1>2, AllConsts
    <3> QED  BY <2>1, <3>1, AlikeRefl
  <2>2. CASE r = (a + b) - All
    <3>1. r = (a + b) + All * (-1)  BY <2>2, <1>1, <1>2, AllConsts
    <3> QED  BY <3>1 DEF Alike
  <2> QED  BY <1>7, <2>1, <2>2
<1>9. c \in 0..All /\ Alike(c, SwapFactor * r)  BY <1>7, HtonsIs
<1> HIDE DEF c
<1> DEFINE t == SwapFactor  ts == t * s  tw == t * w  sum == s + w
<1>10. t \in Int /\ s \in Int /\ w \in Int /\ a \in Int /\ b \in Int /\ r \in Int /\ c \in Int /\ sum \in Int
       /\ ts \in Int /\ tw \in Int
  BY <1>1, <1>2, <1>7, <1>9, AllConsts, SwappedTwice
<1>11. ts + tw = t * sum /\ t * sum \in Int /\ t * (t * sum) = sum * (t * t) /\ t * t \in Int
       /\ sum * (t * t) \in Int /\ sum * 1 = sum /\ t * r \in Int
  <2> HIDE DEF t
  <2> QED  BY <1>10
<1>12. Alike(a, ts) /\ Alike(b, tw) /\ Alike(c, t * r) /\ Alike(t * t, 1)  BY <1>1, <1>2, <1>9, SwappedTwice
<1> HIDE DEF t, ts, tw, sum
<1>13. Alike(a + b, ts + tw)  BY <1>10, <1>12, AlikeSum
<1>14. a + b \in Int /\ ts + tw \in Int  BY <1>10
<1>15. Alike(r, ts + tw)  BY <1>8, <1>10, <1>13, <1>14, AlikeTrans
<1>16. Alike(t * r, t * (t * sum))  BY <1>10, <1>11, <1>14, <1>15, AlikeTimes
<1>17. Alike(sum * (t * t), sum * 1)
  <2> DEFINE u == t * t
  <2>1. u \in Int /\ 1 \in Int /\ Alike(u, 1)  BY <1>11, <1>12
  <2> HIDE DEF u
  <2>2. Alike(sum * u, sum * 1)  BY <2>1, <1>10, AlikeTimes
  <2> QED  BY <2>2 DEF u
<1>18. Alike(t * r, sum)
  <2>1. Alike(t * r, sum * (t * t)) /\ Alike(sum * (t * t), sum)  BY <1>11, <1>16, <1>17
  <2> QED  BY <2>1, <1>10, <1>11, AlikeTrans
<1>19. Alike(c, sum)  BY <1>10, <1>11, <1>12, <1>18, AlikeTrans
<1> QED  BY <1>3, <1>9, <1>19 DEF sum

(* The three words of a packet, the sum of which is 0 modulo All.          *)
SumsUp(first, second, rest, sum) ==
  /\ first \in ByteValues /\ second \in ByteValues /\ rest \in 0..All /\ sum \in 0..All
  /\ Alike(Pair(first, second) + (rest + sum), 0)

PacketOK ==
  /\ packet = [kind |-> packet.kind, first |-> packet.first, second |-> packet.second,
               rest |-> packet.rest, sum |-> packet.sum]
  /\ SumsUp(packet.first, packet.second, packet.rest, packet.sum)

LEMMA PacketMade == ArithInit => PacketOK
<1> SUFFICES ASSUME ArithInit PROVE PacketOK
  OBVIOUS
<1>1. PICK kind \in {"ip", "icmp"}, first \in ByteValues, second \in ByteValues, rest \in 0..(Word - 1) :
        packet = [kind |-> kind, first |-> first, second |-> second, rest |-> rest,
                  sum |-> Complement(chksum(Byte * first + second, rest, 0))]
  BY DEF ArithInit, Packets
<1> DEFINE w == Pair(first, second)  c == chksum(w, rest, 0)  sum == All - c
<1>2. Byte * first + second = w
  <2>1. first \in Int /\ second \in Int  BY ByteConsts DEF ByteValues
  <2>2. Byte * first = first * Byte  BY <2>1, ByteConsts
  <2> QED  BY <2>2 DEF Pair
<1>3. w \in 0..All /\ rest \in 0..All /\ 0 \in 0..All  BY PairRange, AllConsts DEF All
<1> HIDE DEF w
<1>4. c \in 0..All /\ Alike(c, w + (rest + 0))  BY <1>3, SumIs
<1>5. sum = Complement(chksum(Byte * first + second, rest, 0))  BY <1>2 DEF Complement, All
<1> HIDE DEF c
<1>6. sum \in 0..All  BY <1>4, AllConsts
<1>7. Alike(w + (rest + sum), 0)
  <2>1. c \in Int /\ w \in Int /\ rest \in Int /\ w + (rest + 0) \in Int  BY <1>3, <1>4, AllConsts
  <2>2. Alike(w + (rest + 0), c)  BY <1>4, <2>1, AlikeSym
  <2>3. PICK k \in Int : w + (rest + 0) = c + All * k  BY <2>2 DEF Alike
  <2>4. All * (k + 1) = All * k + All /\ All * k \in Int /\ k + 1 \in Int  BY AllConsts
  <2> DEFINE ak == All * k  al == All * (k + 1)
  <2>5. w + (rest + 0) = c + ak /\ al = ak + All /\ ak \in Int  BY <2>3, <2>4
  <2> HIDE DEF ak, al
  <2>6. w + (rest + sum) = 0 + al  BY <2>1, <2>5, AllConsts
  <2> QED  BY <2>4, <2>6 DEF Alike, al
<1> HIDE DEF sum
<1>8. SumsUp(first, second, rest, sum)  BY <1>3, <1>6, <1>7 DEF SumsUp, w
<1>9. packet = [kind |-> kind, first |-> first, second |-> second, rest |-> rest, sum |-> sum]
  BY <1>1, <1>5
<1> QED  BY <1>8, <1>9 DEF PacketOK

(* d is taken from the first byte, and the sum corrected.                  *)
LEMMA TakenKeeps ==
  ASSUME NEW first, NEW second, NEW rest, NEW sum, NEW d \in ByteValues, NEW less \in ByteValues,
         SumsUp(first, second, rest, sum), first = less + d
  PROVE  SumsUp(less, second, rest, Corrected(sum, Byte * d))
<1> DEFINE dw == Byte * d  s == Corrected(sum, dw)  w == Pair(first, second)  v == Pair(less, second)
<1>1. /\ first \in ByteValues /\ second \in ByteValues /\ rest \in 0..All /\ sum \in 0..All
      /\ Alike(w + (rest + sum), 0)
  BY DEF SumsUp
<1>2. w = v + dw
  <2>1. first \in Int /\ second \in Int /\ less \in Int /\ d \in Int  BY <1>1, ByteConsts DEF ByteValues
  <2>2. first * Byte = less * Byte + Byte * d /\ less * Byte \in Int /\ Byte * d \in Int  BY <2>1, ByteConsts
  <2> QED  BY <2>1, <2>2 DEF Pair
<1>3. dw \in 0..All
  <2>1. 0 \in ByteValues  BY ByteConsts DEF ByteValues
  <2>2. Pair(d, 0) \in 0..All  BY <2>1, PairRange
  <2>3. Pair(d, 0) = dw
    <3>1. d \in Int  BY ByteConsts DEF ByteValues
    <3> QED  BY <3>1, ByteConsts DEF Pair
  <2> QED  BY <2>2, <2>3
<1>4. w \in 0..All /\ v \in 0..All  BY <1>1, PairRange
<1> HIDE DEF dw, w, v
<1>5. s \in 0..All /\ Alike(s, sum + dw)  BY <1>1, <1>3, CorrectedIs
<1> HIDE DEF s
<1>6. w \in Int /\ v \in Int /\ dw \in Int /\ s \in Int /\ sum \in Int /\ rest \in Int
      /\ v + rest \in Int /\ sum + dw \in Int
  BY <1>1, <1>3, <1>4, <1>5, AllConsts
<1>7. Alike((v + rest) + s, (v + rest) + (sum + dw))  BY <1>5, <1>6, AlikeRefl, AlikeSum
<1>8. (v + rest) + (sum + dw) = w + (rest + sum) /\ (v + rest) + s = v + (rest + s)  BY <1>2, <1>6
<1>9. v + (rest + s) \in Int /\ w + (rest + sum) \in Int  BY <1>6
<1>10. Alike(v + (rest + s), 0)  BY <1>1, <1>7, <1>8, <1>9, AlikeTrans
<1> QED  BY <1>1, <1>5, <1>10 DEF SumsUp, v, s, dw

LEMMA PacketStep == PacketOK /\ [ArithNext]_arithVars => PacketOK'
<1> SUFFICES ASSUME PacketOK, [ArithNext]_arithVars PROVE PacketOK'
  OBVIOUS
<1>1. SumsUp(packet.first, packet.second, packet.rest, packet.sum)  BY DEF PacketOK
<1>2. packet.first \in ByteValues  BY <1>1 DEF SumsUp
<1>3. CASE UNCHANGED packet  BY <1>3 DEF PacketOK
<1>4. ASSUME NEW less \in ByteValues, NEW d \in ByteValues, packet.first = less + d, NEW sum,
             sum = Corrected(packet.sum, Byte * d),
             packet' = [kind |-> packet.kind, first |-> less, second |-> packet.second,
                        rest |-> packet.rest, sum |-> sum]
      PROVE  PacketOK'
  <2>1. SumsUp(less, packet.second, packet.rest, sum)  BY <1>1, <1>4, TakenKeeps
  <2>2. /\ packet'.kind = packet.kind /\ packet'.first = less /\ packet'.second = packet.second
        /\ packet'.rest = packet.rest /\ packet'.sum = sum
    BY <1>4
  <2> QED  BY <1>4, <2>1, <2>2 DEF PacketOK
<1>5. ASSUME NEW f, NEW s, packet' = [packet EXCEPT !.first = f, !.sum = s]
      PROVE  packet' = [kind |-> packet.kind, first |-> f, second |-> packet.second,
                        rest |-> packet.rest, sum |-> s]
  BY <1>5, Zenon DEF PacketOK
<1>6. CASE uip_fw_ttl
  <2> DEFINE f == packet.first - 1  s == Corrected(packet.sum, Byte)
  <2>1. packet.first > 1 /\ packet' = [packet EXCEPT !.first = f, !.sum = s]  BY <1>6 DEF uip_fw_ttl
  <2>2. f \in ByteValues /\ 1 \in ByteValues /\ packet.first = f + 1  BY <1>2, <2>1, ByteConsts DEF ByteValues
  <2>3. s = Corrected(packet.sum, Byte * 1)  BY ByteConsts
  <2> HIDE DEF f, s
  <2>4. packet' = [kind |-> packet.kind, first |-> f, second |-> packet.second, rest |-> packet.rest, sum |-> s]
    BY <2>1, <1>5, Zenon
  <2> QED  BY <2>2, <2>3, <2>4, <1>4, Zenon
<1>7. CASE icmp_input
  <2> DEFINE s == Corrected(packet.sum, Byte * IcmpEcho)
  <2>1. packet.first = IcmpEcho /\ packet' = [packet EXCEPT !.first = 0, !.sum = s]  BY <1>7 DEF icmp_input
  <2>2. 0 \in ByteValues /\ IcmpEcho \in ByteValues /\ packet.first = 0 + IcmpEcho
    BY <1>2, <2>1, ByteConsts DEF ByteValues
  <2>3. s = Corrected(packet.sum, Byte * IcmpEcho)  OBVIOUS
  <2> HIDE DEF s
  <2>4. packet' = [kind |-> packet.kind, first |-> 0, second |-> packet.second, rest |-> packet.rest, sum |-> s]
    BY <2>1, <1>5, Zenon
  <2> QED  BY <2>2, <2>3, <2>4, <1>4, Zenon
<1>8. ASSUME NEW n \in 1..FullSegment, SendBytes(n) PROVE PacketOK'  BY <1>3, <1>8 DEF SendBytes
<1>9. CASE UNCHANGED arithVars  BY <1>3, <1>9 DEF arithVars
<1> QED  BY <1>6, <1>7, <1>8, <1>9 DEF ArithNext

(* An accepted packet stays one, after any number of routers and after the *)
(* answer to a ping (the corrections of uip_fw_forward and icmp_input).    *)
THEOREM StaysValidHolds == ArithSpec => []StaysValid
<1>1. PacketOK => StaysValid
  <2> SUFFICES ASSUME PacketOK PROVE StaysValid
    OBVIOUS
  <2> DEFINE f == packet.first  n == packet.second  r == packet.rest  s == packet.sum  w == Pair(f, n)
  <2>1. f \in ByteValues /\ n \in ByteValues /\ r \in 0..All /\ s \in 0..All /\ Alike(w + (r + s), 0)
    BY DEF PacketOK, SumsUp
  <2>2. f \in Int /\ n \in Int  BY <2>1, ByteConsts DEF ByteValues
  <2>3. w \in 0..All /\ Byte * f + n = w
    <3>1. Byte * f = f * Byte  BY <2>2, ByteConsts
    <3> QED  BY <2>1, <3>1, PairRange DEF Pair
  <2>4. w = 0 => f = 0 /\ n = 0
    <3>1. f * Byte \in Nat /\ n \in Nat /\ (f * Byte = 0 => f = 0)  BY <2>1, ByteConsts DEF ByteValues
    <3> QED  BY <3>1 DEF Pair
  <2> DEFINE c == chksum(w, r, s)
  <2>5. c = 0 \/ c = All
    <3> HIDE DEF w, f, n, r, s
    <3> QED  BY <2>1, <2>3, Accepted
  <2>6. c = 0 <=> (w = 0 /\ r = 0 /\ s = 0)
    <3> HIDE DEF w, f, n, r, s
    <3>1. w \in 0..All /\ r \in 0..All /\ s \in 0..All  BY <2>1, <2>3
    <3> QED  BY <3>1, SumIs, Zenon
  <2>7. chksum(Byte * packet.first + packet.second, packet.rest, packet.sum) = c  BY <2>3
  <2>8. uip_ipchksum(packet) = Word - 1  BY <2>5, <2>7, AllConsts DEF uip_ipchksum, All
  <2>9. {packet.first, packet.second, packet.rest} # {0} => c # 0  BY <2>4, <2>6
  <2> QED  BY <2>7, <2>8, <2>9 DEF StaysValid
<1> QED  BY <1>1, PacketMade, PacketStep, PTL DEF ArithSpec

(* What is added to a sequence number, where the parts of a segment lie,   *)
(* and what a checksum is corrected by are right (uip_add32,               *)
(* uip_split_output, and the corrections of a checksum).                   *)
THEOREM ArithmeticRightHolds == ArithSpec => ArithmeticRight
BY AddsModuloHolds, StaysValidHolds, SplitFitsHolds, PTL DEF ArithmeticRight

-------------------------------------------------------------------------------
(*****************************************************************************)
(* IP input: for all hosts, packets and configurations.                      *)
(*****************************************************************************)
LEMMA UdpKind ==
  ASSUME NEW p, Proto(p) = "UDP" PROVE p.kind = "udp"
BY DEF Proto

(* What a host with an address does not drop. *)
LEMMA Taken ==
  ASSUME NEW h, NEW p, hostaddr[h] # Zero, Reaches(h, p) # "drop"
  PROVE  /\ p.header /\ (p.fragment => REASSEMBLY)
         /\ \/ p.dst = hostaddr[h] /\ p.ipsum
            \/ BROADCAST /\ p.kind = "udp" /\ p.dst = "broadcast"
<1> DEFINE broadcast == BROADCAST /\ Proto(p) = "UDP" /\ p.dst = "broadcast"
<1>1. Reaches(h, p) =
        CASE ~Wellformed(p)               -> "drop"
          [] Wellformed(p) /\ broadcast  -> "UDP"
          [] Wellformed(p) /\ ~broadcast ->
               IF p.dst = hostaddr[h] /\ p.ipsum /\ Proto(p) # "other" THEN Proto(p) ELSE "drop"
  BY DEF Reaches
<1>2. Wellformed(p)  BY <1>1
<1>3. CASE broadcast  BY <1>2, <1>3, UdpKind DEF Wellformed
<1>4. CASE ~broadcast
  <2> HIDE DEF broadcast
  <2>1. p.dst = hostaddr[h] /\ p.ipsum  BY <1>1, <1>2, <1>4
  <2> QED  BY <2>1, <1>2 DEF Wellformed
<1> QED  BY <1>3, <1>4

(* A host with an address acts on nothing that was sent to another one, or *)
(* came damaged (uip_process before icmp_input, udp_input and tcp_input).  *)
THEOREM OnlyForItHolds == IpSpec => OnlyForIt
<1> DEFINE A ==
      \A m \in ipnet :
        LET h == m.at  p == m.pkt
        IN  hostaddr[h] # Zero /\ (icmp_echo(h, p) \/ udp_input(h, p) \/ tcp_input(h, p))
              => /\ p.header /\ (p.fragment => REASSEMBLY)
                 /\ \/ p.dst = hostaddr[h] /\ p.ipsum
                    \/ BROADCAST /\ p.kind = "udp" /\ p.dst = "broadcast"
<1>1. [IpNext]_ipVars => [A]_ipVars
  <2> SUFFICES ASSUME NEW m \in ipnet, hostaddr[m.at] # Zero,
                      icmp_echo(m.at, m.pkt) \/ udp_input(m.at, m.pkt) \/ tcp_input(m.at, m.pkt)
               PROVE  /\ m.pkt.header /\ (m.pkt.fragment => REASSEMBLY)
                      /\ \/ m.pkt.dst = hostaddr[m.at] /\ m.pkt.ipsum
                         \/ BROADCAST /\ m.pkt.kind = "udp" /\ m.pkt.dst = "broadcast"
    OBVIOUS
  <2>1. Reaches(m.at, m.pkt) # "drop"  BY DEF icmp_echo, udp_input, tcp_input
  <2> QED  BY <2>1, Taken
<1>2. OnlyForIt <=> [][A]_ipVars  BY DEF OnlyForIt
<1> QED  BY <1>1, <1>2, PTL DEF IpSpec

-------------------------------------------------------------------------------
(***************************************************************************)
(* The types of all parts.                                                 *)
(***************************************************************************)

(* The variables of the resolver that are not of its table. *)
SessionTyped ==
  /\ sess \in 0..MaxSessions /\ up \in BOOLEAN /\ done \in BOOLEAN /\ udp \in BOOLEAN
  /\ host \in Hosts \cup {None} /\ target \in Hosts \cup {None}

LEMMA SessionInit == Init => SessionTyped
<1>1. 0 \in 0..MaxSessions  BY ResolverAssumption
<1> QED  BY <1>1 DEF Init, SessionTyped

LEMMA PollTyped == ASSUME SessionTyped, Poll PROVE SessionTyped'
<1> DEFINE senders == {i \in Entries : Sends(names[i])}
           reached == {i \in Entries : \A j \in senders : i <= j}
           failing == {i \in reached : GivesUp(names[i])}
           nth(k)  == CHOOSE i \in failing : Cardinality({j \in failing : j < i}) = k - 1
           n       == Cardinality(failing)
           calls   == [k \in 1..n |-> Call(nth(k), None)]
<1>1. UNCHANGED <<sess, up, host, udp>> /\ resolv_found(calls)
  BY DEF Poll, check_entries
<1>2. n \in Nat
  <2>1. IsFiniteSet(Entries)  BY FS_Interval, ResolverAssumption DEF Entries
  <2>2. failing \subseteq Entries  OBVIOUS
  <2> HIDE DEF failing
  <2>3. IsFiniteSet(failing)  BY <2>1, <2>2, FS_Subset
  <2> QED  BY <2>3, FS_CardinalityType
<1> HIDE DEF n, nth
<1>3. calls # <<>> => calls[1].addr = None
  <2> SUFFICES ASSUME calls # <<>> PROVE calls[1].addr = None
    OBVIOUS
  <2>1. n # 0  OBVIOUS
  <2>2. 1 \in 1..n  BY <1>2, <2>1
  <2>3. calls[1] = Call(nth(1), None)  BY <2>2
  <2> QED  BY <2>3 DEF Call
<1>4. target' = target /\ done' = (done \/ \E k \in DOMAIN calls : calls[k].addr = None)
  <2>1. /\ target' = IF calls # <<>> /\ calls[1].addr # None THEN calls[1].addr ELSE target
        /\ done' = (done \/ \E k \in DOMAIN calls : calls[k].addr = None)
    BY <1>1 DEF resolv_found
  <2> HIDE DEF calls
  <2> QED  BY <2>1, <1>3
<1> HIDE DEF calls
<1>5. done' \in BOOLEAN  BY <1>4
<1> QED  BY <1>1, <1>4, <1>5 DEF SessionTyped

LEMMA AnswerTyped ==
  ASSUME SessionTyped, ResolverInv, NEW a \in answers, RecvAnswer(a)
  PROVE  SessionTyped'
<1>1. a \in [id : Entries, name : Hosts, kind : AnswerKinds]  BY DEF ResolverInv, Typed
<1>2. PICK calls : /\ calls \in {<<Call(a.id, a.name)>>, <<Call(a.id, None)>>, <<>>}
                   /\ resolv_found(calls)
  <2>1. a.kind \in {"address", "error", "other"}  BY <1>1, ResolverAssumption
  <2> QED  BY <2>1 DEF RecvAnswer
<1>3. /\ target' = IF calls # <<>> /\ calls[1].addr # None THEN calls[1].addr ELSE target
      /\ done' = (done \/ \E k \in DOMAIN calls : calls[k].addr = None)
  BY <1>2 DEF resolv_found
<1>4. calls # <<>> => calls[1].addr \in Hosts \cup {None}
  BY <1>1, <1>2 DEF Call
<1>5. target' \in Hosts \cup {None}  BY <1>3, <1>4 DEF SessionTyped
<1>6. done' \in BOOLEAN  BY <1>3
<1>7. UNCHANGED <<sess, up, host, udp>>  BY DEF RecvAnswer
<1> QED  BY <1>5, <1>6, <1>7 DEF SessionTyped

LEMMA SessionNext == SessionTyped /\ ResolverInv /\ [Next]_vars => SessionTyped'
<1> SUFFICES ASSUME SessionTyped, ResolverInv, [Next]_vars PROVE SessionTyped'
  OBVIOUS
<1>0. sess \in 0..MaxSessions /\ sess < MaxSessions => sess + 1 \in 0..MaxSessions  BY ResolverAssumption
<1>1. ASSUME NEW h \in Hosts, StartLookup(h) PROVE SessionTyped'
  BY <1>0, <1>1 DEF StartLookup, SessionTyped
<1>2. CASE StartLiteral  BY <1>0, <1>2 DEF StartLiteral, SessionTyped
<1>3. CASE Poll  BY <1>3, PollTyped
<1>4. CASE ConnectionEnds  BY <1>4 DEF ConnectionEnds, SessionTyped
<1>5. CASE LeaveLoop  BY <1>5 DEF LeaveLoop, SessionTyped
<1>6. CASE NameServer  BY <1>6 DEF NameServer, SessionTyped
<1>7. ASSUME NEW a \in answers, RecvAnswer(a) PROVE SessionTyped'  BY <1>7, AnswerTyped
<1>8. CASE UNCHANGED vars  BY <1>8 DEF vars, SessionTyped
<1> QED  BY <1>1, <1>2, <1>3, <1>4, <1>5, <1>6, <1>7, <1>8 DEF Next

LEMMA ResolverTyped == SessionTyped /\ ResolverInv => TypeOK
BY Zenon DEF SessionTyped, ResolverInv, Typed, TypeOK, Entry

-------------------------------------------------------------------------------
(* The main loop: between two calls of uip_arp_timer there are as many     *)
(* periods as fit into one of its own, and those the loop was late by.     *)
LoopTyped ==
  /\ waiting \in 0..Backlog /\ sinceArp \in Nat
  /\ sinceArp * Period + Since(now, periodic_timer) <= Since(now, arp_timer) + MaxDue * Period

LEMMA LoopTypedInit == LoopInit => LoopTyped
<1> SUFFICES ASSUME LoopInit PROVE LoopTyped
  OBVIOUS
<1>1. now = 0 /\ periodic_timer = 0 /\ arp_timer = 0 /\ sinceArp = 0 /\ waiting = 0  BY DEF LoopInit
<1>2. Since(now, periodic_timer) = 0 /\ Since(now, arp_timer) = 0
  <2>1. now \in 0..(ClockMod - 1)  BY <1>1, LoopConsts
  <2> QED  BY <1>1, <2>1, SinceIs
<1>3. 0 * Period = 0 /\ MaxDue * Period \in Nat  BY LoopConsts, Times
<1> DEFINE m == MaxDue * Period
<1>4. m \in Nat  BY <1>3
<1> HIDE DEF m
<1>5. 0 + 0 <= 0 + m  BY <1>4
<1>6. sinceArp * Period + Since(now, periodic_timer) <= Since(now, arp_timer) + m
  BY <1>1, <1>2, <1>3, <1>5
<1> QED  BY <1>1, <1>6, LoopConsts DEF LoopTyped, m

LEMMA TickTyped == ASSUME LoopInv, LoopTyped, Tick PROVE LoopTyped'
<1> DEFINE u == (now + 1) % ClockMod
           p == Since(now, periodic_timer)  a == Since(now, arp_timer)
           s == sinceArp * Period  m == MaxDue * Period
<1>1. now' = u /\ UNCHANGED <<periodic_timer, arp_timer, waiting, sinceArp>>  BY DEF Tick
<1>2. p \in Nat /\ a \in Nat /\ a + 1 < ClockMod /\ p + 1 < ClockMod  BY SinceInv
<1>3. Since(u, periodic_timer) = p + 1 /\ Since(u, arp_timer) = a + 1
  <2>1. now \in 0..(ClockMod - 1) /\ periodic_timer \in 0..(ClockMod - 1) /\ arp_timer \in 0..(ClockMod - 1)
    BY DEF LoopInv
  <2> QED  BY <1>2, <2>1, SinceTick
<1>4. s \in Nat /\ m \in Nat /\ s + p <= a + m  BY LoopConsts, Times DEF LoopTyped
<1>5. LoopTyped' <=> /\ waiting \in 0..Backlog /\ sinceArp \in Nat
                    /\ s + Since(u, periodic_timer) <= Since(u, arp_timer) + m
  BY <1>1 DEF LoopTyped, Since
<1> HIDE DEF u, p, a, s, m
<1>6. s + (p + 1) <= (a + 1) + m  BY <1>2, <1>4
<1> QED  BY <1>3, <1>5, <1>6 DEF LoopTyped

LEMMA WorkTyped == ASSUME LoopInv, LoopTyped, Periodic PROVE LoopTyped'
<1> DEFINE p == Since(now, periodic_timer)  a == Since(now, arp_timer)
           q == Since(now, periodic_timer')  b == Since(now, arp_timer')
           s == sinceArp * Period  m == MaxDue * Period
<1>1. /\ now' = now /\ waiting' = waiting /\ periodic_timer' = timer_reset(periodic_timer, Period)
      /\ p >= Period
      /\ IF a >= ArpPeriod THEN sinceArp' = 0
         ELSE arp_timer' = arp_timer /\ sinceArp' = sinceArp + 1
  BY DEF Periodic, Expired, Elapsed, Since
<1>2. p \in Nat /\ a \in Nat /\ p < (MaxDue + 1) * Period  BY SinceInv
<1>3. /\ now \in 0..(ClockMod - 1) /\ periodic_timer \in 0..(ClockMod - 1) /\ arp_timer \in 0..(ClockMod - 1)
      /\ waiting \in 0..Backlog /\ sinceArp \in Nat /\ s + p <= a + m
  BY DEF LoopInv, LoopTyped
<1>4. Period \in Nat /\ Period > 0 /\ Period < ClockMod
  <2> DEFINE m1 == (MaxDue + 1) * Period
  <2>1. m1 \in Nat  BY LoopConsts, Times
  <2>2. m1 + ArpPeriod < ClockMod  BY LoopConsts
  <2> HIDE DEF m1
  <2> QED  BY <2>1, <2>2, LoopConsts
<1>5. q = p - Period  BY <1>1, <1>3, <1>4, SinceReset
<1>6. b \in Nat
  <2>1. arp_timer' \in 0..(ClockMod - 1)  BY WorkKeeps DEF LoopInv
  <2>2. b = IF now >= arp_timer' THEN now - arp_timer' ELSE now + ClockMod - arp_timer'
    BY <1>3, <2>1, SinceIs
  <2>3. ClockMod \in Nat /\ now \in 0..(ClockMod - 1)  BY <1>3, LoopConsts
  <2> HIDE DEF b
  <2>4. \A C \in Nat : \A x, y \in 0..(C - 1) :
          (IF x >= y THEN x - y ELSE x + C - y) \in Nat
    OBVIOUS
  <2> QED  BY <2>1, <2>2, <2>3, <2>4
<1>7. /\ s \in Nat /\ m \in Nat /\ (MaxDue + 1) * Period = m + Period
      /\ (sinceArp + 1) * Period = s + Period /\ 0 * Period = 0
  BY <1>3, LoopConsts, Times
<1> SUFFICES sinceArp' \in Nat /\ sinceArp' * Period + q <= b + m
  BY <1>1, <1>3 DEF LoopTyped, Since
<1>8. CASE a >= ArpPeriod
  <2>1. sinceArp' = 0 /\ sinceArp' * Period = 0  BY <1>1, <1>7, <1>8
  <2> HIDE DEF p, a, q, b, s, m
  <2>2. 0 + q <= b + m  BY <1>2, <1>4, <1>5, <1>6, <1>7
  <2> QED  BY <2>1, <2>2
<1>9. CASE ~(a >= ArpPeriod)
  <2>1. sinceArp' = sinceArp + 1 /\ b = a  BY <1>1, <1>9
  <2>2. sinceArp' * Period = s + Period  BY <1>7, <2>1
  <2> HIDE DEF p, a, q, b, s, m
  <2>3. (s + Period) + q <= b + m  BY <1>2, <1>3, <1>4, <1>5, <1>7, <2>1
  <2> QED  BY <1>3, <2>1, <2>2, <2>3
<1> QED  BY <1>8, <1>9

LEMMA LoopTypedNext == LoopInv /\ LoopTyped /\ [LoopNext]_loopVars => LoopTyped'
<1> SUFFICES ASSUME LoopInv, LoopTyped, [LoopNext]_loopVars PROVE LoopTyped'
  OBVIOUS
<1>1. ASSUME UNCHANGED <<now, periodic_timer, arp_timer, sinceArp>>, waiting' \in 0..Backlog
      PROVE  LoopTyped'
  BY <1>1 DEF LoopTyped, Since
<1>2. CASE HandlePacket  BY <1>1, <1>2, LoopConsts DEF HandlePacket, LoopTyped
<1>3. CASE Periodic  BY <1>3, WorkTyped
<1>4. CASE Arrives  BY <1>1, <1>4, LoopConsts DEF Arrives, LoopTyped
<1>5. CASE Tick  BY <1>5, TickTyped
<1>6. CASE UNCHANGED loopVars  BY <1>1, <1>6 DEF loopVars, LoopTyped
<1> QED  BY <1>2, <1>3, <1>4, <1>5, <1>6 DEF LoopNext

LEMMA QuotientBound ==
  ASSUME NEW A \in Nat, A > 0, NEW n \in Nat, NEW x \in Nat, n * A < x + A
  PROVE  n <= x \div A + 1
<1> DEFINE q == x \div A  r == x % A
<1>1. q \in Nat /\ r \in 0..(A - 1) /\ x = A * q + r  BY Divided
<1> HIDE DEF q, r
<1> SUFFICES ASSUME n > q + 1 PROVE FALSE
  BY <1>1 DEF q
<1>2. q + 2 <= n /\ q + 2 \in Nat  BY <1>1
<1>3. (q + 2) * A <= n * A  BY <1>2, Times
<1>4. (q + 2) * A = (A * q) + (A + A)  BY <1>1
<1> DEFINE aq == A * q  na == n * A  q2 == (q + 2) * A
<1>5. aq \in Nat /\ na \in Nat /\ q2 <= na /\ q2 = aq + (A + A) /\ x = aq + r /\ na < x + A
  BY <1>1, <1>3, <1>4
<1> HIDE DEF aq, na, q2
<1> QED  BY <1>1, <1>5

LEMMA LoopTypesFit == LoopInv /\ LoopTyped => LoopTypeOK
<1> SUFFICES ASSUME LoopInv, LoopTyped PROVE LoopTypeOK
  OBVIOUS
<1> DEFINE p == Since(now, periodic_timer)  a == Since(now, arp_timer)
           s == sinceArp * Period  m == MaxDue * Period  m1 == (MaxDue + 1) * Period
           d == arpDue * ArpPeriod  r == now % ArpPeriod
<1>1. p \in Nat /\ a \in Nat /\ p < m1  BY SinceInv
<1>2. /\ now \in 0..(ClockMod - 1) /\ periodic_timer \in 0..(ClockMod - 1) /\ arp_timer \in 0..(ClockMod - 1)
      /\ due \in 0..MaxDue /\ arpDue \in Nat /\ a = d + r /\ a < p + ArpPeriod
      /\ waiting \in 0..Backlog /\ sinceArp \in Nat /\ s + p <= a + m
  BY DEF LoopInv, LoopTyped
<1>3. s \in Nat /\ m \in Nat /\ m1 \in Nat /\ d \in Nat /\ m1 = m + Period
  BY <1>2, LoopConsts, Times
<1>4. r \in Nat
  <2>1. now \in Nat  BY <1>2, LoopConsts
  <2> QED  BY <2>1, LoopConsts, Divided
<1>5. arpDue <= m1 \div ArpPeriod + 1
  <2>1. d < m1 + ArpPeriod
    <3> HIDE DEF p, a, s, m, m1, d, r
    <3> QED  BY <1>1, <1>2, <1>3, <1>4, LoopConsts
  <2> HIDE DEF m1
  <2> QED  BY <2>1, <1>2, <1>3, LoopConsts, QuotientBound
<1>6. sinceArp <= ArpPeriod \div Period + MaxDue
  <2> DEFINE k == ArpPeriod \div Period
  <2>1. k \in Nat /\ ArpPeriod = Period * k
    <3>1. k \in Nat /\ ArpPeriod = Period * k + (ArpPeriod % Period)  BY LoopConsts, Divided
    <3>2. ArpPeriod % Period = 0  BY LoopConsts
    <3> HIDE DEF k
    <3> QED  BY <3>1, <3>2, LoopConsts
  <2>2. s < ArpPeriod + m
    <3> HIDE DEF p, a, s, m, m1, d, r
    <3> QED  BY <1>1, <1>2, <1>3, LoopConsts
  <2> HIDE DEF k
  <2>3. k + MaxDue \in Nat /\ (k + MaxDue) * Period = Period * k + MaxDue * Period  BY <2>1, LoopConsts
  <2>4. (k + MaxDue) * Period = ArpPeriod + m  BY <2>1, <2>3
  <2> SUFFICES ASSUME k + MaxDue <= sinceArp PROVE FALSE
    BY <1>2, <2>3 DEF k
  <2>5. (k + MaxDue) * Period <= s  BY <1>2, <2>3, LoopConsts, Times
  <2> HIDE DEF s, m
  <2> QED  BY <1>3, <2>2, <2>4, <2>5, LoopConsts
<1>7. m1 \div ArpPeriod + 1 \in Nat /\ ArpPeriod \div Period + MaxDue \in Nat
  <2>1. m1 \div ArpPeriod \in Nat
    <3> HIDE DEF m1
    <3> QED  BY <1>3, LoopConsts, Divided
  <2>2. ArpPeriod \div Period \in Nat  BY LoopConsts, Divided
  <2> QED  BY <2>1, <2>2, LoopConsts
<1>8. arpDue \in 0..(m1 \div ArpPeriod + 1)  BY <1>2, <1>5, <1>7
<1>9. sinceArp \in 0..(ArpPeriod \div Period + MaxDue)  BY <1>2, <1>6, <1>7
<1> QED  BY <1>2, <1>8, <1>9 DEF LoopTypeOK

-------------------------------------------------------------------------------
(* Who may have sent a packet that is no ICMP message: routers send just   *)
(* those.                                                                  *)
FirstSources == {f.pkt.src : f \in FirstPackets}

FwKnown(p) ==
  /\ IsFwPacket(p) /\ FwHeader(p) \in FwSeen /\ (p.proto # "icmp" => p.src \in FirstSources)

FwTyped ==
  /\ netifs = [r \in Routers |-> netifs[r]] /\ \A r \in Routers : netifs[r] \in Seq(Interfaces)
  /\ \A r \in Routers, i \in FwSlots : fwcache[r][i].pkt \in FwSeen \cup {NoFwHeader}
  /\ \A m \in transit : m.at \in Routers /\ FwKnown(m.pkt) /\ m.pkt.ttl \in 1..UIP_TTL
  /\ local \subseteq [at : Routers, pkt : FwSeen]

LEMMA SeenIs ==
  ASSUME NEW s \in Routers \cup FirstSources,
         NEW d \in FirstSources \cup {f.pkt.dst : f \in FirstPackets},
         NEW k \in {"icmp"} \cup {f.pkt.proto : f \in FirstPackets},
         NEW n \in {f.pkt.ipid : f \in FirstPackets}
  PROVE  [src |-> s, dst |-> d, proto |-> k, ipid |-> n] \in FwSeen
<1> DEFINE S == Routers \cup FirstSources
           D == FirstSources \cup {f.pkt.dst : f \in FirstPackets}
           K == {"icmp"} \cup {f.pkt.proto : f \in FirstPackets}
           N == {f.pkt.ipid : f \in FirstPackets}
<1>1. FwSeen = {[src |-> a, dst |-> b, proto |-> c, ipid |-> e] : a \in S, b \in D, c \in K, e \in N}
  BY DEF FwSeen, FirstSources
<1>2. s \in S /\ d \in D /\ k \in K /\ n \in N  OBVIOUS
<1> HIDE DEF S, D, K, N
<1> QED  BY <1>1, <1>2

LEMMA SeenHas ==
  ASSUME NEW h \in FwSeen
  PROVE  /\ h.src \in Routers \cup FirstSources
         /\ h.dst \in FirstSources \cup {f.pkt.dst : f \in FirstPackets}
         /\ h.proto \in {"icmp"} \cup {f.pkt.proto : f \in FirstPackets}
         /\ h.ipid \in {f.pkt.ipid : f \in FirstPackets}
BY DEF FwSeen, FirstSources

LEMMA FirstKnown ==
  ASSUME NEW f \in FirstPackets
  PROVE  f.at \in Routers /\ f.pkt.ttl \in 1..UIP_TTL /\ FwKnown(f.pkt)
<1>1. f.at \in Routers /\ f.pkt.ttl \in 1..UIP_TTL /\ IsFwPacket(f.pkt)  BY FwAssumption
<1>2. f.pkt.src \in FirstSources  BY DEF FirstSources
<1>3. FwHeader(f.pkt) \in FwSeen  BY <1>2, SeenIs DEF FwHeader
<1> QED  BY <1>1, <1>2, <1>3 DEF FwKnown

LEMMA FwTypedInit ==
  ASSUME \/ transit = FirstPackets
         \/ transit = {},
         local = {}, netifs = [r \in Routers |-> <<>>],
         fwcache = [r \in Routers |-> [i \in FwSlots |-> [timer |-> 0, pkt |-> NoFwHeader]]]
  PROVE  FwTyped
<1>1. \A r \in Routers : netifs[r] = <<>>  OBVIOUS
<1>2. <<>> \in Seq(Interfaces)  OBVIOUS
<1>3. \A r \in Routers, i \in FwSlots : fwcache[r][i].pkt = NoFwHeader  OBVIOUS
<1>4. \A m \in transit : m.at \in Routers /\ FwKnown(m.pkt) /\ m.pkt.ttl \in 1..UIP_TTL
  BY FirstKnown
<1>5. netifs = [r \in Routers |-> netifs[r]]  BY <1>1
<1> QED  BY <1>1, <1>2, <1>3, <1>4, <1>5 DEF FwTyped

(* The packet that is sent on in place of p, as it leaves. *)
LEMMA SentIsKnown ==
  ASSUME NEW p, FwKnown(p), p.ttl \in 1..UIP_TTL, NEW r \in Routers,
         NEW q, q \in IF p.ttl <= 1 THEN TimeExceeded(r, p) ELSE {p}
  PROVE  FwKnown(Sent(q)) /\ Sent(q).ttl \in 1..UIP_TTL
<1>1. /\ p = [src |-> p.src, dst |-> p.dst, proto |-> p.proto, ipid |-> p.ipid, ttl |-> p.ttl]
      /\ FwHeader(p) \in FwSeen /\ (p.proto # "icmp" => p.src \in FirstSources)
  BY DEF FwKnown, IsFwPacket
<1>2. /\ p.src \in Routers \cup FirstSources
      /\ p.dst \in FirstSources \cup {f.pkt.dst : f \in FirstPackets}
      /\ p.proto \in {"icmp"} \cup {f.pkt.proto : f \in FirstPackets}
      /\ p.ipid \in {f.pkt.ipid : f \in FirstPackets}
  BY <1>1, SeenHas DEF FwHeader
<1>3. UIP_TTL \in Nat /\ UIP_TTL > 1
  <2>1. {FWCACHE_SIZE, FW_TIME, UIP_TTL} \subseteq Nat \ {0} /\ UIP_TTL > 1  BY FwAssumption
  <2> QED  BY <2>1
<1>4. CASE p.ttl <= 1
  <2>1. /\ p.proto # "icmp" /\ p.src \in FirstSources
        /\ q = [p EXCEPT !.src = r, !.dst = p.src, !.proto = "icmp", !.ttl = UIP_TTL]
    BY <1>1, <1>4 DEF TimeExceeded
  <2>2. q = [src |-> r, dst |-> p.src, proto |-> "icmp", ipid |-> p.ipid, ttl |-> UIP_TTL]
    BY <1>1, <2>1
  <2>3. Sent(q) = [src |-> r, dst |-> p.src, proto |-> "icmp", ipid |-> p.ipid, ttl |-> UIP_TTL - 1]
    BY <2>2 DEF Sent
  <2>4. FwHeader(Sent(q)) = [src |-> r, dst |-> p.src, proto |-> "icmp", ipid |-> p.ipid]
    BY <2>3 DEF FwHeader
  <2>5. FwHeader(Sent(q)) \in FwSeen  BY <1>2, <2>1, <2>4, SeenIs
  <2>6. IsFwPacket(Sent(q)) /\ Sent(q).proto = "icmp" /\ Sent(q).ttl = UIP_TTL - 1
    BY <2>3 DEF IsFwPacket
  <2> QED  BY <1>3, <2>5, <2>6 DEF FwKnown
<1>5. CASE ~(p.ttl <= 1)
  <2>1. q = p  BY <1>5
  <2>2. Sent(q) = [src |-> p.src, dst |-> p.dst, proto |-> p.proto, ipid |-> p.ipid, ttl |-> p.ttl - 1]
    BY <1>1, <2>1 DEF Sent
  <2>3. /\ FwHeader(Sent(q)) = FwHeader(p) /\ IsFwPacket(Sent(q)) /\ Sent(q).proto = p.proto
        /\ Sent(q).src = p.src /\ Sent(q).ttl = p.ttl - 1
    BY <2>2 DEF FwHeader, IsFwPacket
  <2>4. p.ttl - 1 \in 1..UIP_TTL  BY <1>3, <1>5
  <2> QED  BY <1>1, <2>3, <2>4 DEF FwKnown
<1> QED  BY <1>4, <1>5

LEMMA OutputTyped ==
  ASSUME FwInv, FwTyped, NEW r \in Routers, NEW m \in transit, NEW p, FwKnown(p), p.ttl \in 1..UIP_TTL,
         uip_fw_output(r, m, p), UNCHANGED netifs, UNCHANGED local \/ FwLocal(r, m)
  PROVE  FwTyped'
<1> DEFINE v == FwVictim(r)  new == [timer |-> FW_TIME, pkt |-> FwHeader(p)]  c == fwcache[r]
           cache == [c EXCEPT ![v] = new]
<1>1. CacheOK(c, recent[r])  BY DEF FwInv
<1>2. \A i \in FwSlots : c[i].timer \in Nat  BY <1>1, FwConsts DEF CacheOK, IsFwEntry
<1>3. v \in FwSlots  BY <1>2, VictimIs
<1>4. fwcache' = [fwcache EXCEPT ![r] = cache]
  <2>1. fwcache' = [fwcache EXCEPT ![r][v] = new]  BY DEF uip_fw_output, fwcache_register
  <2> HIDE DEF v, new
  <2> QED  BY <2>1, Zenon
<1>5. new.pkt \in FwSeen  BY DEF FwKnown
<1>6. \A i \in FwSlots : cache[i] = IF i = v THEN new ELSE c[i]
  <2> HIDE DEF v, new, c
  <2>1. c = [i \in FwSlots |-> c[i]]  BY <1>1 DEF CacheOK
  <2> QED  BY <2>1
<1>7. \A q \in Routers : fwcache'[q] = IF q = r THEN cache ELSE fwcache[q]
  <2>1. fwcache = [q \in Routers |-> fwcache[q]]  BY DEF FwInv
  <2> HIDE DEF cache
  <2> QED  BY <1>4, <2>1
<1> HIDE DEF cache, v, new
<1>8. \A q \in Routers, i \in FwSlots : fwcache'[q][i].pkt \in FwSeen \cup {NoFwHeader}
  <2>1. \A q \in Routers, i \in FwSlots : fwcache[q][i].pkt \in FwSeen \cup {NoFwHeader}  BY DEF FwTyped
  <2> TAKE q \in Routers, i \in FwSlots
  <2>2. CASE q = r /\ i = v  BY <1>5, <1>6, <1>7, <2>2
  <2>3. CASE q = r /\ i # v  BY <1>6, <1>7, <2>1, <2>3 DEF c
  <2>4. CASE q # r  BY <1>7, <2>1, <2>4
  <2> QED  BY <2>2, <2>3, <2>4
<1>9. \A n \in transit' : n.at \in Routers /\ FwKnown(n.pkt) /\ n.pkt.ttl \in 1..UIP_TTL
  <2>1. transit' = (transit \ {m}) \cup {[at |-> to, pkt |-> p] : to \in Hearers(r, p) \cap Routers}
    BY DEF uip_fw_output
  <2> TAKE n \in transit'
  <2>2. CASE n \in transit  BY <2>2 DEF FwTyped
  <2>3. CASE n \notin transit
    <3>1. PICK to \in Routers : n = [at |-> to, pkt |-> p]  BY <2>1, <2>3
    <3> QED  BY <3>1
  <2> QED  BY <2>2, <2>3
<1>10. local' \subseteq [at : Routers, pkt : FwSeen]
  <2>1. FwHeader(m.pkt) \in FwSeen  BY DEF FwTyped, FwKnown
  <2>2. local \subseteq [at : Routers, pkt : FwSeen]  BY DEF FwTyped
  <2> QED  BY <2>1, <2>2 DEF FwLocal
<1>11. netifs' = netifs  OBVIOUS
<1> QED  BY <1>8, <1>9, <1>10, <1>11 DEF FwTyped

LEMMA ForwardTyped ==
  ASSUME FwInv, FwTyped, NEW r \in Routers, NEW m, uip_fw_forward(r, m)
  PROVE  FwTyped'
<1> DEFINE p == m.pkt
           next == IF p.ttl <= 1 THEN TimeExceeded(r, p) ELSE {p}
<1>1. /\ m \in transit
      /\ \/ FwDropped(m) /\ (FwLocal(r, m) \/ UNCHANGED local)
         \/ /\ \E q \in next : uip_fw_output(r, m, Sent(q))
            /\ UNCHANGED netifs /\ (FwLocal(r, m) \/ UNCHANGED local)
  BY DEF uip_fw_forward
<1>2. FwKnown(p) /\ p.ttl \in 1..UIP_TTL  BY <1>1 DEF FwTyped
<1>3. CASE FwDropped(m) /\ (FwLocal(r, m) \/ UNCHANGED local)
  <2>1. /\ FwHeader(m.pkt) \in FwSeen /\ local \subseteq [at : Routers, pkt : FwSeen]
    BY <1>2 DEF FwTyped, FwKnown
  <2>2. local' \subseteq [at : Routers, pkt : FwSeen]
    BY <1>3, <2>1 DEF FwLocal
  <2>3. transit' \subseteq transit /\ netifs' = netifs /\ fwcache' = fwcache  BY <1>3 DEF FwDropped
  <2> QED  BY <2>2, <2>3 DEF FwTyped
<1>4. CASE /\ \E q \in next : uip_fw_output(r, m, Sent(q))
           /\ UNCHANGED netifs /\ (FwLocal(r, m) \/ UNCHANGED local)
  <2>1. PICK q \in next : uip_fw_output(r, m, Sent(q))  BY <1>4
  <2>2. FwKnown(Sent(q)) /\ Sent(q).ttl \in 1..UIP_TTL  BY <1>2, <2>1, SentIsKnown
  <2> QED  BY <1>1, <1>4, <2>1, <2>2, OutputTyped
<1> QED  BY <1>1, <1>3, <1>4

LEMMA RegisterTyped ==
  ASSUME FwTyped, NEW r \in Routers, uip_fw_register(r)
  PROVE  FwTyped'
<1> DEFINE n == Len(netifs[r]) + 1  s == Registered[r]
<1>1. /\ n <= Len(s) /\ netifs' = [netifs EXCEPT ![r] = <<s[n]>> \o @]
      /\ UNCHANGED <<fwcache, transit, local>>
  BY DEF uip_fw_register
<1>2. netifs = [q \in Routers |-> netifs[q]] /\ \A q \in Routers : netifs[q] \in Seq(Interfaces)
  BY DEF FwTyped
<1>3. s \in Seq(Interfaces)  BY FwAssumption
<1>4. n \in 1..Len(s)  BY <1>1, <1>2, <1>3
<1> HIDE DEF n, s
<1>5. s[n] \in Interfaces  BY <1>3, <1>4, ElementOf
<1> DEFINE x == s[n]  t == <<x>> \o netifs[r]
<1>6. t \in Seq(Interfaces)
  <2>1. x \in Interfaces  BY <1>5
  <2> HIDE DEF x
  <2>2. <<x>> \in Seq(Interfaces)  BY <2>1
  <2> QED  BY <1>2, <2>2
<1>7. netifs' = [netifs EXCEPT ![r] = t]  BY <1>1
<1> HIDE DEF t
<1>8. netifs' = [q \in Routers |-> IF q = r THEN t ELSE netifs[q]]  BY <1>2, <1>7
<1>9. netifs' = [q \in Routers |-> netifs'[q]] /\ \A q \in Routers : netifs'[q] \in Seq(Interfaces)
  BY <1>2, <1>6, <1>8
<1> QED  BY <1>1, <1>9 DEF FwTyped

LEMMA AgingTyped ==
  ASSUME FwInv, FwTyped, NEW r \in Routers, uip_fw_periodic(r)
  PROVE  FwTyped'
<1> DEFINE c == fwcache[r]  cache == [i \in FwSlots |-> FwAged(c[i])]
<1>1. fwcache' = [fwcache EXCEPT ![r] = cache]  BY Zenon DEF uip_fw_periodic
<1>2. UNCHANGED <<netifs, transit, local>>  BY DEF uip_fw_periodic
<1>3. fwcache = [q \in Routers |-> fwcache[q]] /\ CacheOK(c, recent[r])  BY DEF FwInv
<1>4. \A i \in FwSlots : cache[i].pkt = c[i].pkt
  <2> TAKE i \in FwSlots
  <2> DEFINE e == c[i]
  <2>1. e = [timer |-> e.timer, pkt |-> e.pkt]  BY <1>3 DEF CacheOK, IsFwEntry, FwEntry
  <2> HIDE DEF e, c
  <2>2. FwAged(e).pkt = e.pkt  BY <2>1 DEF FwAged
  <2> QED  BY <2>2 DEF e
<1> HIDE DEF cache
<1>5. \A q \in Routers : fwcache'[q] = IF q = r THEN cache ELSE fwcache[q]  BY <1>1, <1>3
<1>6. \A q \in Routers, i \in FwSlots : fwcache'[q][i].pkt = fwcache[q][i].pkt
  BY <1>4, <1>5
<1> QED  BY <1>2, <1>6 DEF FwTyped

LEMMA FwTypedNext == FwInv /\ FwTyped /\ [FwNext]_fwVars => FwTyped'
<1> SUFFICES ASSUME FwInv, FwTyped, [FwNext]_fwVars PROVE FwTyped'
  OBVIOUS
<1>1. ASSUME NEW r \in Routers, uip_fw_register(r) PROVE FwTyped'  BY <1>1, RegisterTyped
<1>2. ASSUME NEW r \in Routers, uip_fw_periodic(r) PROVE FwTyped'  BY <1>2, AgingTyped
<1>3. ASSUME NEW r \in Routers, NEW m, uip_fw_forward(r, m) PROVE FwTyped'  BY <1>3, ForwardTyped
<1>4. CASE UNCHANGED fwVars  BY <1>4 DEF fwVars, FwTyped
<1> QED  BY <1>1, <1>2, <1>3, <1>4 DEF FwNext

LEMMA FwTypesFit == FwInv /\ FwTyped => FwTypeOK
<1> SUFFICES ASSUME FwInv, FwTyped PROVE FwTypeOK
  OBVIOUS
<1>1. \A r \in Routers, i \in FwSlots : fwcache[r][i].timer \in 0..FW_TIME
  BY DEF FwInv, CacheOK, IsFwEntry
<1> QED  BY <1>1 DEF FwTyped, FwTypeOK, FwKnown

-------------------------------------------------------------------------------
(* The parts together: whichever of them runs, the others stay as they are. *)
StackInv ==
  /\ ResolverInv /\ SessionTyped /\ ArpInv /\ TablesInv /\ ReassInv
  /\ FwInv /\ FwTyped /\ LoopInv /\ LoopTyped

LEMMA FwBegins ==
  ASSUME recent = [r \in Routers |-> {}], local = {}, netifs = [r \in Routers |-> <<>>],
         fwcache = [r \in Routers |-> [i \in FwSlots |-> [timer |-> 0, pkt |-> NoFwHeader]]],
         transit \in {{}, FirstPackets}
  PROVE  FwInv /\ FwTyped
<1> DEFINE unused == FwEntry(0, NoFwHeader)
           empty  == [i \in FwSlots |-> unused]
<1>1. fwcache = [r \in Routers |-> empty] /\ recent = [r \in Routers |-> {}]
  BY DEF FwEntry
<1>2. FwInv  BY <1>1, EmptyCache
<1> QED  BY <1>2, FwTypedInit

LEMMA StackBegins == MCInit => StackInv
<1> SUFFICES ASSUME MCInit PROVE StackInv
  OBVIOUS
<1>1. Init /\ ArpInit /\ uip_init /\ ReassInit /\ LoopInit  BY DEF MCInit
<1>2. ResolverInv /\ SessionTyped /\ ArpInv /\ TablesInv /\ ReassInv /\ LoopInv /\ LoopTyped
  BY <1>1, ResolverInitInv, SessionInit, ArpInitInv, TablesInitInv, ReassInitInv, LoopInitial, LoopTypedInit
<1>3. FwInv /\ FwTyped
  <2>1. /\ recent = [r \in Routers |-> {}] /\ local = {} /\ netifs = [r \in Routers |-> <<>>]
        /\ fwcache = [r \in Routers |-> [i \in FwSlots |-> [timer |-> 0, pkt |-> NoFwHeader]]]
        /\ transit \in {{}, FirstPackets}
    BY DEF MCInit, FwInit
  <2> QED  BY <2>1, FwBegins
<1> QED  BY <1>2, <1>3 DEF StackInv

stackVars == <<vars, arpVars, tableVars, reassVars, arithVars, fwVars, ipVars, loopVars, part>>

LEMMA OnePart ==
  ASSUME [MCNext]_stackVars
  PROVE  /\ [Next]_vars /\ [ArpNext]_arpVars /\ [TablesNext]_tableVars /\ [ReassNext]_reassVars
         /\ [FwNext]_fwVars /\ [LoopNext]_loopVars
BY Zenon DEF MCNext, stackVars

LEMMA StackKeeps == StackInv /\ [MCNext]_stackVars => StackInv'
<1> SUFFICES ASSUME StackInv, [MCNext]_stackVars PROVE StackInv'
  OBVIOUS
<1>1. /\ [Next]_vars /\ [ArpNext]_arpVars /\ [TablesNext]_tableVars /\ [ReassNext]_reassVars
      /\ [FwNext]_fwVars /\ [LoopNext]_loopVars
  BY OnePart
<1>2. ResolverInv' /\ SessionTyped'  BY <1>1, ResolverNextInv, SessionNext DEF StackInv
<1>3. ArpInv' /\ TablesInv' /\ ReassInv'  BY <1>1, ArpNextInv, TablesNextInv, ReassNextInv DEF StackInv
<1>4. FwInv' /\ FwTyped'  BY <1>1, FwStep, FwTypedNext DEF StackInv
<1>5. LoopInv' /\ LoopTyped'  BY <1>1, LoopStep, LoopTypedNext DEF StackInv
<1> QED  BY <1>2, <1>3, <1>4, <1>5 DEF StackInv

(* The types of all the parts beside TCP: a table of the resolver, the ARP *)
(* cache, the connections, the reassembly buffer, the packets and caches   *)
(* of the routers, and the timers of the main loop.                        *)
THEOREM StackTypesHold == MCSpec => []StackTypesOK
<1>1. StackInv => StackTypesOK
  <2> SUFFICES ASSUME StackInv PROVE StackTypesOK
    OBVIOUS
  <2>1. TypeOK /\ FwTypeOK /\ LoopTypeOK  BY ResolverTyped, FwTypesFit, LoopTypesFit DEF StackInv
  <2>2. ArpTypeOK /\ TablesTypeOK /\ ReassTypeOK  BY DEF StackInv, ArpInv, TablesInv, ReassInv
  <2> QED  BY <2>1, <2>2 DEF StackTypesOK
<1>2. MCSpec => MCInit /\ [][MCNext]_stackVars  BY DEF MCSpec, stackVars
<1> QED  BY <1>1, <1>2, StackBegins, StackKeeps, PTL
===============================================================================
