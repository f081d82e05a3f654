---------------------------- MODULE AlertsProofs ----------------------------
(***************************************************************************)
(* Theorems about Alerts, for every value of its constants: what a check   *)
(* sums up out of the ring is exact, and a trigger is over only after a    *)
(* whole window of quiet.                                                  *)
(***************************************************************************)
EXTENDS Alerts, FiniteSetTheorems, NaturalsInduction, WellFoundedInduction, TLAPS

USE AlertsAssumption

-----------------------------------------------------------------------------
(* Facts about the operators the actions are built from.                   *)

(* A set of numbers has a least one.                                       *)
LEMMA Least ==
  ASSUME NEW S \in SUBSET Nat, S # {}
  PROVE  \E n \in S : \A m \in S : n <= m
<1>1. PICK n \in S : \A m \in S : ~(<<m, n>> \in OpToRel(<, Nat))
  BY NatLessThanWellFounded, WFMin
<1>2. \A m \in S : ~(m < n)
  BY <1>1 DEF OpToRel
<1> QED BY <1>2

(* A minute is a number of rounds of the ring and its slot.                *)
LEMMA Rounds ==
  ASSUME NEW n \in Nat, NEW a \in Nat, n > 0
  PROVE  a % n \in 0..(n - 1) /\ \E q \in Nat : a = n * q + (a % n)
<1> DEFINE S == {x \in Nat : \E q \in Nat : a = n * q + x}
<1>1. a \in S
  <2>1. a = n * 0 + a
    OBVIOUS
  <2> QED BY <2>1
<1>2. PICK x \in S : \A y \in S : x <= y
  <2>1. S \in SUBSET Nat /\ S # {}
    BY <1>1
  <2> HIDE DEF S
  <2> QED BY <2>1, Least
<1>3. PICK q \in Nat : a = n * q + x
  BY <1>2
<1>4. x < n
  <2> SUFFICES ASSUME x >= n PROVE FALSE
    BY <1>2
  <2>1. a = n * (q + 1) + (x - n) /\ x - n \in Nat /\ q + 1 \in Nat
    BY <1>2, <1>3
  <2>2. x - n \in S
    BY <2>1
  <2>3. x <= x - n
    BY <1>2, <2>2
  <2> QED BY <1>2, <2>3
<1>5. a % n = x
  BY <1>2, <1>3, <1>4
<1> QED BY <1>2, <1>3, <1>4, <1>5

(* Two minutes of one slot are a round apart.                              *)
LEMMA SlotsApart ==
  ASSUME NEW n \in Nat, n > 0, NEW a \in Nat, NEW b \in Nat,
         a % n = b % n, a <= b, b < a + n
  PROVE  a = b
<1>1. PICK p \in Nat : a = n * p + (a % n)
  BY Rounds
<1>2. PICK q \in Nat : b = n * q + (b % n)
  BY Rounds
<1> DEFINE r == a % n
<1>3. r \in Int
  BY Rounds
<1>4. a = n * p + r /\ b = n * q + r
  BY <1>1, <1>2
<1> HIDE DEF r
<1>5. b - a = n * (q - p)
  BY <1>3, <1>4
<1>6. ~(q - p >= 1)
  <2> SUFFICES ASSUME q - p >= 1 PROVE FALSE
    OBVIOUS
  <2>1. n * (q - p) >= n
    OBVIOUS
  <2> QED BY <1>5, <2>1
<1>7. ~(p - q >= 1)
  <2> SUFFICES ASSUME p - q >= 1 PROVE FALSE
    OBVIOUS
  <2>1. n * (p - q) >= n
    OBVIOUS
  <2>2. n * (p - q) = 0 - n * (q - p)
    OBVIOUS
  <2> QED BY <1>5, <2>1, <2>2
<1>8. p = q
  BY <1>6, <1>7
<1> QED BY <1>4, <1>8

(* The messages about a set of triggers.                                   *)
LEMMA MessagesType ==
  ASSUME NEW ids \in SUBSET Ids, NEW state \in {"firing", "resolved"}, now \in 0..MaxTime
  PROVE  Messages(ids, state) \in Seq(Message)
<1>1. IsFiniteSet(ids)
  <2>1. IsFiniteSet({"events_dropped"}) /\ IsFiniteSet({"site_down"})
    BY FS_Singleton
  <2>2. IsFiniteSet({"site_down"} \cup {"requests_spike"})
    BY <2>1, FS_AddElement
  <2>3. IsFiniteSet(({"site_down"} \cup {"requests_spike"}) \cup {"blocked_spike"})
    BY <2>2, FS_AddElement
  <2>4. Traffic = ({"site_down"} \cup {"requests_spike"}) \cup {"blocked_spike"}
    BY DEF Traffic
  <2>5. IsFiniteSet(Ids)
    BY <2>1, <2>3, <2>4, FS_Union DEF Ids
  <2> QED BY <2>5, FS_Subset
<1>2. PICK n \in Nat : ExistsBijection(1..n, ids)
  BY <1>1, FS_NatBijection
<1>3. Cardinality(ids) = n
  BY <1>2, FS_CountingElements
<1>4. \E f \in [1..Cardinality(ids) -> ids] : IsInjective(f)
  BY <1>2, <1>3 DEF ExistsBijection, Bijection, Injection, Surjection, IsInjective
<1>5. SetToSeq(ids) \in [1..n -> ids]
  BY <1>3, <1>4 DEF SetToSeq
<1>6. Messages(ids, state) \in [1..n -> Message]
  BY <1>5 DEF Messages, Message
<1> QED BY <1>6

-----------------------------------------------------------------------------
(* The ring.                                                               *)

(* A slot has the requests of one minute that is the slot's, all of them   *)
(* that are done, and of no later minute is one done.                      *)
SlotExact(i) ==
  /\ ring[i].stamp # Never => ring[i].stamp % RingMinutes = i /\ ring[i].stamp <= now
  /\ ring[i].seen = {r \in Requests : stage[r] = "done" /\ at[r] = ring[i].stamp}
  /\ \A r \in Requests :
       stage[r] = "done" /\ at[r] % RingMinutes = i => at[r] <= ring[i].stamp

RingExact ==
  /\ \A r \in Requests : at[r] <= now
  /\ \A i \in 0..(RingMinutes - 1) : SlotExact(i)

(* What is summed up of minutes the ring has not used again.               *)
LEMMA SumIsExact ==
  ASSUME TypeOK, RingExact, NEW from \in Int, NEW to \in Int,
         now - RingMinutes < from, to <= now
  PROVE  Sum(from, to) = InMinutes(from, to)
<1>1. ASSUME NEW r \in Sum(from, to) PROVE r \in InMinutes(from, to)
  <2>1. PICK m \in from..(to - 1) : ring[m % RingMinutes].stamp = m /\ r \in ring[m % RingMinutes].seen
    BY <1>1 DEF Sum
  <2>2. m % RingMinutes \in 0..(RingMinutes - 1)
    OBVIOUS
  <2>3. r \in Requests /\ stage[r] = "done" /\ at[r] = m
    BY <2>1, <2>2 DEF RingExact, SlotExact
  <2> QED BY <2>3 DEF InMinutes
<1>2. ASSUME NEW r \in InMinutes(from, to) PROVE r \in Sum(from, to)
  <2> DEFINE m == at[r]
             i == m % RingMinutes
  <2>1. /\ r \in Requests /\ stage[r] = "done" /\ m \in Nat
        /\ from <= m /\ m < to /\ m <= now
    BY <1>2 DEF InMinutes, TypeOK
  <2>2. i \in 0..(RingMinutes - 1)
    BY <2>1
  <2>3. /\ m <= ring[i].stamp /\ ring[i].stamp \in Nat /\ ring[i].stamp # Never
        /\ ring[i].stamp % RingMinutes = i /\ ring[i].stamp <= now
        /\ ring[i].seen = {x \in Requests : stage[x] = "done" /\ at[x] = ring[i].stamp}
    <3>1. SlotExact(i)
      BY <2>2 DEF RingExact
    <3>2. ring[i].stamp \in -1..MaxTime
      BY <2>2 DEF TypeOK
    <3>3. m <= ring[i].stamp
      BY <2>1, <3>1 DEF SlotExact
    <3>4. ring[i].stamp # Never /\ ring[i].stamp \in Nat
      BY <2>1, <3>2, <3>3 DEF Never
    <3> QED BY <3>1, <3>3, <3>4 DEF SlotExact
  <2>4. ring[i].stamp < m + RingMinutes
    <3> HIDE DEF m, i
    <3>1. now \in Nat
      BY DEF TypeOK
    <3> QED BY <2>1, <2>3, <3>1
  <2>5. ring[i].stamp = m
    <3> DEFINE b == ring[i].stamp
    <3>1. b \in Nat /\ m <= b /\ b < m + RingMinutes /\ m % RingMinutes = b % RingMinutes
      BY <2>3, <2>4
    <3> HIDE DEF b, m
    <3>2. m = b
      BY <2>1, <3>1, SlotsApart
    <3> QED BY <3>2 DEF b
  <2>6. r \in ring[i].seen
    BY <2>1, <2>3, <2>5
  <2>7. m \in from..(to - 1)
    BY <2>1 DEF TypeOK
  <2> QED BY <2>5, <2>6, <2>7 DEF Sum
<1> QED BY <1>1, <1>2

LEMMA RingIsSummed ==
  ASSUME TypeOK, RingExact
  PROVE  CountsAreExact
<1>1. now \in Int /\ started \in Int
  BY DEF TypeOK
<1>2. Current = InMinutes(now - Window, now)
  BY <1>1, SumIsExact DEF Current
<1>3. ASSUME Window + BaselineMinutes < RingMinutes, Covered > 0
      PROVE  Usual = InMinutes(now - Window - Covered, now - Window)
  <2>1. Covered \in Int /\ Covered <= BaselineMinutes
    BY <1>1 DEF Covered
  <2>2. /\ now - Window - Covered \in Int /\ now - Window \in Int
        /\ now - RingMinutes < now - Window - Covered /\ now - Window <= now
    BY <1>1, <1>3, <2>1
  <2> QED BY <2>2, SumIsExact DEF Usual
<1> QED BY <1>2, <1>3 DEF CountsAreExact

(* A request counted in its slot.                                          *)
LEMMA WriteKeepsRing ==
  ASSUME TypeOK, RingExact, NEW r \in Requests, Write(r)
  PROVE  RingExact'
<1> DEFINE i == at[r] % RingMinutes
<1>1. /\ stage[r] = "served" /\ stage' = [stage EXCEPT ![r] = "done"]
      /\ ring' = [ring EXCEPT ![i] = CountedIn(@, r)]
      /\ UNCHANGED <<now, at>>
  BY DEF Write
<1>2. at[r] \in Nat /\ at[r] <= now
  BY DEF TypeOK, RingExact
<1>3. i \in 0..(RingMinutes - 1)
  BY <1>2
<1>4. \A x \in Requests : stage'[x] = "done" <=> stage[x] = "done" \/ x = r
  BY <1>1 DEF TypeOK
<1>5. stage[r] # "done"
  BY <1>1
<1>6. SlotExact(i)'
  <2> DEFINE s == ring[i]
             t == ring'[i]
  <2>1. s.stamp \in -1..MaxTime /\ SlotExact(i)
    BY <1>3 DEF TypeOK, RingExact
  <2>2. t = CountedIn(s, r)
    BY <1>1, <1>3 DEF TypeOK
  <2>3. s = [stamp |-> s.stamp, seen |-> s.seen]
    BY <1>3 DEF TypeOK
  <2>4. /\ t.stamp = IF s.stamp > at[r] THEN s.stamp ELSE at[r]
        /\ t.seen = IF s.stamp > at[r] THEN s.seen
                    ELSE IF s.stamp = at[r] THEN s.seen \cup {r} ELSE {r}
    BY <1>2, <2>1, <2>2, <2>3 DEF CountedIn
  <2>5. t.stamp # Never => t.stamp % RingMinutes = i /\ t.stamp <= now
    BY <1>2, <2>1, <2>4 DEF SlotExact
  <2>6. \A x \in Requests :
          stage'[x] = "done" /\ at[x] % RingMinutes = i => at[x] <= t.stamp
    <3> SUFFICES ASSUME NEW x \in Requests, stage'[x] = "done", at[x] % RingMinutes = i
                 PROVE  at[x] <= t.stamp
      OBVIOUS
    <3>1. at[x] \in Nat
      BY DEF TypeOK
    <3>2. CASE x = r
      BY <1>2, <2>1, <2>4, <3>2
    <3>3. CASE x # r
      <4>1. at[x] <= s.stamp
        BY <1>4, <2>1, <3>3 DEF SlotExact
      <4> QED BY <1>2, <2>1, <2>4, <3>1, <4>1
    <3> QED BY <3>2, <3>3
  <2>7. t.seen = {x \in Requests : stage'[x] = "done" /\ at[x] = t.stamp}
    <3>1. s.seen = {x \in Requests : stage[x] = "done" /\ at[x] = s.stamp}
      BY <2>1 DEF SlotExact
    <3>2. CASE s.stamp > at[r]
      BY <1>2, <1>4, <2>1, <2>4, <3>1, <3>2
    <3>3. CASE s.stamp = at[r]
      BY <1>2, <1>4, <2>1, <2>4, <3>1, <3>3
    <3>4. CASE s.stamp < at[r]
      <4>1. \A x \in Requests : stage[x] = "done" => at[x] # at[r]
        <5> SUFFICES ASSUME NEW x \in Requests, stage[x] = "done", at[x] = at[r] PROVE FALSE
          OBVIOUS
        <5>1. at[x] <= s.stamp
          BY <2>1 DEF SlotExact
        <5> QED BY <1>2, <2>1, <3>4, <5>1
      <4>2. t.seen = {r} /\ t.stamp = at[r]
        <5>1. ~(s.stamp > at[r]) /\ s.stamp # at[r]
          BY <1>2, <2>1, <3>4
        <5> HIDE DEF s, t
        <5> QED BY <2>4, <5>1
      <4>3. \A x \in Requests : (stage'[x] = "done" /\ at[x] = at[r]) <=> x = r
        BY <1>4, <4>1
      <4> HIDE DEF t, s, i
      <4> QED BY <4>2, <4>3
    <3>5. s.stamp > at[r] \/ s.stamp = at[r] \/ s.stamp < at[r]
      BY <1>2, <2>1
    <3> HIDE DEF s, t, i
    <3> QED BY <3>2, <3>3, <3>4, <3>5
  <2> QED BY <1>1, <2>5, <2>6, <2>7 DEF SlotExact
<1>7. ASSUME NEW j \in 0..(RingMinutes - 1), j # i PROVE SlotExact(j)'
  <2>1. ring'[j] = ring[j] /\ SlotExact(j)
    BY <1>1, <1>7 DEF TypeOK, RingExact
  <2>2. at[r] # ring[j].stamp
    BY <1>2, <1>7, <2>1 DEF SlotExact, Never
  <2> QED BY <1>1, <1>4, <1>7, <2>1, <2>2 DEF SlotExact
<1> QED BY <1>1, <1>6, <1>7 DEF RingExact

LEMMA RingStays ==
  ASSUME TypeOK, RingExact, now' \in Nat, now' >= now, UNCHANGED <<ring, answer>>,
         \/ UNCHANGED <<stage, at>>
         \/ \E r \in Requests : Arrive(r)
  PROVE  RingExact'
<1>1. CASE UNCHANGED <<stage, at>>
  <2>1. ASSUME NEW i \in 0..(RingMinutes - 1) PROVE SlotExact(i)'
    <3>1. SlotExact(i) /\ ring'[i] = ring[i]
      BY <2>1 DEF RingExact
    <3>2. ring[i].stamp \in Int /\ now \in Int
      BY <2>1 DEF TypeOK
    <3>3. ring[i].stamp <= now => ring[i].stamp <= now'
      BY <3>2
    <3> QED BY <1>1, <3>1, <3>3 DEF SlotExact
  <2>2. \A r \in Requests : at[r] <= now /\ at[r] \in Int /\ now \in Int
    BY DEF RingExact, TypeOK
  <2>3. \A r \in Requests : at[r] <= now'
    BY <2>2
  <2> QED BY <1>1, <2>1, <2>3 DEF RingExact
<1>2. ASSUME NEW r \in Requests, Arrive(r) PROVE RingExact'
  <2>1. /\ stage[r] = "out" /\ now' = now
        /\ stage' = [stage EXCEPT ![r] = "served"] /\ at' = [at EXCEPT ![r] = now]
    BY <1>2 DEF Arrive
  <2>2. \A x \in Requests :
          /\ stage'[x] = "done" <=> stage[x] = "done"
          /\ stage[x] = "done" => at'[x] = at[x]
          /\ at'[x] <= now
    BY <2>1 DEF TypeOK, RingExact
  <2> QED BY <2>1, <2>2 DEF RingExact, SlotExact
<1> QED BY <1>1, <1>2

-----------------------------------------------------------------------------
(* The triggers.                                                           *)

(* A trigger that is clear was found before it became so, or the clock is  *)
(* at its bound, where it is checked over and over.                        *)
ClearAfterFound ==
  /\ checked <= now
  /\ \A id \in DOMAIN states :
       /\ found[id] <= checked /\ states[id] <= checked
       /\ states[id] # Never => found[id] < states[id] \/ states[id] = MaxTime

(* What a check does to the triggers.                                      *)
LEMMA CheckStates ==
  ASSUME TypeOK, Check
  PROVE  /\ Finds \subseteq Ids
         /\ Over(Finds) \subseteq DOMAIN states
         /\ DOMAIN states' = (DOMAIN states \cup Finds) \ Over(Finds)
         /\ DOMAIN found' = DOMAIN states'
         /\ \A id \in DOMAIN states' :
              /\ states'[id] = ClearSince(id, Finds)
              /\ found'[id] = IF id \in Finds THEN now ELSE found[id]
              /\ id \notin Finds => id \in DOMAIN states
         /\ states' = [id \in DOMAIN states' |-> states'[id]]
         /\ found' = [id \in DOMAIN states' |-> found'[id]]
<1> DEFINE left == (DOMAIN states \cup Finds) \ Over(Finds)
<1>1. Finds \subseteq Ids
  BY DEF Finds, TrafficFinds, Ids
<1>2. Over(Finds) \subseteq DOMAIN states
  BY DEF Over
<1>3. /\ states' = [id \in left |-> ClearSince(id, Finds)]
      /\ found' = [id \in left |-> IF id \in Finds THEN now ELSE found[id]]
  BY DEF Check
<1> HIDE DEF left
<1>4. DOMAIN states' = left /\ DOMAIN found' = left
  BY <1>3
<1>5. \A id \in left : id \notin Finds => id \in DOMAIN states
  BY DEF left
<1>6. states' = [id \in left |-> states'[id]] /\ found' = [id \in left |-> found'[id]]
  BY <1>3
<1>7. left = (DOMAIN states \cup Finds) \ Over(Finds)
  BY DEF left
<1> HIDE DEF Finds, Over, ClearSince
<1> QED BY <1>1, <1>2, <1>3, <1>4, <1>5, <1>6, <1>7

LEMMA CheckKeepsClear ==
  ASSUME TypeOK, ClearAfterFound, Check
  PROVE  ClearAfterFound'
<1>1. /\ checked < now \/ now = MaxTime
      /\ checked' = now /\ now' = now /\ now \in 0..MaxTime /\ checked \in 0..MaxTime
  BY DEF Check, TypeOK
<1>2. ASSUME NEW id \in DOMAIN states'
      PROVE  /\ found'[id] <= now /\ states'[id] <= now
             /\ states'[id] # Never => found'[id] < states'[id] \/ states'[id] = MaxTime
  <2>1. CASE id \in Finds
    BY <1>1, <1>2, <2>1, CheckStates DEF ClearSince, Never
  <2>2. CASE id \notin Finds
    <3>1. id \in DOMAIN states /\ found'[id] = found[id]
      BY <1>2, <2>2, CheckStates
    <3>2. states'[id] = IF states[id] = Never THEN now ELSE states[id]
      BY <1>2, <2>2, CheckStates DEF ClearSince
    <3>3. found[id] \in 0..MaxTime /\ states[id] \in -1..MaxTime
      BY <3>1 DEF TypeOK
    <3>4. found[id] <= checked /\ states[id] <= checked /\ checked <= now
      BY <3>1 DEF ClearAfterFound
    <3>5. CASE states[id] = Never
      BY <1>1, <3>1, <3>2, <3>3, <3>4, <3>5
    <3>6. CASE states[id] # Never
      <4>1. found[id] < states[id] \/ states[id] = MaxTime
        BY <3>1, <3>6 DEF ClearAfterFound
      <4> QED BY <1>1, <3>1, <3>2, <3>3, <3>4, <3>6, <4>1
    <3> QED BY <3>5, <3>6
  <2> QED BY <2>1, <2>2
<1>3. checked' <= now'
  BY <1>1
<1> QED BY <1>1, <1>2, <1>3 DEF ClearAfterFound

(* A trigger that goes was clear for a window.                             *)
LEMMA OverIsQuiet ==
  ASSUME TypeOK, ClearAfterFound, Check,
         NEW id \in DOMAIN states, id \notin DOMAIN states'
  PROVE  now - found[id] > Window
<1>1. id \in Over(Finds)
  BY CheckStates
<1>2. states[id] # Never /\ now - states[id] >= Window
  BY <1>1 DEF Over
<1>3. found[id] \in 0..MaxTime /\ states[id] \in -1..MaxTime /\ now \in 0..MaxTime
  BY DEF TypeOK
<1>4. found[id] < states[id] \/ states[id] = MaxTime
  BY <1>2 DEF ClearAfterFound
<1> QED BY <1>2, <1>3, <1>4

-----------------------------------------------------------------------------
(* Type correctness.                                                       *)

LEMMA SeqFacts ==
  ASSUME NEW S, NEW q \in Seq(S)
  PROVE  /\ \A x \in S : Append(q, x) \in Seq(S) /\ Len(Append(q, x)) = Len(q) + 1
         /\ q # <<>> => /\ Head(q) \in S /\ Tail(q) \in Seq(S)
                        /\ Len(Tail(q)) = Len(q) - 1
         /\ \A p \in Seq(S) : p \o q \in Seq(S)
         /\ ToSet(q) \subseteq S
         /\ Len(q) \in Nat
BY DEF ToSet

LEMMA CheckKeepsTypes ==
  ASSUME TypeOK, Check
  PROVE  TypeOK'
<1>1. /\ now \in 0..MaxTime /\ checked' = now
      /\ UNCHANGED <<now, dropped, requests, ring, started, jobs, delivering>>
  BY DEF Check, TypeOK
<1>2. out' \in Seq(Message)
  <2>1. Finds \ DOMAIN states \in SUBSET Ids /\ Over(Finds) \in SUBSET Ids
    BY CheckStates DEF TypeOK
  <2>2. out' = Messages(Finds \ DOMAIN states, "firing") \o Messages(Over(Finds), "resolved")
    BY DEF Check
  <2>3. /\ Messages(Finds \ DOMAIN states, "firing") \in Seq(Message)
        /\ Messages(Over(Finds), "resolved") \in Seq(Message)
    <3> HIDE DEF Finds, Over
    <3> QED BY <1>1, <2>1, MessagesType
  <2> HIDE DEF Messages, Message, Finds, Over
  <2> QED BY <2>2, <2>3, SeqFacts
<1>3. waiting' \subseteq Message
  <2>1. waiting' = waiting \cup ToSet(out') /\ waiting \subseteq Message
    BY DEF Check, TypeOK
  <2>2. ToSet(out') \subseteq Message
    <3> HIDE DEF Message
    <3> QED BY <1>2, SeqFacts
  <2> QED BY <2>1, <2>2
<1>4. /\ DOMAIN states' \subseteq Ids /\ \A id \in DOMAIN states' : states'[id] \in -1..MaxTime
  <2>1. DOMAIN states' \subseteq Ids
    BY CheckStates DEF TypeOK
  <2>2. ASSUME NEW id \in DOMAIN states' PROVE states'[id] \in -1..MaxTime
    <3>1. states'[id] = ClearSince(id, Finds) /\ (id \notin Finds => id \in DOMAIN states)
      BY <2>2, CheckStates
    <3> QED BY <1>1, <3>1 DEF ClearSince, Never, TypeOK
  <2> QED BY <2>1, <2>2
<1>5. found' \in [DOMAIN states' -> 0..MaxTime]
  <2>1. ASSUME NEW id \in DOMAIN states' PROVE found'[id] \in 0..MaxTime
    <3>1. /\ found'[id] = IF id \in Finds THEN now ELSE found[id]
          /\ id \notin Finds => id \in DOMAIN states
      BY <2>1, CheckStates
    <3> QED BY <1>1, <3>1 DEF TypeOK
  <2>2. found' = [id \in DOMAIN states' |-> found'[id]]
    BY CheckStates
  <2> QED BY <2>1, <2>2
<1>6. told' \in 0..MaxDrops /\ toldAt' \in -1..MaxTime
  BY <1>1 DEF Check, LastDrop, TypeOK
<1> QED BY <1>1, <1>2, <1>3, <1>4, <1>5, <1>6 DEF TypeOK, requests

LEMMA DeliveryKeepsTypes ==
  ASSUME TypeOK, Enqueue \/ Deliver \/ Delivered
  PROVE  TypeOK' /\ UNCHANGED <<now, dropped, requests, ring, started, checked, states,
                                told, toldAt, found>>
<1>1. UNCHANGED <<now, dropped, requests, ring, started, checked, states, told, toldAt, found>>
  BY DEF Enqueue, Deliver, Delivered
<1>2. out \in Seq(Message) /\ jobs \in Seq(Message) /\ Len(jobs) <= QueueSize
      /\ delivering \in {<<>>} \cup {<<m>> : m \in Message} /\ waiting \subseteq Message
  BY DEF TypeOK
<1>3. /\ out' \in Seq(Message) /\ jobs' \in Seq(Message) /\ Len(jobs') <= QueueSize
      /\ delivering' \in {<<>>} \cup {<<m>> : m \in Message} /\ waiting' \subseteq Message
  <2> HIDE DEF Message
  <2>1. CASE Enqueue
    <3>1. /\ out # <<>> /\ out' = Tail(out) /\ UNCHANGED delivering
          /\ waiting' \subseteq waiting
          /\ jobs' = jobs \/ (Len(jobs) < QueueSize /\ jobs' = Append(jobs, Head(out)))
      BY <2>1 DEF Enqueue, HasRoom
    <3>2. Head(out) \in Message /\ out' \in Seq(Message)
      BY <1>2, <3>1, SeqFacts
    <3>3. Append(jobs, Head(out)) \in Seq(Message) /\ Len(Append(jobs, Head(out))) = Len(jobs) + 1
          /\ Len(jobs) \in Nat
      BY <1>2, <3>2, SeqFacts
    <3>4. jobs' \in Seq(Message) /\ Len(jobs') <= QueueSize
      <4>1. CASE jobs' = jobs
        BY <1>2, <4>1
      <4>2. CASE Len(jobs) < QueueSize /\ jobs' = Append(jobs, Head(out))
        <5>1. jobs' \in Seq(Message) /\ Len(jobs') = Len(jobs) + 1
          BY <3>3, <4>2
        <5>2. QueueSize \in Nat
          OBVIOUS
        <5> QED BY <3>3, <4>2, <5>1, <5>2
      <4> QED BY <3>1, <4>1, <4>2
    <3> QED BY <1>2, <3>1, <3>2, <3>4
  <2>2. CASE Deliver
    <3>1. /\ jobs # <<>> /\ jobs' = Tail(jobs) /\ delivering' = <<Head(jobs)>>
          /\ UNCHANGED <<out, waiting>>
      BY <2>2 DEF Deliver
    <3>2. Head(jobs) \in Message /\ Tail(jobs) \in Seq(Message)
          /\ Len(Tail(jobs)) = Len(jobs) - 1 /\ Len(jobs) \in Nat
      BY <1>2, <3>1, SeqFacts
    <3> QED BY <1>2, <3>1, <3>2
  <2>3. CASE Delivered
    BY <1>2, <2>3 DEF Delivered
  <2> QED BY <2>1, <2>2, <2>3
<1> QED BY <1>1, <1>3 DEF TypeOK, requests

LEMMA WorldKeepsTypes ==
  ASSUME TypeOK, Tick \/ LogDrops \/ \E r \in Requests : Arrive(r) \/ Write(r)
  PROVE  TypeOK'
<1>1. CASE Tick
  <2>1. now' \in 0..MaxTime /\ UNCHANGED <<dropped, requests, watcher>>
    <3>1. now' = now + 1 /\ now < MaxTime /\ UNCHANGED <<dropped, requests, watcher>>
      BY <1>1 DEF Tick
    <3>2. now \in 0..MaxTime
      BY DEF TypeOK
    <3> QED BY <3>1, <3>2
  <2> QED BY <2>1 DEF TypeOK, requests, watcher
<1>2. CASE LogDrops
  <2>1. dropped' \in 0..MaxDrops /\ UNCHANGED <<now, requests, watcher>>
    <3>1. dropped' = dropped + 1 /\ dropped < MaxDrops /\ UNCHANGED <<now, requests, watcher>>
      BY <1>2 DEF LogDrops
    <3>2. dropped \in 0..MaxDrops
      BY DEF TypeOK
    <3> QED BY <3>1, <3>2
  <2> QED BY <2>1 DEF TypeOK, requests, watcher
<1>3. ASSUME NEW r \in Requests, Arrive(r) PROVE TypeOK'
  BY <1>3 DEF TypeOK, Arrive, watcher
<1>4. ASSUME NEW r \in Requests, Write(r) PROVE TypeOK'
  <2> DEFINE i == at[r] % RingMinutes
             Slots == [stamp: -1..MaxTime, seen: SUBSET Requests]
  <2>1. at[r] \in 0..MaxTime
    BY DEF TypeOK
  <2>2. i \in 0..(RingMinutes - 1)
    BY <2>1
  <2>3. ring \in [0..(RingMinutes - 1) -> Slots]
    BY DEF TypeOK
  <2>4. CountedIn(ring[i], r) \in Slots
    <3>1. ring[i] \in Slots
      BY <2>2, <2>3
    <3> QED BY <2>1, <3>1 DEF CountedIn
  <2>5. ring' = [ring EXCEPT ![i] = CountedIn(ring[i], r)]
    BY <1>4, <2>2, <2>3 DEF Write
  <2>6. ring' \in [0..(RingMinutes - 1) -> Slots]
    <3> HIDE DEF i, Slots, CountedIn
    <3> QED BY <2>2, <2>3, <2>4, <2>5
  <2>7. stage' \in [Requests -> {"out", "served", "done"}]
    <3>1. stage' = [stage EXCEPT ![r] = "done"]
      BY <1>4 DEF Write
    <3> QED BY <3>1 DEF TypeOK
  <2>8. answer' \in [Requests -> Answers \cup {"none"}]
    <3>1. PICK a \in Answers : answer' = [answer EXCEPT ![r] = a]
      BY <1>4 DEF Write
    <3> QED BY <3>1 DEF TypeOK
  <2>9. UNCHANGED <<now, dropped, at, started, checked, states, told, toldAt, out, jobs,
                    delivering, waiting, found>>
    BY <1>4 DEF Write
  <2> QED BY <2>6, <2>7, <2>8, <2>9 DEF TypeOK
<1> QED BY <1>1, <1>2, <1>3, <1>4

-----------------------------------------------------------------------------
IInv == TypeOK /\ RingExact /\ ClearAfterFound

LEMMA InitHolds == Init => IInv
<1> SUFFICES ASSUME Init PROVE IInv
  OBVIOUS
<1>1. DOMAIN states = {} /\ DOMAIN found = {}
  BY DEF Init
<1>2. found \in [DOMAIN states -> 0..MaxTime]
  BY <1>1 DEF Init
<1>3. /\ now = 0 /\ dropped = 0 /\ started = 0 /\ checked = 0 /\ told = 0 /\ toldAt = Never
      /\ at = [r \in Requests |-> 0] /\ stage = [r \in Requests |-> "out"]
      /\ answer = [r \in Requests |-> "none"]
      /\ ring = [i \in 0..(RingMinutes - 1) |-> EmptySlot]
      /\ waiting = {} /\ delivering = <<>>
  BY DEF Init
<1>4. out \in Seq(Message) /\ jobs \in Seq(Message) /\ Len(jobs) <= QueueSize
  BY DEF Init
<1>5. TypeOK
  BY <1>1, <1>2, <1>3, <1>4 DEF TypeOK, EmptySlot, Never
<1>6. RingExact
  BY <1>3 DEF RingExact, SlotExact, EmptySlot, Never
<1>7. ClearAfterFound
  BY <1>1, <1>3 DEF ClearAfterFound
<1> QED BY <1>5, <1>6, <1>7 DEF IInv

LEMMA StepHolds ==
  ASSUME IInv, [Next]_vars
  PROVE  /\ IInv'
         /\ \A id \in DOMAIN states \ DOMAIN states' : now - found[id] > Window
<1> USE DEF IInv
<1>1. CASE Tick \/ LogDrops
  <2>1. /\ now \in Nat /\ now' \in Nat /\ now' >= now
        /\ UNCHANGED <<requests, ring, checked, states, found>>
    <3>1. now \in Nat
      BY DEF TypeOK
    <3>2. now' = now \/ now' = now + 1
      BY <1>1 DEF Tick, LogDrops
    <3>3. UNCHANGED <<requests, ring, checked, states, found>>
      BY <1>1 DEF Tick, LogDrops, watcher
    <3> QED BY <3>1, <3>2, <3>3
  <2>2. TypeOK' /\ RingExact'
    BY <1>1, <2>1, WorldKeepsTypes, RingStays DEF requests
  <2>3. ClearAfterFound'
    BY <2>1 DEF ClearAfterFound, TypeOK
  <2> QED BY <2>1, <2>2, <2>3
<1>2. ASSUME NEW r \in Requests, Arrive(r) PROVE IInv' /\ UNCHANGED states
  <2>1. UNCHANGED <<now, ring, answer, checked, states, found>>
    BY <1>2 DEF Arrive, watcher
  <2>2. now \in Nat /\ now' \in Nat /\ now' >= now
    BY <2>1 DEF TypeOK
  <2>3. TypeOK'
    BY <1>2, WorldKeepsTypes
  <2>4. RingExact'
    BY <1>2, <2>1, <2>2, RingStays
  <2>5. ClearAfterFound'
    BY <2>1 DEF ClearAfterFound
  <2> QED BY <2>1, <2>3, <2>4, <2>5
<1>3. ASSUME NEW r \in Requests, Write(r) PROVE IInv' /\ UNCHANGED states
  <2>1. UNCHANGED <<now, checked, states, found>>
    BY <1>3 DEF Write
  <2>2. TypeOK' /\ RingExact'
    BY <1>3, WorldKeepsTypes, WriteKeepsRing
  <2>3. ClearAfterFound'
    BY <2>1 DEF ClearAfterFound
  <2> QED BY <2>1, <2>2, <2>3
<1>4. CASE Check
  <2>1. UNCHANGED <<now, requests, ring>> /\ now \in Nat
    BY <1>4 DEF Check, TypeOK
  <2>2. TypeOK' /\ RingExact' /\ ClearAfterFound'
    BY <1>4, <2>1, CheckKeepsTypes, RingStays, CheckKeepsClear DEF requests
  <2> QED BY <1>4, <2>2, OverIsQuiet
<1>5. CASE Enqueue \/ Deliver \/ Delivered
  <2>1. TypeOK' /\ UNCHANGED <<now, requests, ring, checked, states, found>>
    BY <1>5, DeliveryKeepsTypes
  <2>2. RingExact'
    <3>1. now \in Nat /\ now' \in Nat /\ now' >= now
      BY <2>1 DEF TypeOK
    <3> QED BY <2>1, <3>1, RingStays DEF requests
  <2>3. ClearAfterFound'
    BY <2>1 DEF ClearAfterFound
  <2> QED BY <2>1, <2>2, <2>3
<1>6. CASE UNCHANGED vars
  <2>1. UNCHANGED <<now, dropped, requests, watcher>>
    BY <1>6 DEF vars
  <2>2. TypeOK' /\ RingExact' /\ ClearAfterFound' /\ UNCHANGED states
    BY <2>1 DEF TypeOK, RingExact, SlotExact, ClearAfterFound, requests, watcher
  <2> QED BY <2>2
<1> QED BY <1>1, <1>2, <1>3, <1>4, <1>5, <1>6 DEF Next

(* Every variable keeps its type, and what a check sums up out of the ring *)
(* is exactly the requests that came in those minutes, though the ring is  *)
(* used over and over and requests end in any order.                       *)
THEOREM WatcherCountsRight == Spec => []CountsAreSound
<1>1. IInv => CountsAreSound
  BY RingIsSummed DEF IInv, CountsAreSound
<1>2. IInv /\ [Next]_vars => IInv'
  BY StepHolds
<1> QED BY <1>1, <1>2, InitHolds, PTL DEF Spec

(* "Back to normal" is said only of a trigger that nothing was found about *)
(* for more than a window, however it came and went before.                *)
THEOREM NormalIsQuiet == Spec => ResolvedIsQuiet
<1>1. IInv /\ [Next]_vars =>
        /\ IInv'
        /\ [\A id \in DOMAIN states \ DOMAIN states' : now - found[id] > Window]_vars
  BY StepHolds
<1> QED BY <1>1, InitHolds, PTL DEF Spec, ResolvedIsQuiet
=============================================================================
