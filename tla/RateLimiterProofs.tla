-------------------------- MODULE RateLimiterProofs --------------------------
(***************************************************************************)
(* Theorems about RateLimiter, for every limit, window, initial capacity   *)
(* and number of keys and handlers. The ring of a key stands for the last  *)
(* requests of it that were let through (Agrees), whatever is evicted from *)
(* it, however it grows; a key none of whose requests was overtaken has    *)
(* them in order and far enough apart (Undisturbed), and from the two      *)
(* together follows what a client is promised.                             *)
(***************************************************************************)
EXTENDS RateLimiter, FiniteSetTheorems, SequenceTheorems, WellFoundedInduction,
        TLAPS

USE RateLimiterAssumption DEF Time

-----------------------------------------------------------------------------
(* The ring.                                                               *)

LEMMA ModRange ==
  ASSUME NEW a \in Nat, NEW n \in Nat \ {0}
  PROVE  a % n \in 0..(n - 1)
OBVIOUS

(* A function on 1..n is a sequence of length n.                           *)
LEMMA FunctionIsSeq ==
  ASSUME NEW S, NEW n \in Nat, NEW f \in [1..n -> S]
  PROVE  f \in Seq(S) /\ Len(f) = n
<1>1. f \in Seq(S)
  BY SeqDef
<1>2. DOMAIN f = 1..Len(f) /\ Len(f) \in Nat
  BY <1>1, LenProperties
<1>3. DOMAIN f = 1..n
  OBVIOUS
<1> QED BY <1>1, <1>2, <1>3

(* What a ring is made of, and how one is put together.                    *)
LEMMA RingParts ==
  ASSUME NEW e, RingOK(e)
  PROVE  /\ e.stamps \in Seq(Time) /\ Len(e.stamps) \in Nat \ {0}
         /\ e.start \in Nat /\ e.start < Len(e.stamps)
         /\ e.length \in Nat /\ e.length <= Len(e.stamps)
         /\ e.limit \in Limits /\ e.limit \in Nat /\ Len(e.stamps) <= e.limit
         /\ e.last \in Time
         /\ e = [stamps |-> e.stamps, start |-> e.start, length |-> e.length,
                 limit |-> e.limit, last |-> e.last]
<1> HIDE DEF Time
<1>1. e \in Entry
  BY DEF RingOK
<1>2. e.stamps \in Seq(Time) /\ e.start \in Nat /\ e.length \in Nat
      /\ e.limit \in Limits /\ e.last \in Time
  BY <1>1 DEF Entry
<1>3. e.limit \in Nat
  BY <1>2
<1>4. Len(e.stamps) \in Nat /\ Len(e.stamps) \in 1..e.limit
  BY <1>2, LenProperties DEF RingOK
<1>5. e.start < Len(e.stamps) /\ e.length <= Len(e.stamps)
  BY DEF RingOK
<1>6. e = [stamps |-> e.stamps, start |-> e.start, length |-> e.length,
           limit |-> e.limit, last |-> e.last]
  BY <1>1 DEF Entry
<1> QED BY <1>2, <1>3, <1>4, <1>5, <1>6

LEMMA RingFromParts ==
  ASSUME NEW s \in Seq(Time), NEW b \in Nat, NEW n \in Nat, NEW l \in Limits,
         NEW t \in Time, Len(s) \in 1..l, b < Len(s), n <= Len(s)
  PROVE  RingOK([stamps |-> s, start |-> b, length |-> n, limit |-> l, last |-> t])
<1> HIDE DEF Time
<1> DEFINE r == [stamps |-> s, start |-> b, length |-> n, limit |-> l, last |-> t]
<1>1. r \in Entry
  BY DEF Entry
<1>2. r.stamps = s /\ r.start = b /\ r.length = n /\ r.limit = l
  OBVIOUS
<1> HIDE DEF r
<1>3. RingOK(r)
  BY <1>1, <1>2 DEF RingOK
<1> QED BY <1>3 DEF r

(* Every index is one of the ring, and what lies there a time.             *)
LEMMA SlotInRing ==
  ASSUME NEW e, RingOK(e), NEW i \in Nat
  PROVE  Slot(e, i) \in 1..Len(e.stamps) /\ At(e, i) \in Time
<1>1. e.start + i \in Nat /\ Len(e.stamps) \in Nat \ {0} /\ e.stamps \in Seq(Time)
  BY RingParts
<1>2. (e.start + i) % Len(e.stamps) \in 0..(Len(e.stamps) - 1)
  BY <1>1, ModRange
<1>3. Slot(e, i) \in 1..Len(e.stamps)
  BY <1>1, <1>2 DEF Slot
<1>4. At(e, i) \in Time
  <2> HIDE DEF Time
  <2> QED BY <1>1, <1>3, ElementOfSeq DEF At
<1> QED BY <1>3, <1>4

LEMMA FreshOK ==
  ASSUME NEW l \in Limits
  PROVE  RingOK(Fresh(l)) /\ Fresh(l).limit = l
<1> DEFINE n == Lesser(l, Initial)
           f == [i \in 1..n |-> 0]
<1>1. n \in Nat /\ n \in 1..l
  BY DEF Lesser
<1>2. f \in [1..n -> Time]
  OBVIOUS
<1> HIDE DEF n
<1>3. f \in Seq(Time) /\ Len(f) = n
  <2> HIDE DEF f
  <2> QED BY <1>1, <1>2, FunctionIsSeq
<1>4. Fresh(l) = [stamps |-> f, start |-> 0, length |-> 0, limit |-> l, last |-> 0]
  BY DEF Fresh, n
<1> HIDE DEF f
<1>5. 0 \in Time /\ Len(f) \in 1..l /\ 0 < Len(f)
  BY <1>1, <1>3
<1>6. RingOK(Fresh(l))
  BY <1>3, <1>4, <1>5, RingFromParts
<1> QED BY <1>4, <1>6

LEMMA ExpiredRange ==
  ASSUME NEW e, RingOK(e), NEW b
  PROVE  Expired(e, b) \in 0..e.length
<1> DEFINE m == e.length - 1
           T == {i \in 0..m : \A j \in 0..i : At(e, j) <= b}
<1>1. e.length \in Nat /\ m \in Int
  BY RingParts
<1>2. IsFiniteSet(0..m) /\ Cardinality(0..m) = e.length
  <2> HIDE DEF T, m
  <2>1. IsFiniteSet(0..m) /\ Cardinality(0..m) = IF 0 > m THEN 0 ELSE m - 0 + 1
    BY <1>1, FS_Interval
  <2> QED BY <1>1, <2>1 DEF m
<1>3. T \subseteq 0..m
  OBVIOUS
<1>4. Expired(e, b) = Cardinality(T)
  BY DEF Expired
<1> HIDE DEF T, m
<1>5. IsFiniteSet(T) /\ Cardinality(T) <= Cardinality(0..m)
  BY <1>2, <1>3, FS_Subset
<1>6. Cardinality(T) \in Nat
  BY <1>5, FS_CardinalityType
<1> QED BY <1>1, <1>2, <1>4, <1>5, <1>6

LEMMA EvictedOK ==
  ASSUME NEW e, RingOK(e), NEW b
  PROVE  RingOK(Evicted(e, b)) /\ Evicted(e, b).limit = e.limit
<1> DEFINE d == Expired(e, b)
           s == (e.start + d) % Len(e.stamps)
<1>1. d \in 0..e.length
  BY ExpiredRange
<1>2. Evicted(e, b) = [e EXCEPT !.start = s, !.length = e.length - d]
  BY DEF Evicted
<1> HIDE DEF d
<1>3. e.start + d \in Nat /\ e.length - d \in Nat /\ e.length - d <= Len(e.stamps)
  BY <1>1, RingParts, SMTT(40)
<1>4. s \in 0..(Len(e.stamps) - 1)
  BY <1>3, RingParts, ModRange
<1> HIDE DEF s
<1>5. Evicted(e, b) = [stamps |-> e.stamps, start |-> s, length |-> e.length - d,
                       limit |-> e.limit, last |-> e.last]
  BY <1>2, RingParts
<1>6. s \in Nat /\ s < Len(e.stamps) /\ Len(e.stamps) \in 1..e.limit
  BY <1>4, RingParts
<1>7. RingOK(Evicted(e, b))
  BY <1>3, <1>5, <1>6, RingParts, RingFromParts
<1> QED BY <1>5, <1>7

(* Growing makes room for one more stamp while the limit allows one.       *)
LEMMA GrownOK ==
  ASSUME NEW e, RingOK(e), e.length < e.limit
  PROVE  RingOK(Grown(e)) /\ Grown(e).length < Len(Grown(e).stamps)
<1>1. CASE e.length < Len(e.stamps)
  BY <1>1 DEF Grown
<1>2. CASE ~(e.length < Len(e.stamps))
  <2> DEFINE n == Lesser(2 * Len(e.stamps), e.limit)
             f == [i \in 1..n |-> IF i <= e.length THEN At(e, i - 1) ELSE 0]
  <2>1. e.length = Len(e.stamps)
    BY <1>2, RingParts
  <2>2. n \in Nat /\ n \in 1..e.limit /\ e.length < n
    BY <2>1, RingParts DEF Lesser
  <2>3. Grown(e) = [e EXCEPT !.stamps = f, !.start = 0]
    BY <1>2 DEF Grown
  <2> HIDE DEF n
  <2>4. ASSUME NEW i \in 1..n
        PROVE  At(e, i - 1) \in Time
    <3>1. i - 1 \in Nat
      BY <2>2
    <3> QED BY <3>1, SlotInRing
  <2>5. f \in [1..n -> Time]
    BY <2>4
  <2> HIDE DEF f
  <2>6. f \in Seq(Time) /\ Len(f) = n
    BY <2>2, <2>5, FunctionIsSeq
  <2>7. Grown(e) = [stamps |-> f, start |-> 0, length |-> e.length,
                    limit |-> e.limit, last |-> e.last]
    BY <2>3, RingParts
  <2>8. /\ Len(f) \in 1..e.limit /\ 0 < Len(f) /\ e.length <= Len(f) /\ 0 \in Nat
        /\ e.length \in Nat /\ e.limit \in Limits /\ e.last \in Time
    BY <2>2, <2>6, RingParts, SMTT(40)
  <2>9. RingOK(Grown(e))
    BY <2>6, <2>7, <2>8, RingFromParts
  <2> QED BY <2>2, <2>6, <2>7, <2>9
<1> QED BY <1>1, <1>2

LEMMA PushOK ==
  ASSUME NEW e, RingOK(e), e.length < e.limit, NEW t \in Time
  PROVE  RingOK(Push(e, t))
<1> DEFINE g == Grown(e)
           s == Slot(g, g.length)
           f == [g.stamps EXCEPT ![s] = t]
<1>1. RingOK(g) /\ g.length < Len(g.stamps)
  BY GrownOK
<1>2. Push(e, t) = [g EXCEPT !.stamps[s] = t, !.length = @ + 1]
  BY DEF Push
<1> HIDE DEF g
<1>3. s \in 1..Len(g.stamps)
  BY <1>1, RingParts, SlotInRing
<1>4. Push(e, t) = [stamps |-> f, start |-> g.start, length |-> g.length + 1,
                    limit |-> g.limit, last |-> g.last]
  BY <1>1, <1>2, RingParts
<1> HIDE DEF s
<1>5. f \in Seq(Time) /\ Len(f) = Len(g.stamps)
  <2> HIDE DEF Time
  <2> QED BY <1>1, <1>3, RingParts, ExceptSeq
<1> HIDE DEF f
<1>6. /\ g.length + 1 \in Nat /\ g.length + 1 <= Len(f) /\ Len(f) \in 1..g.limit
      /\ g.start < Len(f)
  <2>1. /\ g.length \in Nat /\ Len(g.stamps) \in Nat \ {0} /\ g.start < Len(g.stamps)
        /\ g.limit \in Nat /\ Len(g.stamps) <= g.limit
    BY <1>1, RingParts
  <2> QED BY <1>1, <1>5, <2>1
<1>7. g.start \in Nat /\ g.limit \in Limits /\ g.last \in Time
  BY <1>1, RingParts
<1> QED BY <1>4, <1>5, <1>6, <1>7, RingFromParts

(* The entry a request is decided with, before it is counted.              *)
LEMMA EntryForOK ==
  ASSUME TypeOK, NEW q \in Request
  PROVE  RingOK(EntryFor(q)) /\ EntryFor(q).limit = q.limit
<1> DEFINE e == IF q.key \in DOMAIN entries /\ entries[q.key].limit = q.limit
                THEN entries[q.key] ELSE Fresh(q.limit)
           f == [e EXCEPT !.last = q.at]
<1>1. q.limit \in Limits /\ q.at \in Time
  BY DEF Request
<1>2. RingOK(e) /\ e.limit = q.limit
  BY <1>1, FreshOK DEF TypeOK
<1>3. EntryFor(q) = Evicted(f, q.at - Window)
  BY DEF EntryFor
<1> HIDE DEF e
<1>4. f = [stamps |-> e.stamps, start |-> e.start, length |-> e.length,
           limit |-> e.limit, last |-> q.at]
  <2>1. e = [stamps |-> e.stamps, start |-> e.start, length |-> e.length,
             limit |-> e.limit, last |-> e.last]
    BY <1>2, RingParts
  <2> QED BY <2>1
<1> HIDE DEF f
<1>5. Len(e.stamps) \in 1..e.limit
  BY <1>2, RingParts
<1>6. RingOK(f)
  BY <1>1, <1>2, <1>4, <1>5, RingParts, RingFromParts
<1>7. f.limit = q.limit
  BY <1>2, <1>4
<1> QED BY <1>3, <1>6, <1>7, EvictedOK

-----------------------------------------------------------------------------
(* The shard.                                                              *)

LEMMA KeysFinite ==
  ASSUME TypeOK
  PROVE  IsFiniteSet(DOMAIN entries) /\ Cardinality(DOMAIN entries) \in Nat
<1>1. IsFiniteSet(DOMAIN entries)
  BY FS_Subset DEF TypeOK
<1> QED BY <1>1, FS_CardinalityType

LEMMA ExceededKeeps ==
  ASSUME TypeOK, MemoryBounded, NEW w \in Workers, Exceeded(w)
  PROVE  TypeOK' /\ MemoryBounded'
<1> DEFINE q == serving[w]
           e == EntryFor(q)
<1>1. q \in Request
  BY DEF Exceeded, TypeOK
<1>2. RingOK(e) /\ e.limit = q.limit /\ q.at \in Time /\ q.key \in Keys
  BY <1>1, EntryForOK DEF Request
<1>3. serving' \in [Workers -> Request \cup {Idle}] /\ UNCHANGED <<now, limit>>
  BY DEF Exceeded, Answered, TypeOK
<1>4. CASE UNCHANGED entries
  BY <1>3, <1>4 DEF TypeOK, MemoryBounded
<1>5. ASSUME NEW x, RingOK(x), Store(q.key, x), ~Full(q)
      PROVE  TypeOK' /\ MemoryBounded'
  <2>1. DOMAIN entries' = DOMAIN entries \cup {q.key}
    BY <1>5 DEF Store
  <2>2. \A k \in DOMAIN entries' : RingOK(entries'[k])
    BY <1>5, <2>1 DEF Store, TypeOK
  <2>3. DOMAIN entries' \subseteq Keys
    BY <1>2, <2>1 DEF TypeOK
  <2>4. Cardinality(DOMAIN entries') <= MaxKeys
    <3> DEFINE D == DOMAIN entries
    <3>1. IsFiniteSet(D) /\ Cardinality(D) \in Nat
      BY KeysFinite
    <3>2. Cardinality(D) <= MaxKeys /\ (q.key \notin D => ~(Cardinality(D) >= MaxKeys))
      BY <1>5 DEF MemoryBounded, Full
    <3> HIDE DEF D, q
    <3>3. Cardinality(D \cup {q.key}) = IF q.key \in D THEN Cardinality(D) ELSE Cardinality(D) + 1
      BY <3>1, FS_AddElement
    <3>4. Cardinality(D \cup {q.key}) <= MaxKeys
      BY <3>1, <3>2, <3>3
    <3> QED BY <2>1, <3>4 DEF D
  <2> QED BY <1>3, <2>2, <2>3, <2>4 DEF TypeOK, MemoryBounded
<1>6. UNCHANGED entries \/ (~Full(q) /\ e.length >= q.limit /\ Store(q.key, e))
      \/ (~Full(q) /\ e.length < q.limit /\ Store(q.key, Push(e, q.at)))
  BY DEF Exceeded
<1> HIDE DEF q, e
<1>7. CASE ~Full(q) /\ Store(q.key, e)
  BY <1>2, <1>5, <1>7
<1>8. CASE ~Full(q) /\ e.length < q.limit /\ Store(q.key, Push(e, q.at))
  <2>1. RingOK(Push(e, q.at))
    BY <1>2, <1>8, PushOK
  <2> QED BY <1>5, <1>8, <2>1
<1> QED BY <1>4, <1>6, <1>7, <1>8

LEMMA SweepKeeps ==
  ASSUME TypeOK, MemoryBounded, Sweep
  PROVE  TypeOK' /\ MemoryBounded'
<1>1. DOMAIN entries' \subseteq DOMAIN entries
  BY DEF Sweep
<1>2. \A k \in DOMAIN entries' : entries'[k] = entries[k]
  BY DEF Sweep
<1>3. IsFiniteSet(DOMAIN entries)
  BY FS_Subset DEF TypeOK
<1>4. /\ Cardinality(DOMAIN entries') <= Cardinality(DOMAIN entries)
      /\ Cardinality(DOMAIN entries') \in Nat /\ Cardinality(DOMAIN entries) \in Nat
  BY <1>1, <1>3, FS_Subset, FS_CardinalityType
<1>5. UNCHANGED <<now, limit, serving>>
  BY DEF Sweep
<1> QED BY <1>1, <1>2, <1>4, <1>5 DEF TypeOK, MemoryBounded

(* Whatever order the requests come in and however the rule is edited, an  *)
(* index of a ring is inside it, no ring is longer than its limit, and no  *)
(* shard holds more keys than it may: the memory of the limiter is         *)
(* bounded by the rules, not by the clients.                               *)
THEOREM RingsAndMemoryBounded == Spec => []TypeOK /\ []MemoryBounded
<1>1. Init => TypeOK /\ MemoryBounded
  <2> SUFFICES ASSUME Init PROVE TypeOK /\ MemoryBounded
    OBVIOUS
  <2>1. DOMAIN entries = {}
    BY DEF Init
  <2>2. Cardinality(DOMAIN entries) = 0
    BY <2>1, FS_EmptySet
  <2> QED BY <2>1, <2>2 DEF Init, TypeOK, MemoryBounded
<1>2. TypeOK /\ MemoryBounded /\ [Next]_vars => (TypeOK /\ MemoryBounded)'
  <2> SUFFICES ASSUME TypeOK, MemoryBounded, [Next]_vars
               PROVE  TypeOK' /\ MemoryBounded'
    OBVIOUS
  <2>1. CASE Tick
    BY <2>1 DEF Tick, TypeOK, MemoryBounded
  <2>2. CASE ChangeLimit
    BY <2>2 DEF ChangeLimit, TypeOK, MemoryBounded
  <2>3. ASSUME NEW w \in Workers, NEW k \in Keys, Arrive(w, k)
        PROVE  TypeOK' /\ MemoryBounded'
    <3>1. [key |-> k, at |-> now, limit |-> limit] \in Request
      BY DEF TypeOK, Request
    <3>2. serving' \in [Workers -> Request \cup {Idle}]
      BY <2>3, <3>1 DEF Arrive, TypeOK
    <3>3. UNCHANGED <<now, limit, entries>>
      BY <2>3 DEF Arrive
    <3> QED BY <3>2, <3>3 DEF TypeOK, MemoryBounded
  <2>4. CASE UNCHANGED vars
    BY <2>4 DEF vars, TypeOK, MemoryBounded
  <2> QED BY <2>1, <2>2, <2>3, <2>4, ExceededKeeps, SweepKeeps DEF Next
<1> QED BY <1>1, <1>2, PTL DEF Spec

-----------------------------------------------------------------------------
(* What lies where in a ring.                                              *)

(* An index goes round at most once.                                       *)
LEMMA OnceRound ==
  ASSUME NEW n \in Nat \ {0}, NEW x \in Nat, x < 2 * n
  PROVE  x % n = IF x < n THEN x ELSE x - n
OBVIOUS

LEMMA Least ==
  ASSUME NEW S \in SUBSET Nat, S # {}
  PROVE  \E n \in S : \A m \in S : n <= m
<1>1. PICK n \in S : \A m \in S : ~(<<m, n>> \in OpToRel(<, Nat))
  BY NatLessThanWellFounded, WFMin
<1>2. \A m \in S : ~(m < n)
  BY <1>1 DEF OpToRel
<1> QED BY <1>2

(* Numbers that begin at 0 and leave none out are as many as they say.     *)
LEMMA InitialSegment ==
  ASSUME NEW T, NEW m \in Nat, T \subseteq 0..(m - 1),
         \A i \in T : \A j \in 0..i : j \in T
  PROVE  T = 0..(Cardinality(T) - 1) /\ Cardinality(T) \in 0..m
<1> DEFINE S == {i \in Nat : i \notin T}
<1>1. m \in S
  OBVIOUS
<1>2. PICK n \in S : \A i \in S : n <= i
  BY <1>1, Least
<1>3. n \in Nat /\ n \notin T /\ n <= m
  BY <1>1, <1>2
<1>4. \A i \in 0..(n - 1) : i \in T
  BY <1>2, <1>3
<1>5. ASSUME NEW i \in T PROVE i \in 0..(n - 1)
  <2>1. i \in Nat /\ (n <= i => n \in 0..i)
    BY <1>3, <1>5
  <2> QED BY <1>3, <1>5, <2>1
<1>6. T = 0..(n - 1)
  BY <1>4, <1>5
<1>7. Cardinality(T) = n
  BY <1>3, <1>6, FS_Interval
<1> QED BY <1>3, <1>6, <1>7

LEMMA SlotIs ==
  ASSUME NEW e, RingOK(e), NEW i \in Nat, i <= Len(e.stamps)
  PROVE  Slot(e, i) = IF e.start + i < Len(e.stamps) THEN e.start + i + 1
                      ELSE (e.start + i) - Len(e.stamps) + 1
<1> DEFINE n == Len(e.stamps)
           x == e.start + i
<1>0. n \in Nat \ {0} /\ e.start \in Nat /\ e.start < n /\ i <= n
  BY RingParts
<1>1. n \in Nat \ {0} /\ x \in Nat /\ x < 2 * n
  <2> HIDE DEF n
  <2> QED BY <1>0
<1>2. Slot(e, i) = (x % n) + 1
  BY DEF Slot
<1> HIDE DEF n, x
<1>3. x % n = IF x < n THEN x ELSE x - n
  BY <1>1, OnceRound
<1>4. Slot(e, i) = IF x < n THEN x + 1 ELSE x - n + 1
  BY <1>1, <1>2, <1>3
<1> USE DEF n, x
<1> QED BY <1>4

(* The stamps in front of the first one inside the window are counted.     *)
LEMMA ExpiredAre ==
  ASSUME NEW e, RingOK(e), NEW b \in Int
  PROVE  LET d == Expired(e, b)
         IN /\ d \in 0..e.length
            /\ \A i \in 0..(d - 1) : At(e, i) <= b
            /\ d < e.length => At(e, d) > b
<1> DEFINE T == {i \in 0..(e.length - 1) : \A j \in 0..i : At(e, j) <= b}
           d == Expired(e, b)
<1>1. e.length \in Nat
  BY RingParts
<1>2. T \subseteq 0..(e.length - 1)
  OBVIOUS
<1>3. \A i \in T : \A j \in 0..i : j \in T
  BY <1>1
<1>4. d = Cardinality(T)
  BY DEF Expired
<1>5. \A i \in 0..(e.length - 1) : i \in T <=> \A j \in 0..i : At(e, j) <= b
  OBVIOUS
<1> HIDE DEF T, d
<1>6. T = 0..(d - 1) /\ d \in 0..e.length
  BY <1>1, <1>2, <1>3, <1>4, InitialSegment
<1>7. \A i \in 0..(d - 1) : At(e, i) <= b
  <2>1. \A i \in 0..(d - 1) : i \in 0..(e.length - 1) /\ i \in T /\ i \in 0..i
    BY <1>1, <1>6
  <2> QED BY <1>5, <2>1
<1>8. ASSUME d < e.length PROVE At(e, d) > b
  <2>1. d \in 0..(e.length - 1) /\ d \notin T
    BY <1>1, <1>6, <1>8
  <2>2. PICK j \in 0..d : ~(At(e, j) <= b)
    BY <1>5, <2>1
  <2>3. j = d
    BY <1>6, <1>7, <2>2
  <2>4. d \in Nat
    BY <1>1, <1>6
  <2>5. At(e, d) \in Time
    <3> HIDE DEF Time
    <3> QED BY <2>4, SlotInRing
  <2>6. At(e, d) \in Int
    BY <2>5
  <2> QED BY <2>2, <2>3, <2>6
<1> QED BY <1>6, <1>7, <1>8 DEF d

LEMMA EvictedIs ==
  ASSUME NEW e, RingOK(e), NEW b \in Int
  PROVE  LET d == Expired(e, b)
             f == Evicted(e, b)
         IN /\ f.length = e.length - d /\ f.last = e.last
            /\ \A i \in 0..(f.length - 1) : At(f, i) = At(e, d + i)
<1> DEFINE d == Expired(e, b)
           f == Evicted(e, b)
           n == Len(e.stamps)
<1>0. /\ e.start \in Nat /\ e.start < n /\ n \in Nat \ {0}
      /\ e.length \in Nat /\ e.length <= n
  BY RingParts
<1>1. d \in 0..e.length
  BY ExpiredRange
<1>2. f = [e EXCEPT !.start = (e.start + d) % n, !.length = e.length - d]
  BY DEF Evicted
<1>3. RingOK(f)
  BY EvictedOK
<1> HIDE DEF d, f
<1>4. f.length = e.length - d /\ f.last = e.last /\ f.stamps = e.stamps
      /\ f.start = (e.start + d) % n
  BY <1>2, RingParts
<1>5. ASSUME NEW i \in 0..(f.length - 1)
      PROVE  At(f, i) = At(e, d + i)
  <2>1. Slot(e, d + i) = IF e.start + (d + i) < n THEN e.start + (d + i) + 1
                                                  ELSE (e.start + (d + i)) - n + 1
    <3>1. d + i \in Nat /\ d + i <= n
      BY <1>0, <1>1, <1>4, <1>5
    <3> QED BY <3>1, SlotIs
  <2>2. Slot(f, i) = IF f.start + i < n THEN f.start + i + 1 ELSE (f.start + i) - n + 1
    <3>1. i \in Nat /\ i <= n
      BY <1>0, <1>1, <1>4, <1>5
    <3> QED BY <1>3, <1>4, <3>1, SlotIs
  <2>3. f.start = IF e.start + d < n THEN e.start + d ELSE e.start + d - n
    <3> DEFINE x == e.start + d
    <3>1. f.start = x % n
      BY <1>4
    <3> HIDE DEF n
    <3>2. d \in Nat /\ d <= n
      BY <1>0, <1>1
    <3>3. x \in Nat /\ x < 2 * n
      BY <1>0, <3>2
    <3> HIDE DEF x
    <3>4. f.start = IF x < n THEN x ELSE x - n
      BY <1>0, <3>1, <3>3, OnceRound
    <3> QED BY <1>0, <3>2, <3>4 DEF x
  <2> HIDE DEF n
  <2>4. d \in Nat /\ i \in Nat /\ d + i < n
    BY <1>0, <1>1, <1>4, <1>5
  <2>6. Slot(f, i) = Slot(e, d + i)
    BY <1>0, <2>1, <2>2, <2>3, <2>4
  <2> QED BY <1>4, <2>6 DEF At
<1> QED BY <1>4, <1>5 DEF d, f

LEMMA GrownIs ==
  ASSUME NEW e, RingOK(e), e.length < e.limit
  PROVE  LET g == Grown(e)
         IN /\ g.length = e.length /\ g.limit = e.limit /\ g.last = e.last
            /\ \A i \in 0..(e.length - 1) : At(g, i) = At(e, i)
<1>1. CASE e.length < Len(e.stamps)
  BY <1>1 DEF Grown
<1>2. CASE ~(e.length < Len(e.stamps))
  <2> DEFINE g == Grown(e)
             n == Lesser(2 * Len(e.stamps), e.limit)
             f == [i \in 1..n |-> IF i <= e.length THEN At(e, i - 1) ELSE 0]
  <2>1. g = [e EXCEPT !.stamps = f, !.start = 0]
    BY <1>2 DEF Grown
  <2>2. n \in Nat /\ e.length < n /\ e.length \in Nat
    BY <1>2, RingParts DEF Lesser
  <2>3. RingOK(g) /\ g.length < Len(g.stamps)
    BY GrownOK
  <2> HIDE DEF g, n
  <2>4. g.stamps = f /\ g.start = 0 /\ g.length = e.length /\ g.limit = e.limit
        /\ g.last = e.last
    BY <2>1, RingParts
  <2>5. ASSUME NEW i \in 0..(e.length - 1)
        PROVE  At(g, i) = At(e, i)
    <3>0. Len(g.stamps) \in Nat
      BY <2>3, RingParts
    <3>1. i \in Nat /\ i < Len(g.stamps)
      BY <2>2, <2>3, <2>4, <2>5, <3>0
    <3>2. Slot(g, i) = IF g.start + i < Len(g.stamps) THEN g.start + i + 1
                       ELSE (g.start + i) - Len(g.stamps) + 1
      BY <2>3, <3>0, <3>1, SlotIs
    <3>3. Slot(g, i) = i + 1
      BY <2>4, <3>0, <3>1, <3>2
    <3>4. i + 1 \in 1..n /\ i + 1 <= e.length /\ (i + 1) - 1 = i
      BY <2>2, <2>5
    <3>5. f[i + 1] = At(e, i)
      BY <3>4
    <3> QED BY <2>4, <3>3, <3>5 DEF At
  <2> QED BY <2>4, <2>5 DEF g
<1> QED BY <1>1, <1>2

LEMMA PushIs ==
  ASSUME NEW e, RingOK(e), e.length < e.limit, NEW t \in Time
  PROVE  LET f == Push(e, t)
         IN /\ f.length = e.length + 1 /\ f.limit = e.limit /\ f.last = e.last
            /\ \A i \in 0..(e.length - 1) : At(f, i) = At(e, i)
            /\ At(f, e.length) = t
<1> DEFINE g == Grown(e)
           f == Push(e, t)
           n == Len(g.stamps)
<1>1. RingOK(g) /\ g.length < n /\ RingOK(f)
  BY GrownOK, PushOK
<1>2. /\ g.length = e.length /\ g.limit = e.limit /\ g.last = e.last
      /\ \A i \in 0..(e.length - 1) : At(g, i) = At(e, i)
  BY GrownIs
<1>3. f = [g EXCEPT !.stamps[Slot(g, g.length)] = t, !.length = @ + 1]
  BY DEF Push
<1> HIDE DEF g, f
<1>4. /\ g.stamps \in Seq(Time) /\ n \in Nat \ {0} /\ g.start \in Nat /\ g.start < n
      /\ g.length \in Nat
  BY <1>1, RingParts
<1>5. Slot(g, g.length) \in 1..n
  BY <1>1, <1>4, SlotInRing
<1>6. /\ f.stamps = [g.stamps EXCEPT ![Slot(g, g.length)] = t]
      /\ f.start = g.start /\ f.length = g.length + 1 /\ f.limit = g.limit /\ f.last = g.last
  BY <1>1, <1>3, RingParts
<1>7. f.stamps[Slot(g, g.length)] = t /\ Len(f.stamps) = n
      /\ \A s \in 1..n : s # Slot(g, g.length) => f.stamps[s] = g.stamps[s]
  <2> HIDE DEF Time
  <2>1. DOMAIN g.stamps = 1..n
    BY <1>4
  <2>2. Len(f.stamps) = n
    BY <1>4, <1>5, <1>6, ExceptSeq
  <2> QED BY <1>5, <1>6, <2>1, <2>2
<1>8. ASSUME NEW i \in Nat, i <= g.length
      PROVE  /\ Slot(f, i) = Slot(g, i)
             /\ Slot(g, i) \in 1..n
             /\ i # g.length => Slot(g, i) # Slot(g, g.length)
  <2>1. Slot(f, i) = Slot(g, i)
    BY <1>6, <1>7 DEF Slot
  <2>2. Slot(g, i) \in 1..n
    BY <1>1, SlotInRing
  <2>3. i <= n /\ g.length <= n
    BY <1>1, <1>4, <1>8
  <2>4. /\ Slot(g, i) = IF g.start + i < n THEN g.start + i + 1 ELSE (g.start + i) - n + 1
        /\ Slot(g, g.length) = IF g.start + g.length < n THEN g.start + g.length + 1
                                                         ELSE (g.start + g.length) - n + 1
    BY <1>1, <1>4, <2>3, SlotIs
  <2> HIDE DEF n
  <2>5. ASSUME i # g.length
        PROVE  Slot(g, i) # Slot(g, g.length)
    <3>1. i < g.length /\ g.length < n
      BY <1>1, <1>4, <1>8, <2>5
    <3> QED BY <1>4, <2>4, <3>1, SMTT(30)
  <2> QED BY <2>1, <2>2, <2>5
<1>9. At(f, g.length) = t
  BY <1>4, <1>7, <1>8 DEF At
<1>10. ASSUME NEW i \in 0..(e.length - 1)
       PROVE  At(f, i) = At(e, i)
  <2>1. i \in Nat /\ i <= g.length /\ i # g.length
    BY <1>2, <1>4
  <2>2. At(f, i) = At(g, i)
    BY <1>7, <1>8, <2>1 DEF At
  <2> QED BY <1>2, <2>2
<1> QED BY <1>2, <1>6, <1>9, <1>10 DEF f

-----------------------------------------------------------------------------
(* The ring of a key holds the last requests of it that were let through.  *)

Agrees(e, s) ==
  /\ e.length <= Len(s)
  /\ \A i \in 0..(e.length - 1) : At(e, i) = s[Len(s) - e.length + 1 + i]

LEMMA AgreesEvicted ==
  ASSUME NEW e, RingOK(e), NEW s \in Seq(Time), Agrees(e, s), NEW b \in Int
  PROVE  LET f == Evicted(e, b)
         IN /\ Agrees(f, s)
            /\ f.length > 0 => s[Len(s) - f.length + 1] > b
            /\ \A i \in 1..(Len(s) - f.length) : i <= Len(s) - e.length \/ s[i] <= b
<1> DEFINE d == Expired(e, b)
           f == Evicted(e, b)
<1>1. e.length \in Nat /\ Len(s) \in Nat /\ e.length <= Len(s)
  BY RingParts DEF Agrees
<1>2. /\ d \in 0..e.length
      /\ \A i \in 0..(d - 1) : At(e, i) <= b
      /\ d < e.length => At(e, d) > b
  BY ExpiredAre
<1>3. f.length = e.length - d /\ \A i \in 0..(f.length - 1) : At(f, i) = At(e, d + i)
  BY EvictedIs
<1>4. \A i \in 0..(e.length - 1) : At(e, i) = s[Len(s) - e.length + 1 + i]
  BY DEF Agrees
<1> HIDE DEF d, f
<1>5. Agrees(f, s)
  <2>1. f.length <= Len(s)
    BY <1>1, <1>2, <1>3
  <2>2. ASSUME NEW i \in 0..(f.length - 1)
        PROVE  At(f, i) = s[Len(s) - f.length + 1 + i]
    <3>1. d + i \in 0..(e.length - 1)
      BY <1>1, <1>2, <1>3, <2>2
    <3>2. Len(s) - e.length + 1 + (d + i) = Len(s) - f.length + 1 + i
      BY <1>1, <1>2, <1>3, <2>2
    <3> QED BY <1>3, <1>4, <2>2, <3>1, <3>2
  <2> QED BY <2>1, <2>2 DEF Agrees
<1>6. ASSUME f.length > 0
      PROVE  s[Len(s) - f.length + 1] > b
  <2>1. d \in 0..(e.length - 1) /\ d < e.length
    BY <1>1, <1>2, <1>3, <1>6
  <2>2. Len(s) - e.length + 1 + d = Len(s) - f.length + 1
    BY <1>1, <1>2, <1>3
  <2> QED BY <1>2, <1>4, <2>1, <2>2
<1>7. ASSUME NEW i \in 1..(Len(s) - f.length), ~(i <= Len(s) - e.length)
      PROVE  s[i] <= b
  <2> DEFINE j == i - (Len(s) - e.length) - 1
  <2>1. j \in 0..(d - 1) /\ j \in 0..(e.length - 1) /\ Len(s) - e.length + 1 + j = i
    <3>1. d \in Int /\ d <= e.length /\ f.length = e.length - d
      BY <1>1, <1>2, <1>3
    <3>2. i \in Int /\ i > Len(s) - e.length /\ i <= Len(s) - (e.length - d)
      BY <1>1, <1>7, <3>1
    <3> DEFINE n == Len(s)
               l == e.length
    <3>3. n \in Int /\ l \in Int /\ j = i - (n - l) - 1 /\ i > n - l /\ i <= n - (l - d)
      BY <1>1, <3>2
    <3> HIDE DEF j, n, l
    <3>4. j \in Int /\ 0 <= j /\ j <= d - 1 /\ n - l + 1 + j = i
      BY <3>1, <3>2, <3>3
    <3> USE DEF n, l
    <3> QED BY <1>1, <3>1, <3>4
  <2> HIDE DEF j
  <2> QED BY <1>2, <1>4, <2>1
<1> QED BY <1>5, <1>6, <1>7 DEF f

LEMMA AgreesPush ==
  ASSUME NEW e, RingOK(e), e.length < e.limit, NEW t \in Time,
         NEW s \in Seq(Time), Agrees(e, s)
  PROVE  Agrees(Push(e, t), Append(s, t))
<1> DEFINE f == Push(e, t)
           u == Append(s, t)
<1>1. e.length \in Nat /\ Len(s) \in Nat /\ e.length <= Len(s)
  BY RingParts DEF Agrees
<1>2. /\ f.length = e.length + 1
      /\ \A i \in 0..(e.length - 1) : At(f, i) = At(e, i)
      /\ At(f, e.length) = t
  BY PushIs
<1>3. \A i \in 0..(e.length - 1) : At(e, i) = s[Len(s) - e.length + 1 + i]
  BY DEF Agrees
<1>4. /\ Len(u) = Len(s) + 1 /\ u[Len(s) + 1] = t
      /\ \A i \in 1..Len(s) : u[i] = s[i]
  <2> HIDE DEF Time
  <2> QED BY AppendProperties
<1> HIDE DEF f, u
<1>5. ASSUME NEW i \in 0..(f.length - 1)
      PROVE  At(f, i) = u[Len(u) - f.length + 1 + i]
  <2>1. Len(u) - f.length + 1 + i = Len(s) - e.length + 1 + i
    BY <1>1, <1>2, <1>4, <1>5
  <2>2. CASE i = e.length
    <3>1. Len(s) - e.length + 1 + i = Len(s) + 1
      BY <1>1, <2>2
    <3> QED BY <1>2, <1>4, <2>1, <2>2, <3>1
  <2>3. CASE i \in 0..(e.length - 1)
    <3> DEFINE n == Len(s)
               l == e.length
    <3>1. n - l + 1 + i \in 1..n
      <4>1. n \in Nat /\ l \in Nat /\ l <= n /\ i \in 0..(l - 1)
        BY <1>1, <2>3
      <4> HIDE DEF n, l
      <4> QED BY <4>1
    <3> QED BY <1>2, <1>3, <1>4, <2>1, <2>3, <3>1
  <2> QED BY <1>1, <1>2, <1>5, <2>2, <2>3
<1>6. f.length <= Len(u)
  BY <1>1, <1>2, <1>4
<1> QED BY <1>5, <1>6 DEF Agrees, f, u

-----------------------------------------------------------------------------
(* The history a key is judged by.                                         *)

Histories ==
  /\ passed \in [Keys -> [limit: Nat, times: Seq(Time)]]
  /\ decided \in [Keys -> Time]

Kept(k) ==
  k \in DOMAIN entries =>
    /\ entries[k].limit = passed[k].limit
    /\ Agrees(entries[k], passed[k].times)

(* A key no request of which was overtaken: what was let through is in     *)
(* order and no closer than the limit allows, what its ring has given up   *)
(* is outside every window to come, and so is all of it when the ring is   *)
(* gone.                                                                   *)
Ascending(s, last) ==
  /\ \A i, j \in DOMAIN s : i <= j => s[i] <= s[j]
  /\ \A i \in DOMAIN s : s[i] <= last
Spaced(s, l) == \A i, j \in DOMAIN s : i + l <= j => s[i] <= s[j] - Window
Before(s, n, t) == \A i \in 1..n : s[i] <= t - Window

Undisturbed(k) ==
  LET s == passed[k].times
  IN /\ Ascending(s, decided[k])
     /\ Spaced(s, passed[k].limit)
     /\ k \in DOMAIN entries =>
          /\ entries[k].last = decided[k]
          /\ Before(s, Len(s) - entries[k].length, decided[k])
     /\ k \notin DOMAIN entries =>
          /\ Before(s, Len(s), now)
          /\ \A w \in Workers :
               serving[w] # Idle /\ serving[w].key = k => Before(s, Len(s), serving[w].at)

RateInv ==
  /\ Histories
  /\ \A k \in Keys : Kept(k) /\ (k \notin overtaken => Undisturbed(k))

(* The entry a request is decided with, and the history it stands for.     *)
LEMMA EntryForAgrees ==
  ASSUME TypeOK, Histories, NEW q \in Request, Kept(q.key)
  PROVE  LET e == EntryFor(q)
             s == PassedSoFar(q)
         IN /\ s \in Seq(Time) /\ e.last = q.at
            /\ Agrees(e, s)
            /\ e.length > 0 => s[Len(s) - e.length + 1] > q.at - Window
            /\ q.key \notin overtaken /\ Undisturbed(q.key) /\ q.at >= decided[q.key]
                 /\ (q.key \notin DOMAIN entries => Before(s, Len(s), q.at))
                 => Before(s, Len(s) - e.length, q.at)
<1> DEFINE k == q.key
           b == q.at - Window
           s == PassedSoFar(q)
           kept == k \in DOMAIN entries /\ entries[k].limit = q.limit
           e == IF kept THEN entries[k] ELSE Fresh(q.limit)
           f == [e EXCEPT !.last = q.at]
           g == Evicted(f, b)
<1>1. k \in Keys /\ q.limit \in Limits /\ q.at \in Time /\ b \in Int
  BY DEF Request
<1>2. RingOK(e) /\ e.limit = q.limit
  BY <1>1, FreshOK DEF TypeOK
<1>3. EntryFor(q) = g
  BY DEF EntryFor
<1>4. s \in Seq(Time) /\ Len(s) \in Nat
  <2> HIDE DEF Time
  <2>1. passed[k].times \in Seq(Time)
    BY <1>1 DEF Histories
  <2>2. s \in Seq(Time)
    BY <2>1 DEF PassedSoFar
  <2> QED BY <2>2
<1>5. Agrees(e, s)
  <2>1. CASE kept
    BY <2>1 DEF Kept, PassedSoFar
  <2>2. CASE ~kept
    <3>1. e.length = 0
      BY <2>2 DEF Fresh
    <3> QED BY <1>4, <3>1 DEF Agrees
  <2> QED BY <2>1, <2>2
<1>6. /\ f.stamps = e.stamps /\ f.start = e.start /\ f.length = e.length
      /\ f.limit = e.limit /\ f.last = q.at
      /\ f = [stamps |-> e.stamps, start |-> e.start, length |-> e.length,
              limit |-> e.limit, last |-> q.at]
  <2>1. e = [stamps |-> e.stamps, start |-> e.start, length |-> e.length,
             limit |-> e.limit, last |-> e.last]
    <3> HIDE DEF e
    <3> QED BY <1>2, RingParts
  <2> HIDE DEF e
  <2>2. f = [stamps |-> e.stamps, start |-> e.start, length |-> e.length,
             limit |-> e.limit, last |-> q.at]
    BY <2>1
  <2> HIDE DEF f
  <2> QED BY <2>2
<1> HIDE DEF f
<1>7. RingOK(f)
  <2>1. Len(e.stamps) \in 1..e.limit
    BY <1>2, RingParts
  <2> HIDE DEF e
  <2> QED BY <1>1, <1>2, <1>6, <2>1, RingParts, RingFromParts
<1>8. Agrees(f, s)
  <2> HIDE DEF e
  <2> QED BY <1>5, <1>6 DEF Agrees, At, Slot
<1>9. /\ Agrees(g, s)
      /\ g.length > 0 => s[Len(s) - g.length + 1] > b
      /\ \A i \in 1..(Len(s) - g.length) : i <= Len(s) - f.length \/ s[i] <= b
  BY <1>1, <1>4, <1>7, <1>8, AgreesEvicted
<1>10. g.last = q.at
  BY <1>1, <1>6, <1>7, EvictedIs
<1>11. ASSUME k \notin overtaken, Undisturbed(k), q.at >= decided[k],
              k \notin DOMAIN entries => Before(s, Len(s), q.at)
       PROVE  Before(s, Len(s) - g.length, q.at)
  <2>1. Before(s, Len(s) - e.length, q.at)
    <3>1. CASE k \notin DOMAIN entries
      <4>1. e.length = 0
        BY <3>1 DEF Fresh
      <4> QED BY <1>4, <1>11, <3>1, <4>1
    <3>2. CASE k \in DOMAIN entries /\ entries[k].limit # q.limit
      <4>1. s = <<>> /\ e.length = 0
        BY <1>1, <3>2 DEF Kept, PassedSoFar, Fresh
      <4> QED BY <4>1 DEF Before
    <3>3. CASE kept
      <4>1. s = passed[k].times /\ e = entries[k]
        BY <3>3 DEF Kept, PassedSoFar
      <4>2. Before(s, Len(s) - e.length, decided[k])
        BY <1>11, <3>3, <4>1 DEF Undisturbed
      <4>3. decided[k] \in Int /\ q.at \in Int /\ Window \in Int
        BY <1>1 DEF Histories
      <4>4. \A i \in 1..(Len(s) - e.length) : s[i] \in Int
        <5>1. e.length \in Nat
          BY <1>2, RingParts
        <5> HIDE DEF e, s
        <5> QED BY <1>4, <5>1
      <4> HIDE DEF e, s, k
      <4> QED BY <1>11, <4>2, <4>3, <4>4 DEF Before
    <3> QED BY <3>1, <3>2, <3>3
  <2>2. f.length = e.length
    BY <1>6
  <2> HIDE DEF e, g
  <2> QED BY <1>9, <2>1, <2>2 DEF Before
<1> QED BY <1>3, <1>4, <1>9, <1>10, <1>11

(* A request let through while fewer than l lie in its window.             *)
LEMMA AppendSpaced ==
  ASSUME NEW s \in Seq(Time), NEW l \in Nat \ {0}, NEW n \in Nat, n < l, n <= Len(s),
         NEW t \in Time, Ascending(s, t), Spaced(s, l), Before(s, Len(s) - n, t)
  PROVE  Ascending(Append(s, t), t) /\ Spaced(Append(s, t), l)
<1> DEFINE u == Append(s, t)
           m == Len(s)
<1>1. /\ Len(u) = m + 1 /\ u[m + 1] = t /\ m \in Nat
      /\ \A i \in 1..m : u[i] = s[i]
      /\ DOMAIN u = 1..(m + 1) /\ DOMAIN s = 1..m
  <2> HIDE DEF Time
  <2> QED BY AppendProperties
<1>2. t \in Int /\ \A i \in 1..m : s[i] \in Int
  OBVIOUS
<1> HIDE DEF u, m
<1>3. \A i \in 1..m : s[i] <= t
  BY <1>1 DEF Ascending
<1>4. ASSUME NEW i \in DOMAIN u, NEW j \in DOMAIN u, i <= j
      PROVE  u[i] <= u[j] /\ u[i] <= t
  <2>0. i \in 1..(m + 1) /\ m \in Nat
    BY <1>1, <1>4
  <2>1. i \in 1..m \/ i = m + 1
    BY <2>0
  <2>2. CASE j = m + 1
    BY <1>1, <1>2, <1>3, <2>1, <2>2
  <2>3. CASE j \in 1..m
    <3>1. i \in 1..m /\ s[i] <= s[j]
      BY <1>1, <1>4, <2>1, <2>3 DEF Ascending
    <3> QED BY <1>1, <1>3, <2>3, <3>1
  <2>4. j \in 1..m \/ j = m + 1
    BY <1>1, <1>4
  <2> QED BY <2>2, <2>3, <2>4
<1>5. ASSUME NEW i \in DOMAIN u, NEW j \in DOMAIN u, i + l <= j
      PROVE  u[i] <= u[j] - Window
  <2>1. i \in 1..m
    BY <1>1, <1>5
  <2>2. CASE j = m + 1
    <3>1. i \in 1..(m - n)
      BY <1>1, <1>5, <2>1, <2>2
    <3> QED BY <1>1, <2>1, <2>2, <3>1 DEF Before, m
  <2>3. CASE j \in 1..m
    BY <1>1, <1>5, <2>1, <2>3 DEF Spaced
  <2> QED BY <1>1, <2>2, <2>3
<1>6. \A i \in DOMAIN u : i <= i
  BY <1>1
<1> QED BY <1>4, <1>5, <1>6 DEF Ascending, Spaced, u

(* What a handler that has a request finds of its key.                     *)
LEMMA FoundBy ==
  ASSUME TypeOK, RateInv, NEW w \in Workers, serving[w] # Idle
  PROVE  LET q == serving[w]
             e == EntryFor(q)
             s == PassedSoFar(q)
         IN /\ q \in Request /\ q.key \in Keys /\ q.at \in Time /\ q.limit \in Nat \ {0}
            /\ RingOK(e) /\ e.limit = q.limit /\ e.last = q.at
            /\ e.length \in Nat /\ e.length <= Len(s) /\ s \in Seq(Time)
            /\ Agrees(e, s)
            /\ e.length > 0 => s[Len(s) - e.length + 1] > q.at - Window
            /\ q.key \notin overtaken /\ q.at >= decided[q.key] =>
                 /\ Ascending(s, q.at) /\ Spaced(s, q.limit)
                 /\ Before(s, Len(s) - e.length, q.at)
                 /\ q.key \notin DOMAIN entries =>
                      Before(passed[q.key].times, Len(passed[q.key].times), q.at)
<1> DEFINE q == serving[w]
           k == q.key
           e == EntryFor(q)
           s == PassedSoFar(q)
<1>1. q \in Request
  BY DEF TypeOK
<1>2. k \in Keys /\ q.at \in Time /\ q.limit \in Limits
  BY <1>1 DEF Request
<1>3. RingOK(e) /\ e.limit = q.limit /\ e.length \in Nat
  BY <1>1, EntryForOK, RingParts
<1>4. Histories /\ Kept(k)
  BY <1>2 DEF RateInv
<1>5. /\ s \in Seq(Time) /\ e.last = q.at /\ Agrees(e, s)
      /\ e.length > 0 => s[Len(s) - e.length + 1] > q.at - Window
      /\ k \notin overtaken /\ Undisturbed(k) /\ q.at >= decided[k]
           /\ (k \notin DOMAIN entries => Before(s, Len(s), q.at))
           => Before(s, Len(s) - e.length, q.at)
  BY <1>1, <1>4, EntryForAgrees
<1>6. e.length <= Len(s)
  BY <1>5 DEF Agrees
<1>7. ASSUME k \notin overtaken, q.at >= decided[k]
      PROVE  /\ Ascending(s, q.at) /\ Spaced(s, q.limit)
             /\ Before(s, Len(s) - e.length, q.at)
             /\ k \notin DOMAIN entries => Before(passed[k].times, Len(passed[k].times), q.at)
  <2> DEFINE p == passed[k].times
  <2>1. Undisturbed(k)
    BY <1>2, <1>7 DEF RateInv
  <2>2. k \notin DOMAIN entries => Before(p, Len(p), q.at)
    BY <2>1 DEF Undisturbed
  <2>3. s = <<>> \/ (s = p /\ passed[k].limit = q.limit)
    BY DEF PassedSoFar
  <2>4. Ascending(s, q.at) /\ Spaced(s, q.limit)
        /\ (k \notin DOMAIN entries => Before(s, Len(s), q.at))
    <3>1. CASE s = <<>>
      BY <3>1 DEF Ascending, Spaced, Before
    <3>2. CASE s = p /\ passed[k].limit = q.limit
      <4>1. Ascending(p, decided[k]) /\ Spaced(p, q.limit)
        BY <2>1, <3>2 DEF Undisturbed
      <4>2. decided[k] \in Int /\ q.at \in Int /\ \A i \in DOMAIN p : p[i] \in Int
        <5>1. p \in Seq(Time) /\ decided[k] \in Time
          BY <1>2, <1>4 DEF Histories
        <5> HIDE DEF p
        <5> QED BY <1>2, <5>1
      <4>3. Ascending(p, q.at)
        <5> HIDE DEF p, q
        <5> QED BY <1>7, <4>1, <4>2 DEF Ascending
      <4> QED BY <2>2, <3>2, <4>1, <4>3
    <3> QED BY <2>3, <3>1, <3>2
  <2> QED BY <1>5, <1>7, <2>1, <2>2, <2>4
<1> QED BY <1>1, <1>2, <1>3, <1>5, <1>6, <1>7

(* A key the step is not about.                                            *)
LEMMA Elsewhere ==
  ASSUME TypeOK, RateInv, now' \in Time, now <= now', NEW k \in Keys,
         k \in DOMAIN entries' <=> k \in DOMAIN entries,
         k \in DOMAIN entries => entries'[k] = entries[k],
         passed'[k] = passed[k], decided'[k] = decided[k], overtaken \subseteq overtaken',
         \A w \in Workers : serving'[w] # Idle =>
           serving'[w] = serving[w] \/ serving'[w].at = now
  PROVE  Kept(k)' /\ (k \notin overtaken' => Undisturbed(k)')
<1>1. Kept(k) /\ (k \notin overtaken => Undisturbed(k)) /\ Histories
  BY DEF RateInv
<1>2. Kept(k)'
  BY <1>1 DEF Kept
<1>3. ASSUME k \notin overtaken'
      PROVE  Undisturbed(k)'
  <2> DEFINE s == passed[k].times
  <2>1. Undisturbed(k)
    BY <1>1, <1>3
  <2>2. s \in Seq(Time)
    BY <1>1 DEF Histories
  <2>3. ASSUME k \notin DOMAIN entries
        PROVE  /\ Before(s, Len(s), now')
               /\ \A w \in Workers : serving'[w] # Idle /\ serving'[w].key = k
                                       => Before(s, Len(s), serving'[w].at)
    <3>1. Before(s, Len(s), now)
      BY <2>1, <2>3 DEF Undisturbed
    <3>2. Before(s, Len(s), now')
      <4>1. now \in Int /\ now' \in Int
        BY DEF TypeOK
      <4>2. \A i \in 1..Len(s) : s[i] \in Int
        <5> HIDE DEF s
        <5> QED BY <2>2
      <4> HIDE DEF s
      <4> QED BY <3>1, <4>1, <4>2 DEF Before
    <3>3. \A w \in Workers : serving[w] # Idle /\ serving[w].key = k
                               => Before(s, Len(s), serving[w].at)
      BY <2>1, <2>3 DEF Undisturbed
    <3> QED BY <3>1, <3>2, <3>3
  <2> HIDE DEF s
  <2>4. passed'[k].times = s /\ passed'[k].limit = passed[k].limit
    BY DEF s
  <2>5. /\ Ascending(s, decided[k]) /\ Spaced(s, passed[k].limit)
        /\ k \in DOMAIN entries =>
             /\ entries[k].last = decided[k]
             /\ Before(s, Len(s) - entries[k].length, decided[k])
    BY <2>1 DEF Undisturbed, s
  <2> QED BY <2>3, <2>4, <2>5 DEF Undisturbed
<1> QED BY <1>2, <1>3

(* What a decision records of the request that is decided.                 *)
LEMMA AnsweredRecords ==
  ASSUME TypeOK, RateInv, NEW w \in Workers, serving[w] # Idle, NEW x, Answered(w, x)
  PROVE  LET q == serving[w]
         IN /\ decided' \in [Keys -> Time]
            /\ overtaken \subseteq overtaken'
            /\ q.key \notin overtaken' =>
                 q.key \notin overtaken /\ q.at >= decided[q.key] /\ decided'[q.key] = q.at
            /\ \A k \in Keys : k # q.key => decided'[k] = decided[k]
            /\ \A v \in Workers : serving'[v] # Idle => serving'[v] = serving[v]
<1> DEFINE q == serving[w]
<1>1. q \in Request /\ q.key \in Keys /\ q.at \in Time
  BY DEF TypeOK, Request
<1>2. decided \in [Keys -> Time] /\ decided[q.key] \in Time
  BY <1>1 DEF RateInv, Histories
<1>3. /\ serving' = [serving EXCEPT ![w] = Idle]
      /\ overtaken' = IF q.at < decided[q.key] THEN overtaken \cup {q.key} ELSE overtaken
      /\ decided' = [decided EXCEPT ![q.key] = IF q.at < @ THEN @ ELSE q.at]
  BY DEF Answered
<1>4. \A v \in Workers : serving'[v] # Idle => serving'[v] = serving[v]
  BY <1>3 DEF TypeOK
<1> HIDE DEF q
<1>5. decided' \in [Keys -> Time] /\ \A k \in Keys : k # q.key => decided'[k] = decided[k]
  <2> HIDE DEF Time
  <2> QED BY <1>1, <1>2, <1>3
<1>6. ASSUME q.key \notin overtaken'
      PROVE  q.key \notin overtaken /\ q.at >= decided[q.key] /\ decided'[q.key] = q.at
  BY <1>1, <1>2, <1>3, <1>6
<1> QED BY <1>3, <1>4, <1>5, <1>6 DEF q

LEMMA LaterAscending ==
  ASSUME NEW s \in Seq(Time), NEW a \in Time, NEW b \in Time, a <= b, Ascending(s, a)
  PROVE  Ascending(s, b)
<1>1. \A i \in DOMAIN s : s[i] \in Int
  OBVIOUS
<1> QED BY <1>1 DEF Ascending

(* A request that is decided with the ring of its key.                     *)
LEMMA CountedKeeps ==
  ASSUME TypeOK, RateInv, NEW w \in Workers, serving[w] # Idle, NEW x, Answered(w, x),
         UNCHANGED now, NEW e, NEW s \in Seq(Time),
         Store(serving[w].key, e), Record(serving[w], s),
         e.limit = serving[w].limit, e.last = serving[w].at, Agrees(e, s),
         serving[w].key \notin overtaken /\ serving[w].at >= decided[serving[w].key] =>
           /\ Ascending(s, serving[w].at) /\ Spaced(s, serving[w].limit)
           /\ Before(s, Len(s) - e.length, serving[w].at)
  PROVE  RateInv'
<1> DEFINE q == serving[w]
           k == q.key
<1>1. q \in Request /\ k \in Keys /\ q.limit \in Nat
  BY DEF TypeOK, Request
<1>2. /\ decided' \in [Keys -> Time] /\ overtaken \subseteq overtaken'
      /\ k \notin overtaken' =>
           k \notin overtaken /\ q.at >= decided[k] /\ decided'[k] = q.at
      /\ \A y \in Keys : y # k => decided'[y] = decided[y]
      /\ \A v \in Workers : serving'[v] # Idle => serving'[v] = serving[v]
  BY AnsweredRecords
<1>3. /\ k \in DOMAIN entries' /\ entries'[k] = e
      /\ \A y \in Keys : y # k =>
           /\ y \in DOMAIN entries' <=> y \in DOMAIN entries
           /\ y \in DOMAIN entries => entries'[y] = entries[y]
  BY DEF Store
<1>4. passed \in [Keys -> [limit: Nat, times: Seq(Time)]]
  BY DEF RateInv, Histories
<1>5. passed' = [passed EXCEPT ![k] = [limit |-> q.limit, times |-> s]]
  BY DEF Record
<1>6. /\ passed' \in [Keys -> [limit: Nat, times: Seq(Time)]]
      /\ passed'[k].limit = q.limit /\ passed'[k].times = s
      /\ \A y \in Keys : y # k => passed'[y] = passed[y]
  <2> HIDE DEF q, k, Time
  <2> QED BY <1>1, <1>4, <1>5
<1>7. ASSUME NEW y \in Keys, y = k
      PROVE  Kept(y)' /\ (y \notin overtaken' => Undisturbed(y)')
  <2>1. e.limit = q.limit /\ e.last = q.at
    OBVIOUS
  <2>2. y \notin overtaken' =>
          /\ Ascending(s, q.at) /\ Spaced(s, q.limit) /\ Before(s, Len(s) - e.length, q.at)
          /\ decided'[y] = q.at
    BY <1>2, <1>7
  <2>3. /\ y \in DOMAIN entries' /\ entries'[y] = e
        /\ passed'[y].limit = q.limit /\ passed'[y].times = s
    BY <1>3, <1>6, <1>7
  <2> HIDE DEF q, k
  <2>4. Kept(y)'
    BY <2>1, <2>3 DEF Kept
  <2> QED BY <2>1, <2>2, <2>3, <2>4 DEF Undisturbed
<1>8. ASSUME NEW y \in Keys, y # k
      PROVE  Kept(y)' /\ (y \notin overtaken' => Undisturbed(y)')
  <2>1. now \in Time /\ now' = now
    BY DEF TypeOK
  <2> HIDE DEF q, k
  <2>2. now' \in Time /\ now <= now'
    BY <2>1
  <2> QED BY <1>2, <1>3, <1>6, <1>8, <2>2, Elsewhere
<1>9. \A y \in Keys : Kept(y)' /\ (y \notin overtaken' => Undisturbed(y)')
  BY <1>7, <1>8
<1> QED BY <1>2, <1>6, <1>9 DEF RateInv, Histories

LEMMA ExceededKeepsRate ==
  ASSUME TypeOK, RateInv, NEW w \in Workers, Exceeded(w)
  PROVE  RateInv'
<1> DEFINE q == serving[w]
           k == q.key
           e == EntryFor(q)
           s == PassedSoFar(q)
           f == Push(e, q.at)
           u == Append(s, q.at)
<1>0. q # Idle /\ UNCHANGED now
  BY DEF Exceeded
<1>1. /\ q \in Request /\ k \in Keys /\ q.at \in Time /\ q.limit \in Nat \ {0}
      /\ RingOK(e) /\ e.limit = q.limit /\ e.last = q.at
      /\ e.length \in Nat /\ e.length <= Len(s) /\ s \in Seq(Time)
      /\ Agrees(e, s)
      /\ k \notin overtaken /\ q.at >= decided[k] =>
           /\ Ascending(s, q.at) /\ Spaced(s, q.limit)
           /\ Before(s, Len(s) - e.length, q.at)
  BY <1>0, FoundBy
<1>2. CASE Full(q) /\ Answered(w, FALSE) /\ UNCHANGED <<entries, passed>>
  <2>1. /\ decided' \in [Keys -> Time] /\ overtaken \subseteq overtaken'
        /\ k \notin overtaken' =>
             k \notin overtaken /\ q.at >= decided[k] /\ decided'[k] = q.at
        /\ \A y \in Keys : y # k => decided'[y] = decided[y]
        /\ \A v \in Workers : serving'[v] # Idle => serving'[v] = serving[v]
    BY <1>0, <1>2, AnsweredRecords
  <2>2. now \in Time /\ now' \in Time /\ now <= now'
    BY <1>0 DEF TypeOK
  <2>3. k \notin DOMAIN entries
    BY <1>2 DEF Full
  <2>4. UNCHANGED <<entries, passed>>
    BY <1>2
  <2>5. ASSUME NEW y \in Keys, y # k
        PROVE  Kept(y)' /\ (y \notin overtaken' => Undisturbed(y)')
    <3> HIDE DEF q, k
    <3> QED BY <2>1, <2>2, <2>4, <2>5, Elsewhere
  <2>6. ASSUME NEW y \in Keys, y = k
        PROVE  Kept(y)'
    BY <2>3, <2>4, <2>6 DEF Kept
  <2>7. ASSUME NEW y \in Keys, y = k, y \notin overtaken'
        PROVE  Undisturbed(y)'
    <3> DEFINE p == passed[y].times
    <3>1. Undisturbed(y) /\ q.at >= decided[y] /\ decided'[y] = q.at
      BY <1>1, <2>1, <2>7 DEF RateInv
    <3>2. p \in Seq(Time) /\ decided[y] \in Time
      BY <1>1 DEF RateInv, Histories
    <3>3. Ascending(p, q.at)
      <4>1. Ascending(p, decided[y]) /\ decided[y] <= q.at
        BY <1>1, <3>1, <3>2 DEF Undisturbed
      <4> HIDE DEF p, q
      <4> QED BY <1>1, <3>2, <4>1, LaterAscending
    <3>4. /\ Spaced(p, passed[y].limit) /\ Before(p, Len(p), now)
          /\ \A v \in Workers : serving[v] # Idle /\ serving[v].key = y
                                  => Before(p, Len(p), serving[v].at)
      BY <2>3, <2>7, <3>1 DEF Undisturbed
    <3>5. \A v \in Workers : serving'[v] # Idle /\ serving'[v].key = y
                                  => Before(p, Len(p), serving'[v].at)
      BY <2>1, <3>4
    <3>6. passed'[y].times = p /\ passed'[y].limit = passed[y].limit
          /\ y \notin DOMAIN entries' /\ now' = now
      BY <1>0, <2>3, <2>4, <2>7
    <3> HIDE DEF p, q, k
    <3> QED BY <3>1, <3>3, <3>4, <3>5, <3>6 DEF Undisturbed
  <2>8. Histories'
    BY <2>1, <2>4 DEF RateInv, Histories
  <2>9. \A y \in Keys : Kept(y)' /\ (y \notin overtaken' => Undisturbed(y)')
    BY <2>5, <2>6, <2>7
  <2> QED BY <2>8, <2>9 DEF RateInv
<1>3. CASE e.length >= q.limit /\ Store(k, e) /\ Record(q, s) /\ Answered(w, TRUE)
  BY <1>0, <1>1, <1>3, CountedKeeps
<1>4. CASE e.length < q.limit /\ Store(k, f) /\ Record(q, u) /\ Answered(w, FALSE)
  <2>0. e.length < e.limit
    BY <1>1, <1>4
  <2>1. f.length = e.length + 1 /\ f.limit = q.limit /\ f.last = q.at
    BY <1>1, <2>0, PushIs
  <2>2. Agrees(f, u)
    BY <1>1, <2>0, AgreesPush
  <2>3. u \in Seq(Time) /\ Len(u) = Len(s) + 1 /\ \A i \in 1..Len(s) : u[i] = s[i]
    <3> HIDE DEF Time
    <3> QED BY <1>1, AppendProperties
  <2>4. Len(s) \in Nat
    BY <1>1
  <2>5. ASSUME k \notin overtaken, q.at >= decided[k]
        PROVE  /\ Ascending(u, q.at) /\ Spaced(u, q.limit)
               /\ Before(u, Len(u) - f.length, q.at)
    <3>1. Ascending(s, q.at) /\ Spaced(s, q.limit) /\ Before(s, Len(s) - e.length, q.at)
      BY <1>1, <2>5
    <3> HIDE DEF e, s, f, q
    <3>2. Ascending(u, q.at) /\ Spaced(u, q.limit)
      BY <1>1, <1>4, <3>1, AppendSpaced
    <3> HIDE DEF u
    <3>3. Len(u) - f.length = Len(s) - e.length
      BY <1>1, <2>1, <2>3, <2>4
    <3>4. \A i \in 1..(Len(s) - e.length) : i \in 1..Len(s)
      BY <1>1, <2>4
    <3>5. Before(u, Len(u) - f.length, q.at)
      BY <2>3, <3>1, <3>3, <3>4 DEF Before
    <3> QED BY <3>2, <3>5
  <2> HIDE DEF e, s, f, u
  <2> QED BY <1>0, <1>4, <2>1, <2>2, <2>3, <2>5, CountedKeeps
<1> QED BY <1>2, <1>3, <1>4 DEF Exceeded

(* What the cleanup forgets lies outside every window to come.             *)
LEMMA SweepKeepsRate ==
  ASSUME TypeOK, RateInv, Sweep
  PROVE  RateInv'
<1>1. UNCHANGED <<now, serving, passed, decided>>
  BY DEF Sweep
<1>2. Histories'
  BY <1>1 DEF RateInv, Histories
<1>3. ASSUME NEW k \in Keys
      PROVE  Kept(k)' /\ (k \notin overtaken' => Undisturbed(k)')
  <2>1. CASE k \in DOMAIN entries /\ Stale(entries[k])
    <3>1. k \notin DOMAIN entries'
      BY <2>1 DEF Sweep
    <3>2. Kept(k)'
      BY <3>1 DEF Kept
    <3>3. ASSUME k \notin overtaken'
          PROVE  Undisturbed(k)'
      <4> DEFINE s == passed[k].times
                 d == decided[k]
      <4>1. k \notin overtaken /\ \A w \in Workers : ~Misses(serving[w], k)
        BY <2>1, <3>3 DEF Sweep
      <4>2. Undisturbed(k)
        BY <4>1 DEF RateInv
      <4>3. s \in Seq(Time) /\ d \in Time
        BY DEF RateInv, Histories
      <4>4. /\ Ascending(s, d) /\ Spaced(s, passed[k].limit)
            /\ entries[k].last = d
        BY <2>1, <4>2 DEF Undisturbed
      <4>5. now \in Time
        BY DEF TypeOK
      <4>6. ASSUME NEW t \in Time, d <= t - Window
            PROVE  Before(s, Len(s), t)
        <5>1. \A i \in DOMAIN s : s[i] <= d /\ s[i] \in Int
          <6> HIDE DEF s
          <6> QED BY <4>3, <4>4 DEF Ascending
        <5>2. DOMAIN s = 1..Len(s)
          <6> HIDE DEF s, Time
          <6> QED BY <4>3
        <5> HIDE DEF s, d
        <5> QED BY <4>3, <4>6, <5>1, <5>2 DEF Before
      <4>7. Before(s, Len(s), now)
        <5>1. now - d > Window
          BY <2>1, <4>4 DEF Stale
        <5> HIDE DEF s, d
        <5> QED BY <4>3, <4>5, <4>6, <5>1
      <4>8. ASSUME NEW w \in Workers, serving[w] # Idle, serving[w].key = k
            PROVE  Before(s, Len(s), serving[w].at)
        <5>1. ~(serving[w].at - Window < d)
          BY <4>1, <4>4, <4>8 DEF Misses
        <5>2. serving[w].at \in Time
          BY <4>8 DEF TypeOK, Request
        <5> HIDE DEF s, d
        <5> QED BY <4>3, <4>6, <5>1, <5>2
      <4> HIDE DEF s
      <4>9. passed'[k].times = s /\ passed'[k].limit = passed[k].limit
            /\ decided'[k] = d /\ now' = now /\ serving' = serving
        BY <1>1 DEF s
      <4> QED BY <3>1, <4>4, <4>7, <4>8, <4>9 DEF Undisturbed
    <3> QED BY <3>2, <3>3
  <2>2. CASE ~(k \in DOMAIN entries /\ Stale(entries[k]))
    <3>1. /\ k \in DOMAIN entries' <=> k \in DOMAIN entries
          /\ k \in DOMAIN entries => entries'[k] = entries[k]
          /\ overtaken \subseteq overtaken'
      BY <2>2 DEF Sweep
    <3>2. now' \in Time /\ now <= now'
      BY <1>1 DEF TypeOK
    <3> QED BY <1>1, <3>1, <3>2, Elsewhere
  <2> QED BY <2>1, <2>2
<1> QED BY <1>2, <1>3 DEF RateInv

LEMMA RateInvInit ==
  ASSUME Init
  PROVE  RateInv
<1>1. Histories
  BY DEF Init, Histories
<1>2. ASSUME NEW k \in Keys
      PROVE  Kept(k) /\ Undisturbed(k)
  <2>1. passed[k].times = <<>> /\ k \notin DOMAIN entries
    BY DEF Init
  <2>2. Kept(k)
    BY <2>1 DEF Kept
  <2>3. \A t : Ascending(<<>>, t) /\ Spaced(<<>>, passed[k].limit) /\ Before(<<>>, Len(<<>>), t)
    BY DEF Ascending, Spaced, Before
  <2>4. Undisturbed(k)
    BY <2>1, <2>3 DEF Undisturbed
  <2> QED BY <2>2, <2>4
<1> QED BY <1>1, <1>2 DEF RateInv

(* Every step keeps what a key is judged by.                               *)
LEMMA RateInvNext ==
  ASSUME TypeOK, TypeOK', RateInv, [Next]_vars
  PROVE  RateInv'
<1>1. ASSUME UNCHANGED <<entries, passed, order>>, now <= now',
             \A w \in Workers : serving'[w] # Idle =>
               serving'[w] = serving[w] \/ serving'[w].at = now
      PROVE  RateInv'
  <2>1. now' \in Time /\ UNCHANGED <<entries, passed, decided, overtaken>>
    BY <1>1 DEF TypeOK, order
  <2>2. ASSUME NEW k \in Keys
        PROVE  Kept(k)' /\ (k \notin overtaken' => Undisturbed(k)')
    BY <1>1, <2>1, Elsewhere
  <2>3. Histories'
    BY <2>1 DEF RateInv, Histories
  <2> QED BY <2>2, <2>3 DEF RateInv
<1>2. now \in Int
  BY DEF TypeOK
<1>3. CASE Tick
  BY <1>1, <1>2, <1>3 DEF Tick
<1>4. CASE ChangeLimit
  BY <1>1, <1>2, <1>4 DEF ChangeLimit
<1>5. ASSUME NEW w \in Workers, NEW k \in Keys, Arrive(w, k)
      PROVE  RateInv'
  <2>1. UNCHANGED <<now, entries, passed, order>>
    BY <1>5 DEF Arrive
  <2>2. \A v \in Workers : serving'[v] = serving[v] \/ serving'[v].at = now
    BY <1>5 DEF Arrive, TypeOK
  <2> QED BY <1>1, <1>2, <2>1, <2>2
<1>6. CASE UNCHANGED vars
  BY <1>1, <1>2, <1>6 DEF vars, order
<1> QED BY <1>3, <1>4, <1>5, <1>6, ExceededKeepsRate, SweepKeepsRate DEF Next

LEMMA RateInvAlways == Spec => []TypeOK /\ []RateInv
<1>1. Spec => []TypeOK
  BY RingsAndMemoryBounded, PTL
<1>2. Init => RateInv
  BY RateInvInit
<1>3. TypeOK /\ TypeOK' /\ RateInv /\ [Next]_vars => RateInv'
  BY RateInvNext
<1> QED BY <1>1, <1>2, <1>3, PTL DEF Spec

-----------------------------------------------------------------------------
(* What that means for a client.                                           *)

(* A limit of L a minute: whatever the limits, the window and the number   *)
(* of clients and handlers, no minute lets more than L requests of a key   *)
(* through that were counted, as long as they were decided in the order    *)
(* they came and the cleanup took nothing they were to be counted with.    *)
THEOREM RateIsHeld == Spec => []RateHolds
<1>1. TypeOK /\ RateInv => RateHolds
  <2> SUFFICES ASSUME TypeOK, RateInv, NEW k \in Keys \ overtaken, NEW t \in Time,
                      InWindow(k, t) # {}
               PROVE  Cardinality(InWindow(k, t)) <= passed[k].limit
    BY DEF RateHolds
  <2> DEFINE s == passed[k].times
             l == passed[k].limit
             I == InWindow(k, t)
  <2>1. Ascending(s, decided[k]) /\ Spaced(s, l)
    BY DEF RateInv, Undisturbed
  <2>2. l \in Nat /\ s \in Seq(Time)
    BY DEF RateInv, Histories
  <2>3. I = {i \in DOMAIN s : t - Window < s[i] /\ s[i] <= t}
    BY DEF InWindow
  <2> HIDE DEF s, l, I
  <2>4. DOMAIN s \subseteq Nat /\ \A i \in DOMAIN s : s[i] \in Int
    BY <2>2
  <2>5. PICK m \in I : \A i \in I : m <= i
    <3>1. I # {}
      BY DEF I
    <3> QED BY <2>3, <2>4, <3>1, Least
  <2>6. I \subseteq m..(m + l - 1)
    <3> SUFFICES ASSUME NEW i \in I PROVE i \in m..(m + l - 1)
      OBVIOUS
    <3>1. m <= i /\ m \in Nat /\ i \in Nat
      BY <2>3, <2>4, <2>5
    <3>2. ASSUME m + l <= i PROVE FALSE
      <4>1. s[m] <= s[i] - Window
        BY <2>1, <2>3, <3>2 DEF Spaced
      <4> QED BY <2>3, <2>4, <4>1
    <3> QED BY <2>2, <3>1, <3>2
  <2>7. m \in Int /\ m + l - 1 \in Int
    BY <2>2, <2>3, <2>4
  <2>8. IsFiniteSet(m..(m + l - 1)) /\ Cardinality(m..(m + l - 1)) <= l
    <3> DEFINE h == m + l - 1
    <3>1. h \in Int /\ m \in Int /\ (m > h => l = 0) /\ h - m + 1 = l
      BY <2>2, <2>7
    <3> HIDE DEF h
    <3>2. IsFiniteSet(m..h) /\ Cardinality(m..h) = IF m > h THEN 0 ELSE h - m + 1
      BY <3>1, FS_Interval
    <3>3. Cardinality(m..h) <= l
      BY <2>2, <3>1, <3>2
    <3> QED BY <3>2, <3>3 DEF h
  <2>9. /\ Cardinality(I) <= Cardinality(m..(m + l - 1))
        /\ Cardinality(I) \in Nat /\ Cardinality(m..(m + l - 1)) \in Nat
    BY <2>6, <2>8, FS_Subset, FS_CardinalityType
  <2>10. Cardinality(I) <= l
    BY <2>2, <2>8, <2>9
  <2> QED BY <2>10 DEF I, l
<1> QED BY <1>1, RateInvAlways, PTL

(* A step that ends the serving of a request is its decision.              *)
LEMMA ServedByDecision ==
  ASSUME TypeOK, [Next]_vars, NEW w \in Workers, serving[w] # Idle, serving'[w] = Idle
  PROVE  Exceeded(w)
<1>1. serving' # serving
  OBVIOUS
<1>2. ASSUME NEW v \in Workers, Exceeded(v)
      PROVE  Exceeded(w)
  BY <1>2 DEF Exceeded, Answered, TypeOK
<1>3. ASSUME NEW v \in Workers, NEW k \in Keys, Arrive(v, k)
      PROVE  FALSE
  <2>1. v # w
    BY <1>3 DEF Arrive
  <2> QED BY <1>3, <2>1 DEF Arrive, TypeOK
<1> QED BY <1>1, <1>2, <1>3 DEF Next, Tick, ChangeLimit, Sweep, vars

(* A refused request has one before it that was let through within its     *)
(* window, in whatever order the requests of a key are decided: a client   *)
(* that keeps asking is let through again once it has become rare.         *)
THEOREM BanIsLifted == Spec => BanEnds
<1>1. ASSUME TypeOK, RateInv, [Next]_vars, NEW w \in Workers,
             serving[w] # Idle, serving'[w] = Idle, verdict'.exceeded
      PROVE  \E i \in DOMAIN PassedSoFar(serving[w]) :
               PassedSoFar(serving[w])[i] > serving[w].at - Window
  <2> DEFINE q == serving[w]
             e == EntryFor(q)
             s == PassedSoFar(q)
  <2>1. Exceeded(w)
    BY <1>1, ServedByDecision
  <2>2. e.length >= q.limit
    BY <1>1, <2>1 DEF Exceeded, Answered
  <2>3. /\ q.limit \in Nat \ {0} /\ e.length \in Nat /\ e.length <= Len(s)
        /\ s \in Seq(Time)
        /\ e.length > 0 => s[Len(s) - e.length + 1] > q.at - Window
    BY <1>1, FoundBy
  <2> HIDE DEF q, e, s
  <2>4. Len(s) - e.length + 1 \in DOMAIN s /\ e.length > 0
    <3>1. DOMAIN s = 1..Len(s) /\ Len(s) \in Nat
      BY <2>3
    <3> QED BY <2>2, <2>3, <3>1
  <2>5. \E i \in DOMAIN s : s[i] > q.at - Window
    BY <2>3, <2>4
  <2> QED BY <2>5 DEF s, q
<1>2. TypeOK /\ RateInv /\ [Next]_vars =>
        [\A w \in Workers :
           serving[w] # Idle /\ serving'[w] = Idle /\ verdict'.exceeded =>
             \E i \in DOMAIN PassedSoFar(serving[w]) :
               PassedSoFar(serving[w])[i] > serving[w].at - Window]_vars
  BY <1>1
<1> QED BY <1>2, RateInvAlways, PTL DEF Spec, BanEnds

(* The stamps the ring still holds are those inside the window.            *)
LEMMA LiveAre ==
  ASSUME TypeOK, RateInv, NEW w \in Workers, serving[w] # Idle,
         serving[w].key \notin overtaken, serving[w].at >= decided[serving[w].key]
  PROVE  Cardinality(Abstract!Live(serving[w])) = EntryFor(serving[w]).length
<1> DEFINE q == serving[w]
           e == EntryFor(q)
           s == PassedSoFar(q)
           b == q.at - Window
           n == Len(s) - e.length
<1>1. /\ e.length \in Nat /\ e.length <= Len(s) /\ s \in Seq(Time) /\ q.at \in Time
      /\ e.length > 0 => s[n + 1] > b
      /\ Ascending(s, q.at) /\ Before(s, n, q.at)
  BY FoundBy
<1>2. Abstract!Live(q) = {i \in DOMAIN s : s[i] > b}
  BY DEF Abstract!Live, Abstract!Counted, PassedSoFar
<1> HIDE DEF s, e
<1>3. DOMAIN s = 1..Len(s) /\ Len(s) \in Nat /\ \A i \in 1..Len(s) : s[i] \in Int
  BY <1>1
<1>4. n \in Nat /\ b \in Int
  BY <1>1, <1>3
<1>5. \A i \in 1..n : ~(s[i] > b)
  <2>1. \A i \in 1..n : i \in 1..Len(s) /\ s[i] <= b
    BY <1>1, <1>3 DEF Before
  <2> HIDE DEF n, b
  <2> QED BY <1>3, <1>4, <2>1
<1>6. ASSUME NEW i \in (n + 1)..Len(s)
      PROVE  s[i] > b
  <2> DEFINE m == Len(s)
             l == e.length
  <2>0. n \in Nat /\ m \in Nat /\ l \in Nat /\ n = m - l /\ i \in (n + 1)..m
    BY <1>1, <1>3, <1>4, <1>6
  <2> HIDE DEF m, l
  <2>1. l > 0 /\ n + 1 \in 1..m /\ i \in 1..m /\ n + 1 <= i
    <3> HIDE DEF n
    <3> QED BY <2>0
  <2> USE DEF m, l
  <2>2. s[n + 1] <= s[i] /\ s[n + 1] > b
    BY <1>1, <1>3, <2>1 DEF Ascending
  <2> HIDE DEF n, b
  <2> QED BY <1>3, <1>4, <2>1, <2>2
<1>7. {i \in 1..Len(s) : s[i] > b} = (n + 1)..Len(s)
  <2> HIDE DEF b
  <2>1. n <= Len(s)
    BY <1>1, <1>3
  <2> HIDE DEF n
  <2> QED BY <1>3, <1>4, <1>5, <1>6, <2>1
<1>8. Cardinality((n + 1)..Len(s)) = e.length
  <2>1. n + 1 \in Int /\ Len(s) \in Int
    BY <1>3, <1>4
  <2>2. Cardinality((n + 1)..Len(s)) = IF n + 1 > Len(s) THEN 0 ELSE Len(s) - (n + 1) + 1
    BY <2>1, FS_Interval
  <2> QED BY <1>1, <1>3, <2>2
<1> QED BY <1>2, <1>3, <1>7, <1>8 DEF e

LEMMA SameCardinality ==
  ASSUME NEW S
  PROVE  Abstract!Cardinality(S) = Cardinality(S)
BY Zenon DEF Abstract!Cardinality, Cardinality

(* Decided in the order they came, the requests of a key are answered as a *)
(* sliding window answers them: the ring, its growing and its giving up    *)
(* change nothing of the answer.                                           *)
THEOREM LimiterIsASlidingWindow == Spec => ImplementsSlidingWindow
<1>1. Init => Abstract!Init
  BY DEF Init, Abstract!Init
<1>2. ASSUME TypeOK, RateInv, NEW w \in Workers, Exceeded(w), verdict'.key \notin overtaken'
      PROVE  Abstract!Next
  <2> DEFINE q == serving[w]
             k == q.key
             e == EntryFor(q)
  <2>1. q # Idle /\ verdict'.key = k
    BY <1>2 DEF Exceeded, Answered
  <2>2. \E x : Answered(w, x)
    BY <1>2 DEF Exceeded
  <2>3. k \notin overtaken /\ q.at >= decided[k]
    BY <1>2, <2>1, <2>2, AnsweredRecords
  <2>4. q \in Request /\ PassedSoFar(q) = Abstract!Counted(q)
    BY <1>2, <2>1, FoundBy DEF PassedSoFar, Abstract!Counted
  <2>5. Cardinality(Abstract!Live(q)) = e.length
    BY <1>2, <2>1, <2>3, LiveAre
  <2>6. CASE Full(q) /\ Answered(w, FALSE) /\ UNCHANGED <<entries, passed>>
    <3>1. k \notin DOMAIN entries
      BY <2>6 DEF Full
    <3>2. Before(passed[k].times, Len(passed[k].times), q.at)
      BY <1>2, <2>1, <2>3, <3>1, FoundBy
    <3>3. DOMAIN passed[k].times = 1..Len(passed[k].times)
      <4>1. passed[k].times \in Seq(Time)
        BY <1>2, <2>1, FoundBy DEF RateInv, Histories
      <4> HIDE DEF k, Time
      <4> QED BY <4>1
    <3>4. Abstract!PassUncounted(q)
      BY <2>6, <3>2, <3>3 DEF Before, Abstract!PassUncounted, Abstract!Answer, Answered
    <3> QED BY <2>4, <3>4 DEF Abstract!Next, Abstract!Request, Request
  <2>7. CASE e.length >= q.limit /\ Record(q, PassedSoFar(q)) /\ Answered(w, TRUE)
    <3>1. Abstract!Take(q, Abstract!Counted(q))
      BY <2>4, <2>7 DEF Record, Abstract!Take
    <3>2. Abstract!Answer(q, TRUE)
      BY <2>7 DEF Answered, Abstract!Answer
    <3>3. Cardinality(Abstract!Live(q)) >= q.limit
      BY <2>5, <2>7
    <3>4. Abstract!Refuse(q)
      BY <3>1, <3>2, <3>3, SameCardinality DEF Abstract!Refuse
    <3> QED BY <2>4, <3>4 DEF Abstract!Next, Abstract!Request, Request
  <2>8. CASE e.length < q.limit /\ Record(q, Append(PassedSoFar(q), q.at)) /\ Answered(w, FALSE)
    <3>1. Abstract!Take(q, Append(Abstract!Counted(q), q.at))
      BY <2>4, <2>8 DEF Record, Abstract!Take
    <3>2. Abstract!Answer(q, FALSE)
      BY <2>8 DEF Answered, Abstract!Answer
    <3>3. Cardinality(Abstract!Live(q)) < q.limit
      BY <2>5, <2>8
    <3>4. Abstract!Allow(q)
      BY <3>1, <3>2, <3>3, SameCardinality DEF Abstract!Allow
    <3> QED BY <2>4, <3>4 DEF Abstract!Next, Abstract!Request, Request
  <2> QED BY <1>2, <2>6, <2>7, <2>8 DEF Exceeded
<1>3. TypeOK /\ RateInv /\ [Next]_vars =>
        [Abstract!Next \/ verdict'.key \in overtaken']_<<passed, verdict>>
  <2> SUFFICES ASSUME TypeOK, RateInv, [Next]_vars
               PROVE  [Abstract!Next \/ verdict'.key \in overtaken']_<<passed, verdict>>
    OBVIOUS
  <2>1. CASE \E w \in Workers : Exceeded(w)
    BY <1>2, <2>1
  <2>2. CASE UNCHANGED <<passed, verdict>>
    BY <2>2
  <2>3. ASSUME NEW w \in Workers, NEW k \in Keys, Arrive(w, k)
        PROVE  UNCHANGED <<passed, verdict>>
    BY <2>3 DEF Arrive
  <2>4. Tick \/ ChangeLimit \/ Sweep \/ UNCHANGED vars => UNCHANGED <<passed, verdict>>
    BY DEF Tick, ChangeLimit, Sweep, vars
  <2> QED BY <2>1, <2>2, <2>3, <2>4 DEF Next
<1> QED BY <1>1, <1>3, RateInvAlways, PTL DEF Spec, ImplementsSlidingWindow
=============================================================================
