--------------------------- MODULE TrafficProofs ---------------------------
(***************************************************************************)
(* Theorems about Traffic as a part of NodeRecords: what the reports, the  *)
(* replay and the aggregate say of a log, for every list of rules, every   *)
(* visit and a log of any length. What is read off a log is a recursive    *)
(* function of its lines; for each of them a lemma says what it is of a    *)
(* prefix and what one line more makes of it. The invariant is ReplayInv.  *)
(***************************************************************************)
EXTENDS NodeRecords, FunctionTheorems, FiniteSetTheorems, SequenceTheorems,
        WellFoundedInduction, TLAPS

(* A set of numbers has a least one; what holds of 0 and of the next one   *)
(* holds up to N.                                                          *)
LEMMA Least ==
  ASSUME NEW S \in SUBSET Nat, S # {}
  PROVE  \E n \in S : \A m \in S : n <= m
<1>1. PICK n \in S : \A m \in S : ~(<<m, n>> \in OpToRel(<, Nat))
  BY NatLessThanWellFounded, WFMin
<1>2. \A m \in S : ~(m < n)
  BY <1>1 DEF OpToRel
<1> QED BY <1>2

LEMMA Upwards ==
  ASSUME NEW N \in Nat, NEW S, 0 \in S, \A n \in 0..N : n # N /\ n \in S => n + 1 \in S
  PROVE  N \in S
<1> DEFINE Out == {n \in 0..N : n \notin S}
<1> SUFFICES ASSUME Out # {} PROVE FALSE
  OBVIOUS
<1>0. Out \in SUBSET Nat
  OBVIOUS
<1>1. PICK n \in Out : \A m \in Out : n <= m
  <2> HIDE DEF Out
  <2> QED BY <1>0, Least
<1>2. n # 0 /\ n - 1 \in 0..N /\ n - 1 # N
  BY <1>1
<1>3. n - 1 \in S
  BY <1>1, <1>2
<1> QED BY <1>1, <1>2, <1>3

With(s, places, t, n) == IF n \in places THEN Append(t, s[n]) ELSE t

(* What At takes of each prefix.                                           *)
UpTo(u, s, places, m) ==
  u = [n \in 0..m |-> IF n = 0 THEN <<>> ELSE With(s, places, u[n - 1], n)]

(* At is what it makes of the whole sequence.                              *)
LEMMA AtIsUpTo ==
  ASSUME NEW s, NEW places, Len(s) \in Nat
  PROVE  \E u : UpTo(u, s, places, Len(s)) /\ At(s, places) = u[Len(s)]
<1> DEFINE Good == {m \in 0..Len(s) : \E u : UpTo(u, s, places, m)}
<1>1. 0 \in Good
  <2>1. UpTo([n \in 0..0 |-> <<>>], s, places, 0)
    BY DEF UpTo
  <2> QED BY <2>1
<1>2. ASSUME NEW m \in 0..Len(s), m # Len(s), m \in Good PROVE m + 1 \in Good
  <2>1. PICK u : UpTo(u, s, places, m)
    BY <1>2
  <2> DEFINE Step(v, n) == IF n = 0 THEN <<>> ELSE With(s, places, v[n - 1], n)
             w == [n \in 0..m+1 |-> IF n = m + 1 THEN Step(u, n) ELSE u[n]]
  <2>2. \A n \in 0..m : u[n] = Step(u, n)
    BY <2>1 DEF UpTo
  <2>3. ASSUME NEW n \in 0..m+1 PROVE w[n] = Step(w, n)
    <3>1. CASE n = 0
      BY <3>1, <2>2
    <3>2. CASE n # 0
      <4>1. n - 1 \in 0..m /\ n - 1 \in 0..m+1 /\ n - 1 # m + 1
        BY <3>2
      <4>2. w[n - 1] = u[n - 1]
        BY <4>1
      <4>3. w[n] = Step(u, n)
        BY <2>2, <3>2
      <4> QED BY <4>2, <4>3, <3>2
    <3> QED BY <3>1, <3>2
  <2>4. UpTo(w, s, places, m + 1)
    BY <2>3 DEF UpTo
  <2>5. m + 1 \in 0..Len(s)
    BY <1>2
  <2> QED BY <2>4, <2>5
<1>3. Len(s) \in Good
  <2> HIDE DEF Good
  <2> QED BY <1>1, <1>2, Upwards
<1>4. PICK u : UpTo(u, s, places, Len(s))
  BY <1>3
<1> DEFINE c == CHOOSE v : UpTo(v, s, places, Len(s))
<1>5. UpTo(c, s, places, Len(s))
  BY <1>4
<1>6. At(s, places) = c[Len(s)]
  BY DEF At, UpTo, With
<1> QED BY <1>5, <1>6

-----------------------------------------------------------------------------
(* h enumerates a set of places of s, from the first on, and t has what is  *)
(* there.                                                                   *)
Enumerates(h, n, P) ==
  /\ h \in [1..n -> P]
  /\ \A p \in P : \E j \in 1..n : h[j] = p
  /\ \A j, k \in 1..n : j < k => h[j] < h[k]

Takes(t, s, S, h, P) ==
  /\ t \in Seq(S)
  /\ Enumerates(h, Len(t), P)
  /\ \A j \in 1..Len(t) : t[j] = s[h[j]]

(* An enumeration, and the same with one place more.                       *)
LEMMA OneMore ==
  ASSUME NEW n \in Nat, NEW N \in Nat, NEW P \in SUBSET (1..N), NEW h, Enumerates(h, n, P)
  PROVE  Enumerates([j \in 1..n+1 |-> IF j = n + 1 THEN N + 1 ELSE h[j]], n + 1, P \cup {N + 1})
<1> DEFINE g == [j \in 1..n+1 |-> IF j = n + 1 THEN N + 1 ELSE h[j]]
<1>0. h \in [1..n -> P] /\ \A p \in P : \E j \in 1..n : h[j] = p
  BY DEF Enumerates
<1>a. \A j, k \in 1..n : j < k => h[j] < h[k]
  BY DEF Enumerates
<1>1. ASSUME NEW j \in 1..n PROVE g[j] = h[j] /\ h[j] \in 1..N /\ h[j] \in P
  <2>1. j \in 1..n+1 /\ j # n + 1
    OBVIOUS
  <2>2. h[j] \in P
    BY <1>0
  <2> QED BY <2>1, <2>2
<1>2. g[n + 1] = N + 1
  OBVIOUS
<1>3. g \in [1..n+1 -> P \cup {N + 1}]
  <2>1. \A j \in 1..n+1 : j # n + 1 => j \in 1..n
    OBVIOUS
  <2>2. \A j \in 1..n+1 : (IF j = n + 1 THEN N + 1 ELSE h[j]) \in P \cup {N + 1}
    BY <2>1, <1>0
  <2> QED BY <2>2
<1>4. \A p \in P \cup {N + 1} : \E j \in 1..n+1 : g[j] = p
  <2>1. ASSUME NEW p \in P PROVE \E j \in 1..n+1 : g[j] = p
    <3>1. PICK j \in 1..n : h[j] = p
      BY <1>0
    <3>2. j \in 1..n+1 /\ g[j] = p
      BY <3>1, <1>1
    <3> QED BY <3>2
  <2>2. n + 1 \in 1..n+1
    OBVIOUS
  <2> QED BY <2>1, <2>2, <1>2
<1>5. ASSUME NEW j \in 1..n+1, NEW k \in 1..n+1, j < k PROVE g[j] < g[k]
  <2>1. j \in 1..n
    BY <1>5
  <2>2. CASE k = n + 1
    <3>1. g[j] \in 1..N /\ g[k] = N + 1
      BY <2>1, <2>2, <1>1, <1>2
    <3> HIDE DEF g
    <3> QED BY <3>1
  <2>3. CASE k \in 1..n
    <3>1. g[j] = h[j] /\ g[k] = h[k]
      BY <2>1, <2>3, <1>1
    <3>2. h[j] < h[k]
      BY <2>1, <2>3, <1>a, <1>5
    <3> HIDE DEF g
    <3> QED BY <3>1, <3>2
  <2> QED BY <2>2, <2>3
<1> HIDE DEF g
<1>6. Enumerates(g, n + 1, P \cup {N + 1})
  BY <1>3, <1>4, <1>5 DEF Enumerates
<1> QED BY <1>6 DEF g

LEMMA AtTakesEach ==
  ASSUME NEW S, NEW s \in Seq(S), NEW P, NEW u, UpTo(u, s, P, Len(s))
  PROVE  \A n \in 0..Len(s) : \E h : Takes(u[n], s, S, h, P \cap (1..n))
<1> DEFINE Good == {n \in 0..Len(s) : \E h : Takes(u[n], s, S, h, P \cap (1..n))}
<1>1. 0 \in Good
  <2>1. u[0] = <<>>
    BY DEF UpTo
  <2>2. Takes(<<>>, s, S, <<>>, P \cap (1..0))
    BY DEF Takes, Enumerates
  <2> QED BY <2>1, <2>2
<1>2. ASSUME NEW n \in 0..Len(s), n # Len(s), n \in Good PROVE n + 1 \in Good
  <2>1. PICK h : Takes(u[n], s, S, h, P \cap (1..n))
    BY <1>2
  <2>2. n + 1 \in 0..Len(s) /\ n + 1 \in 1..Len(s)
    BY <1>2
  <2>3. u[n + 1] = IF n + 1 \in P THEN Append(u[n], s[n + 1]) ELSE u[n]
    <3>1. u[n + 1] = With(s, P, u[(n + 1) - 1], n + 1)
      BY <2>2 DEF UpTo
    <3>2. (n + 1) - 1 = n
      OBVIOUS
    <3> QED BY <3>1, <3>2 DEF With
  <2>4. CASE n + 1 \in P
    <3> DEFINE t == u[n]
               g == [j \in 1..Len(t)+1 |-> IF j = Len(t) + 1 THEN n + 1 ELSE h[j]]
    <3>1. t \in Seq(S) /\ Len(t) \in Nat /\ s[n + 1] \in S
      BY <2>1, <2>2 DEF Takes
    <3>2. u[n + 1] \in Seq(S) /\ Len(u[n + 1]) = Len(t) + 1
      BY <3>1, <2>3, <2>4
    <3>3. P \cap (1..(n + 1)) = (P \cap (1..n)) \cup {n + 1}
      BY <2>4
    <3>4. Enumerates(g, Len(t) + 1, P \cap (1..(n + 1)))
      <4>1. Enumerates(h, Len(t), P \cap (1..n)) /\ P \cap (1..n) \in SUBSET (1..n)
        BY <2>1 DEF Takes
      <4>2. n \in Nat
        OBVIOUS
      <4> HIDE DEF t
      <4>3. Enumerates(g, Len(t) + 1, (P \cap (1..n)) \cup {n + 1})
        BY <4>1, <4>2, <3>1, OneMore
      <4> QED BY <4>3, <3>3
    <3>5. \A j \in 1..Len(t)+1 : u[n + 1][j] = s[g[j]]
      BY <3>1, <2>1, <2>3, <2>4 DEF Takes
    <3>6. Takes(u[n + 1], s, S, g, P \cap (1..(n + 1)))
      BY <3>2, <3>4, <3>5 DEF Takes
    <3> QED BY <3>6, <2>2
  <2>5. CASE n + 1 \notin P
    <3>1. P \cap (1..(n + 1)) = P \cap (1..n)
      BY <2>5
    <3> QED BY <3>1, <2>1, <2>2, <2>3, <2>5
  <2> QED BY <2>4, <2>5
<1>3. ASSUME NEW N \in 0..Len(s) PROVE N \in Good
  <2>1. \A n \in 0..N : n # N /\ n \in Good => n + 1 \in Good
    <3> HIDE DEF Good
    <3> QED BY <1>2
  <2> HIDE DEF Good
  <2> QED BY <2>1, <1>1, Upwards
<1> QED BY <1>3

(* At takes what is at the places, in their order.                         *)
LEMMA AtTakes ==
  ASSUME NEW S, NEW s \in Seq(S), NEW P
  PROVE  \E h : Takes(At(s, P), s, S, h, P \cap (1..Len(s)))
<1>1. PICK u : UpTo(u, s, P, Len(s)) /\ At(s, P) = u[Len(s)]
  BY AtIsUpTo
<1>2. Len(s) \in 0..Len(s)
  OBVIOUS
<1>3. \E h : Takes(u[Len(s)], s, S, h, P \cap (1..Len(s)))
  BY <1>1, <1>2, AtTakesEach
<1> QED BY <1>1, <1>3

(* Two enumerations of a set are alike from the first place on.            *)
LEMMA SameStart ==
  ASSUME NEW P \in SUBSET Nat, NEW a \in Nat, NEW b \in Nat, NEW e, NEW f,
         Enumerates(e, a, P), Enumerates(f, b, P), NEW i \in 1..a
  PROVE  i \in 1..b /\ e[i] = f[i]
<1> DEFINE Bad == {j \in 1..a : ~(j \in 1..b /\ e[j] = f[j])}
<1> SUFFICES ASSUME Bad # {} PROVE FALSE
  OBVIOUS
<1>0. Bad \in SUBSET Nat
  OBVIOUS
<1>1. PICK j \in Bad : \A k \in Bad : j <= k
  <2> HIDE DEF Bad
  <2> QED BY <1>0, Least
<1>2. j \in 1..a /\ j \in Nat
  OBVIOUS
<1>3. \A k \in 1..(j - 1) : k \in 1..a /\ k \in 1..b /\ e[k] = f[k]
  BY <1>1
<1>4. ~(j \in 1..b /\ e[j] = f[j])
  OBVIOUS
<1> HIDE DEF Bad
<1>5. \A k \in 1..a : e[k] \in P /\ e[k] \in Nat
  BY DEF Enumerates
<1>6. \A k \in 1..b : f[k] \in P /\ f[k] \in Nat
  BY DEF Enumerates
<1>7. PICK k \in 1..b : f[k] = e[j]
  BY <1>2, <1>5 DEF Enumerates
<1>8. \A m \in 1..a, n \in 1..a : m < n => e[m] < e[n]
  BY DEF Enumerates
<1>9. \A m \in 1..b, n \in 1..b : m < n => f[m] < f[n]
  BY DEF Enumerates
<1>10. ~(k < j)
  <2> SUFFICES ASSUME k < j PROVE FALSE
    OBVIOUS
  <2>1. k \in 1..(j - 1)
    BY <1>2
  <2>2. e[k] = e[j] /\ k \in 1..a
    BY <2>1, <1>3, <1>7
  <2>3. e[k] < e[j] /\ e[j] \in Nat
    BY <2>2, <1>2, <1>5, <1>8
  <2> QED BY <2>2, <2>3
<1>11. j \in 1..b /\ j < k
  BY <1>2, <1>4, <1>7, <1>10
<1>12. f[j] < f[k] /\ f[j] \in P /\ f[j] \in Nat
  BY <1>6, <1>9, <1>11
<1>13. PICK l \in 1..a : e[l] = f[j]
  BY <1>12 DEF Enumerates
<1>14. l < j
  <2>1. j < l => e[j] < e[l]
    BY <1>2, <1>8
  <2>2. e[l] < e[j] /\ e[l] \in Nat /\ e[j] \in Nat
    BY <1>2, <1>5, <1>7, <1>12, <1>13
  <2>3. l # j /\ ~(j < l)
    BY <2>1, <2>2
  <2> QED BY <2>3, <1>2
<1>15. l \in 1..(j - 1)
  BY <1>14, <1>2
<1>16. f[l] = f[j] /\ l \in 1..b
  BY <1>3, <1>13, <1>15
<1>17. f[l] < f[j]
  BY <1>9, <1>11, <1>14, <1>16
<1> QED BY <1>16, <1>17, <1>12

(* There is one enumeration of a set.                                      *)
LEMMA OneEnumeration ==
  ASSUME NEW P \in SUBSET Nat, NEW m \in Nat, NEW n \in Nat, NEW g, NEW h,
         Enumerates(g, m, P), Enumerates(h, n, P)
  PROVE  m = n /\ g = h
<1>2. \A j \in 1..m : j \in 1..n /\ g[j] = h[j]
  BY SameStart
<1>3. \A j \in 1..n : j \in 1..m /\ h[j] = g[j]
  BY SameStart
<1>4. m = n
  <2>1. m # 0 => m \in 1..m
    OBVIOUS
  <2>2. n # 0 => n \in 1..n
    OBVIOUS
  <2> QED BY <2>1, <2>2, <1>2, <1>3
<1>5. g \in [1..m -> P] /\ h \in [1..n -> P]
  BY DEF Enumerates
<1> QED BY <1>2, <1>4, <1>5

LEMMA Counted ==
  ASSUME NEW P \in SUBSET Nat, NEW n \in Nat, NEW h, Enumerates(h, n, P)
  PROVE  IsFiniteSet(P) /\ Cardinality(P) = n
<1>0. \A j, k \in 1..n : j < k => h[j] < h[k]
  BY DEF Enumerates
<1>a. h \in [1..n -> P]
  BY DEF Enumerates
<1>b. \A p \in P : \E j \in 1..n : h[j] = p
  BY DEF Enumerates
<1>1. ASSUME NEW j \in 1..n, NEW k \in 1..n, h[j] = h[k] PROVE j = k
  <2>1. h[j] \in Nat /\ h[k] \in Nat
    BY <1>a
  <2>2. ~(j < k) /\ ~(k < j)
    BY <2>1, <1>0, <1>1
  <2> QED BY <2>2
<1>2. h \in Bijection(1..n, P)
  BY <1>a, <1>b, <1>1 DEF Bijection, Injection, Surjection, IsInjective
<1>3. IsFiniteSet(1..n) /\ Cardinality(1..n) = n
  BY FS_Interval
<1> QED BY <1>2, <1>3, FS_Bijection DEF ExistsBijection

(* What the decoder makes of the lines: ids are compared, priorities are    *)
(* numbers.                                                                 *)
Numbered(rules) ==
  /\ Len(rules) \in Nat /\ DOMAIN rules = 1..Len(rules)
  /\ \A i \in DOMAIN rules : rules[i].id \in Nat /\ rules[i].priority \in Int
  /\ \A i, j \in DOMAIN rules : rules[i].id = rules[j].id => i = j

Enabled(rules) == {i \in DOMAIN rules : rules[i].enabled}
Sooners(rules, i) == {j \in Enabled(rules) : Sooner(rules, j, i)}
PlaceOf(rules, n) ==
  CHOOSE i \in Enabled(rules) : Cardinality(Sooners(rules, i)) = n - 1

(* Sooner is a strict order of the lines, and a total one: two rules have  *)
(* two ids.                                                                *)
LEMMA SoonerOrders ==
  ASSUME NEW rules, Numbered(rules),
         NEW i \in DOMAIN rules, NEW j \in DOMAIN rules, NEW k \in DOMAIN rules
  PROVE  /\ ~Sooner(rules, i, i)
         /\ i # j => (Sooner(rules, i, j) <=> Before(rules[i], rules[j]))
         /\ i # j => Sooner(rules, i, j) \/ Sooner(rules, j, i)
         /\ ~(Sooner(rules, i, j) /\ Sooner(rules, j, i))
         /\ Sooner(rules, i, j) /\ Sooner(rules, j, k) => Sooner(rules, i, k)
<1>1. /\ rules[i].id \in Nat /\ rules[i].priority \in Int
      /\ rules[j].id \in Nat /\ rules[j].priority \in Int
      /\ rules[k].id \in Nat /\ rules[k].priority \in Int
      /\ i \in Int /\ j \in Int /\ k \in Int
  BY DEF Numbered
<1>2. /\ i # j => rules[i].id # rules[j].id
      /\ i # k => rules[i].id # rules[k].id
      /\ j # k => rules[j].id # rules[k].id
  BY DEF Numbered
<1>3. ~Sooner(rules, i, i)
  BY <1>1 DEF Sooner, Before
<1>4. i # j => (Sooner(rules, i, j) <=> Before(rules[i], rules[j]))
  BY <1>1, <1>2 DEF Sooner, Before
<1>5. j # k => (Sooner(rules, j, k) <=> Before(rules[j], rules[k]))
  BY <1>1, <1>2 DEF Sooner, Before
<1>6. i # k => (Sooner(rules, i, k) <=> Before(rules[i], rules[k]))
  BY <1>1, <1>2 DEF Sooner, Before
<1>7. i # j => (Sooner(rules, j, i) <=> Before(rules[j], rules[i]))
  BY <1>1, <1>2 DEF Sooner, Before
<1>8. i # j => Before(rules[i], rules[j]) \/ Before(rules[j], rules[i])
  BY <1>1, <1>2 DEF Before
<1>9. ~(Before(rules[i], rules[j]) /\ Before(rules[j], rules[i]))
  BY <1>1 DEF Before
<1>10. Before(rules[i], rules[j]) /\ Before(rules[j], rules[k]) => Before(rules[i], rules[k])
  BY <1>1 DEF Before
<1> QED BY <1>3, <1>4, <1>5, <1>6, <1>7, <1>8, <1>9, <1>10

LEMMA EnabledFinite ==
  ASSUME NEW rules, Numbered(rules)
  PROVE  /\ IsFiniteSet(Enabled(rules)) /\ Cardinality(Enabled(rules)) \in Nat
         /\ \A i : IsFiniteSet(Sooners(rules, i)) /\ Cardinality(Sooners(rules, i)) \in Nat
<1>1. IsFiniteSet(DOMAIN rules)
  BY FS_Interval DEF Numbered
<1>2. Enabled(rules) \in SUBSET DOMAIN rules
  BY DEF Enabled
<1>3. IsFiniteSet(Enabled(rules))
  BY <1>1, <1>2, FS_Subset
<1>4. ASSUME NEW i PROVE IsFiniteSet(Sooners(rules, i))
  <2>1. Sooners(rules, i) \in SUBSET Enabled(rules)
    BY DEF Sooners
  <2> QED BY <2>1, <1>3, FS_Subset
<1> QED BY <1>3, <1>4, FS_CardinalityType

(* Ranks are as the rules.                                                 *)
LEMMA RanksAscend ==
  ASSUME NEW rules, Numbered(rules),
         NEW i \in Enabled(rules), NEW j \in Enabled(rules), Sooner(rules, i, j)
  PROVE  Cardinality(Sooners(rules, i)) < Cardinality(Sooners(rules, j))
<1>0. Enabled(rules) \subseteq DOMAIN rules
  BY DEF Enabled
<1>1. Sooners(rules, i) \in SUBSET Sooners(rules, j)
  <2> SUFFICES ASSUME NEW k \in Sooners(rules, i) PROVE k \in Sooners(rules, j)
    OBVIOUS
  <2>1. k \in Enabled(rules) /\ Sooner(rules, k, i)
    BY DEF Sooners
  <2>2. Sooner(rules, k, j)
    BY <2>1, <1>0, SoonerOrders
  <2> QED BY <2>1, <2>2 DEF Sooners
<1>2. i \in Sooners(rules, j) /\ i \notin Sooners(rules, i)
  BY <1>0, SoonerOrders DEF Sooners
<1>3. IsFiniteSet(Sooners(rules, j)) /\ Cardinality(Sooners(rules, j)) \in Nat
      /\ Cardinality(Sooners(rules, i)) \in Nat
  BY EnabledFinite
<1> QED BY <1>1, <1>2, <1>3, FS_Subset

(* Every rank is the place of one enabled rule, and every enabled rule has *)
(* a rank.                                                                 *)
LEMMA Places ==
  ASSUME NEW rules, Numbered(rules)
  PROVE  LET C == Cardinality(Enabled(rules)) IN
         /\ \A n \in 1..C : /\ PlaceOf(rules, n) \in Enabled(rules)
                            /\ Cardinality(Sooners(rules, PlaceOf(rules, n))) = n - 1
         /\ \A i \in Enabled(rules) :
              Cardinality(Sooners(rules, i)) + 1 \in 1..C
              /\ PlaceOf(rules, Cardinality(Sooners(rules, i)) + 1) = i
<1> DEFINE C == Cardinality(Enabled(rules))
           rank == [i \in Enabled(rules) |-> Cardinality(Sooners(rules, i))]
<1>0. Enabled(rules) \subseteq DOMAIN rules
  BY DEF Enabled
<1>1. IsFiniteSet(Enabled(rules)) /\ C \in Nat
      /\ \A i : IsFiniteSet(Sooners(rules, i)) /\ Cardinality(Sooners(rules, i)) \in Nat
  BY EnabledFinite
<1>2. ASSUME NEW i \in Enabled(rules) PROVE Cardinality(Sooners(rules, i)) \in 0..(C - 1)
  <2>1. Sooners(rules, i) \in SUBSET Enabled(rules) /\ i \notin Sooners(rules, i)
    BY <1>0, SoonerOrders DEF Sooners
  <2>2. Cardinality(Sooners(rules, i)) <= C /\ Cardinality(Sooners(rules, i)) # C
    BY <2>1, <1>1, FS_Subset
  <2> HIDE DEF C
  <2> QED BY <2>2, <1>1
<1>3. ASSUME NEW i \in Enabled(rules), NEW j \in Enabled(rules),
             Cardinality(Sooners(rules, i)) = Cardinality(Sooners(rules, j))
      PROVE  i = j
  <2>1. i # j => Sooner(rules, i, j) \/ Sooner(rules, j, i)
    BY <1>0, SoonerOrders
  <2>2. ~(Cardinality(Sooners(rules, i)) < Cardinality(Sooners(rules, j)))
        /\ ~(Cardinality(Sooners(rules, j)) < Cardinality(Sooners(rules, i)))
    BY <1>1, <1>3
  <2> QED BY <2>1, <2>2, RanksAscend
<1>4. rank \in Injection(Enabled(rules), 0..(C - 1))
  BY <1>2, <1>3 DEF Injection, IsInjective
<1>5. IsFiniteSet(0..(C - 1)) /\ Cardinality(0..(C - 1)) = C
  <2> HIDE DEF C
  <2>1. IsFiniteSet(0..(C - 1)) /\ Cardinality(0..(C - 1)) = IF 0 > C - 1 THEN 0 ELSE (C - 1) - 0 + 1
    BY <1>1, FS_Interval
  <2> QED BY <2>1, <1>1
<1>6. rank \in Surjection(Enabled(rules), 0..(C - 1))
  <2> HIDE DEF rank
  <2> QED BY <1>4, <1>5, FS_Injection
<1>7. \A m \in 0..(C - 1) : \E i \in Enabled(rules) : Cardinality(Sooners(rules, i)) = m
  <2>1. \A m \in 0..(C - 1) : \E i \in Enabled(rules) : rank[i] = m
    <3> HIDE DEF rank
    <3> QED BY <1>6 DEF Surjection
  <2> QED BY <2>1
<1>8. ASSUME NEW n \in 1..C
      PROVE  /\ PlaceOf(rules, n) \in Enabled(rules)
             /\ Cardinality(Sooners(rules, PlaceOf(rules, n))) = n - 1
  <2>1. n - 1 \in 0..(C - 1)
    <3> HIDE DEF C
    <3> QED BY <1>1
  <2>2. \E i \in Enabled(rules) : Cardinality(Sooners(rules, i)) = n - 1
    BY <2>1, <1>7
  <2> QED BY <2>2 DEF PlaceOf
<1>9. ASSUME NEW i \in Enabled(rules)
      PROVE  /\ Cardinality(Sooners(rules, i)) + 1 \in 1..C
             /\ PlaceOf(rules, Cardinality(Sooners(rules, i)) + 1) = i
  <2> DEFINE n == Cardinality(Sooners(rules, i)) + 1
  <2>1. n \in 1..C /\ n - 1 = Cardinality(Sooners(rules, i))
    <3>1. Cardinality(Sooners(rules, i)) \in 0..(C - 1)
      BY <1>2
    <3> HIDE DEF C
    <3> QED BY <3>1, <1>1
  <2>2. PlaceOf(rules, n) \in Enabled(rules)
        /\ Cardinality(Sooners(rules, PlaceOf(rules, n))) = n - 1
    BY <2>1, <1>8
  <2>3. PlaceOf(rules, n) = i
    BY <2>1, <2>2, <1>3
  <2> QED BY <2>1, <2>3
<1> QED BY <1>8, <1>9

(* The rules of Effective, each at its rank.                               *)
LEMMA EffectiveRanks ==
  ASSUME NEW rules, Numbered(rules)
  PROVE  Effective(rules) = [n \in 1..Cardinality(Enabled(rules)) |-> rules[PlaceOf(rules, n)]]
<1> DEFINE C == Cardinality(Enabled(rules))
           g == [n \in 0..C |-> [k \in 1..n |-> rules[PlaceOf(rules, k)]]]
           T == {rules[PlaceOf(rules, k)] : k \in 1..C}
           Is(f) == f = [n \in 0..C |-> IF n = 0 THEN <<>>
                                        ELSE Append(f[n - 1], rules[PlaceOf(rules, n)])]
<1>1. C \in Nat
  BY EnabledFinite
<1>2. ASSUME NEW n \in 0..C PROVE g[n] \in Seq(T) /\ Len(g[n]) = n
  <2>1. n \in Nat /\ \A k \in 1..n : k \in 1..C
    BY <1>1
  <2>2. [k \in 1..n |-> rules[PlaceOf(rules, k)]] \in [1..n -> T]
    BY <2>1
  <2>3. g[n] \in [1..n -> T]
    BY <2>2
  <2> HIDE DEF g, T
  <2> QED BY <2>1, <2>3
<1>3. ASSUME NEW n \in 1..C PROVE g[n] = Append(g[n - 1], rules[PlaceOf(rules, n)])
  <2>1. n \in 0..C /\ n - 1 \in 0..C /\ rules[PlaceOf(rules, n)] \in T
    BY <1>1
  <2>2. g[n] \in Seq(T) /\ g[n - 1] \in Seq(T) /\ Len(g[n]) = n /\ Len(g[n - 1]) = n - 1
    BY <2>1, <1>2
  <2>3. \A k \in 1..n : g[n][k] = Append(g[n - 1], rules[PlaceOf(rules, n)])[k]
    <3> SUFFICES ASSUME NEW k \in 1..n
                 PROVE  g[n][k] = Append(g[n - 1], rules[PlaceOf(rules, n)])[k]
      OBVIOUS
    <3>1. g[n][k] = rules[PlaceOf(rules, k)]
      BY <2>1
    <3>2. k # n => k \in 1..(n - 1) /\ g[n - 1][k] = rules[PlaceOf(rules, k)]
      BY <2>1
    <3> HIDE DEF g, T
    <3> QED BY <2>1, <2>2, <3>1, <3>2
  <2>4. Append(g[n - 1], rules[PlaceOf(rules, n)]) \in Seq(T)
        /\ Len(Append(g[n - 1], rules[PlaceOf(rules, n)])) = n
    <3> HIDE DEF g, T
    <3> QED BY <2>1, <2>2
  <2> HIDE DEF g, T
  <2> QED BY <2>2, <2>3, <2>4, SeqEqual
<1>4. g[0] = <<>>
  BY <1>1
<1>5. Is(g)
  <2>1. \A n \in 0..C : g[n] = IF n = 0 THEN <<>> ELSE Append(g[n - 1], rules[PlaceOf(rules, n)])
    <3> HIDE DEF g
    <3>1. \A n \in 0..C : n # 0 => n \in 1..C
      BY <1>1
    <3> QED BY <3>1, <1>3, <1>4
  <2>2. g = [n \in 0..C |-> g[n]]
    OBVIOUS
  <2> HIDE DEF g
  <2> QED BY <2>1, <2>2
<1> DEFINE c == CHOOSE f : Is(f)
<1>6. Is(c)
  BY <1>5
<1>7. Effective(rules) = c[C]
  BY DEF Effective, PlaceOf, Sooners, Enabled
<1>8. c[C] = g[C]
  <2> DEFINE Good == {n \in 0..C : c[n] = g[n]}
  <2> HIDE DEF c, g
  <2>1. 0 \in Good
    BY <1>1, <1>4, <1>6
  <2>2. ASSUME NEW n \in 0..C, n # C, n \in Good PROVE n + 1 \in Good
    <3>1. n + 1 \in 1..C /\ (n + 1) - 1 = n /\ n + 1 \in 0..C
      BY <1>1, <2>2
    <3>2. c[n + 1] = Append(c[(n + 1) - 1], rules[PlaceOf(rules, n + 1)])
      <4>1. \A m \in 0..C : c[m] = IF m = 0 THEN <<>> ELSE Append(c[m - 1], rules[PlaceOf(rules, m)])
        BY <1>6
      <4>2. n + 1 \in 0..C /\ n + 1 # 0
        BY <3>1
      <4> DEFINE q == n + 1
      <4> HIDE DEF Is, q
      <4>3. q \in 0..C /\ q # 0
        BY <4>2 DEF q
      <4>4. c[q] = Append(c[q - 1], rules[PlaceOf(rules, q)])
        BY <4>1, <4>3
      <4> QED BY <4>4 DEF q
    <3>3. g[n + 1] = Append(g[(n + 1) - 1], rules[PlaceOf(rules, n + 1)])
      BY <3>1, <1>3
    <3> QED BY <3>1, <3>2, <3>3, <2>2
  <2>3. C \in Good
    <3> HIDE DEF Good
    <3> QED BY <1>1, <2>1, <2>2, Upwards
  <2> QED BY <2>3
<1>9. g[C] = [n \in 1..C |-> rules[PlaceOf(rules, n)]]
  BY <1>1
<1> QED BY <1>7, <1>8, <1>9

(* Another list with the same ids, priorities and rules enabled has the    *)
(* same places.                                                            *)
LEMMA SamePlaces ==
  ASSUME NEW rules, NEW other, DOMAIN other = DOMAIN rules,
         \A i \in DOMAIN rules : /\ other[i].id = rules[i].id
                               /\ other[i].priority = rules[i].priority
                               /\ other[i].enabled = rules[i].enabled
  PROVE  /\ Enabled(other) = Enabled(rules)
         /\ \A n : PlaceOf(other, n) = PlaceOf(rules, n)
<1>1. Enabled(other) = Enabled(rules)
  BY DEF Enabled
<1>2. ASSUME NEW i \in Enabled(rules) PROVE Sooners(other, i) = Sooners(rules, i)
  BY <1>1 DEF Sooners, Enabled, Sooner, Before
<1>3. ASSUME NEW n PROVE PlaceOf(other, n) = PlaceOf(rules, n)
  BY <1>1, <1>2 DEF PlaceOf
<1> QED BY <1>1, <1>3

(* The order of the lines does not matter: other is rules in the order g,  *)
(* of which h is the inverse.                                              *)
Reorders(other, rules, g, h) ==
  /\ g \in [1..Len(rules) -> 1..Len(rules)] /\ h \in [1..Len(rules) -> 1..Len(rules)]
  /\ \A i \in 1..Len(rules) : h[g[i]] = i /\ g[h[i]] = i
  /\ Len(other) = Len(rules) /\ DOMAIN other = 1..Len(rules)
  /\ \A i \in 1..Len(rules) : other[i] = rules[g[i]]

LEMMA EffectivePermuted ==
  ASSUME NEW rules, Numbered(rules), NEW other, NEW g, NEW h, Reorders(other, rules, g, h)
  PROVE  Effective(other) = Effective(rules) /\ Numbered(other)
<1> DEFINE N == Len(rules)
<1>0. /\ N \in Nat /\ DOMAIN rules = 1..N
      /\ \A i \in 1..N : rules[i].id \in Nat /\ rules[i].priority \in Int
      /\ \A i, j \in 1..N : rules[i].id = rules[j].id => i = j
  BY DEF Numbered
<1>1. g \in [1..N -> 1..N] /\ h \in [1..N -> 1..N]
      /\ \A i \in 1..N : h[g[i]] = i /\ g[h[i]] = i
  BY DEF Reorders
<1>2. Len(other) = N /\ DOMAIN other = 1..N /\ \A i \in 1..N : other[i] = rules[g[i]]
  BY DEF Reorders
<1> HIDE DEF N
<1>3. ASSUME NEW i \in 1..N
      PROVE  /\ h[i] \in 1..N /\ g[i] \in 1..N /\ g[h[i]] = i /\ h[g[i]] = i
             /\ other[h[i]] = rules[i] /\ other[i] = rules[g[i]]
  BY <1>1, <1>2
<1>4. Numbered(other)
  <2>1. \A i \in 1..N : other[i].id \in Nat /\ other[i].priority \in Int
    BY <1>0, <1>3
  <2>2. ASSUME NEW i \in 1..N, NEW j \in 1..N, other[i].id = other[j].id PROVE i = j
    <3>1. g[i] = g[j]
      BY <1>0, <1>3, <2>2
    <3> QED BY <3>1, <1>3
  <2> QED BY <1>0, <1>2, <2>1, <2>2 DEF Numbered
<1>5. \A i \in 1..N : i \in Enabled(rules) <=> h[i] \in Enabled(other)
  BY <1>0, <1>2, <1>3 DEF Enabled
<1>6. ASSUME NEW i \in 1..N, NEW j \in 1..N
      PROVE  Sooner(rules, j, i) <=> Sooner(other, h[j], h[i])
  <2>1. i \in DOMAIN rules /\ j \in DOMAIN rules /\ h[i] \in DOMAIN other
        /\ h[j] \in DOMAIN other /\ (i # j => h[i] # h[j])
    BY <1>0, <1>2, <1>3
  <2>2. CASE i = j
    <3>1. ~Sooner(rules, i, i) /\ ~Sooner(other, h[i], h[i])
      BY <2>1, <1>4, SoonerOrders
    <3> QED BY <3>1, <2>2
  <2>3. CASE i # j
    <3>1. Sooner(rules, j, i) <=> Before(rules[j], rules[i])
      BY <2>1, <2>3, SoonerOrders
    <3>2. Sooner(other, h[j], h[i]) <=> Before(other[h[j]], other[h[i]])
      BY <2>1, <2>3, <1>4, SoonerOrders
    <3> QED BY <3>1, <3>2, <1>3
  <2> QED BY <2>2, <2>3
<1>7. ASSUME NEW A \in SUBSET (1..N), NEW B \in SUBSET (1..N),
             \A i \in 1..N : i \in A <=> h[i] \in B
      PROVE  Cardinality(A) = Cardinality(B)
  <2> DEFINE f == [i \in A |-> h[i]]
  <2>1. \A i \in A : h[i] \in B
    BY <1>7
  <2>2. \A b \in B : g[b] \in A /\ h[g[b]] = b
    BY <1>3, <1>7
  <2>3. f \in [A -> B]
    BY <2>1
  <2>4. \A i, j \in A : f[i] = f[j] => i = j
    BY <1>3
  <2>5. \A b \in B : \E i \in A : f[i] = b
    BY <2>2
  <2>6. f \in Bijection(A, B)
    <3> HIDE DEF f
    <3> QED BY <2>3, <2>4, <2>5 DEF Bijection, Injection, Surjection, IsInjective
  <2>7. IsFiniteSet(A)
    <3>1. IsFiniteSet(1..N)
      BY <1>0, FS_Interval
    <3> QED BY <3>1, FS_Subset
  <2> HIDE DEF f
  <2> QED BY <2>6, <2>7, FS_Bijection DEF ExistsBijection
<1>8. Enabled(rules) \in SUBSET (1..N) /\ Enabled(other) \in SUBSET (1..N)
  BY <1>0, <1>2 DEF Enabled
<1>9. Cardinality(Enabled(rules)) = Cardinality(Enabled(other))
  BY <1>5, <1>7, <1>8
<1>10. ASSUME NEW i \in Enabled(rules)
       PROVE  Cardinality(Sooners(rules, i)) = Cardinality(Sooners(other, h[i]))
  <2>1. Sooners(rules, i) \in SUBSET (1..N) /\ Sooners(other, h[i]) \in SUBSET (1..N)
    BY <1>8 DEF Sooners
  <2>2. \A j \in 1..N : j \in Sooners(rules, i) <=> h[j] \in Sooners(other, h[i])
    BY <1>5, <1>6, <1>8 DEF Sooners
  <2> QED BY <2>1, <2>2, <1>7
<1>11. ASSUME NEW n \in 1..Cardinality(Enabled(rules))
       PROVE  other[PlaceOf(other, n)] = rules[PlaceOf(rules, n)]
  <2> DEFINE i == PlaceOf(rules, n)
             k == h[i]
  <2>1. i \in Enabled(rules) /\ Cardinality(Sooners(rules, i)) = n - 1
    BY Places
  <2>2. i \in 1..N
    BY <2>1, <1>8
  <2> HIDE DEF i
  <2>3. k \in Enabled(other) /\ Cardinality(Sooners(other, k)) = n - 1
    BY <2>1, <2>2, <1>5, <1>10
  <2>4. PlaceOf(other, Cardinality(Sooners(other, k)) + 1) = k
    BY <2>3, <1>4, Places
  <2>5. PlaceOf(other, n) = k
    <3>1. n \in Nat /\ (n - 1) + 1 = n
      BY EnabledFinite
    <3> QED BY <2>3, <2>4, <3>1
  <2>6. other[k] = rules[i]
    BY <2>2, <1>3
  <2> QED BY <2>5, <2>6 DEF i
<1>12. Effective(other) = Effective(rules)
  BY <1>4, <1>9, <1>11, EffectiveRanks
<1> QED BY <1>4, <1>12

LEMMA EffectiveReversed ==
  ASSUME NEW rules, Numbered(rules)
  PROVE  Effective(Reverse(rules)) = Effective(rules) /\ Numbered(Reverse(rules))
<1> DEFINE N == Len(rules)
           R == Reverse(rules)
           g == [i \in 1..N |-> (N + 1) - i]
<1>0. N \in Nat /\ DOMAIN rules = 1..N
  BY DEF Numbered
<1>1. R = [i \in 1..N |-> rules[(N - i) + 1]]
  BY DEF Reverse
<1>2. Len(R) = N /\ DOMAIN R = 1..N
  <2> DEFINE T == {rules[(N - i) + 1] : i \in 1..N}
  <2>1. R \in Seq(T)
    <3>1. R \in [1..N -> T]
      BY <1>1
    <3> HIDE DEF R, N, T
    <3> QED BY <3>1, <1>0
  <2>2. DOMAIN R = 1..N
    BY <1>1
  <2> HIDE DEF R, N, T
  <2> QED BY <2>1, <2>2, <1>0
<1>3. ASSUME NEW i \in 1..N
      PROVE  g[i] \in 1..N /\ g[g[i]] = i /\ R[i] = rules[g[i]]
  <2>1. (N + 1) - i \in 1..N /\ (N + 1) - ((N + 1) - i) = i /\ (N - i) + 1 = (N + 1) - i
    BY <1>0
  <2> QED BY <2>1, <1>1
<1>4. g \in [1..N -> 1..N]
  BY <1>3
<1> HIDE DEF R, g
<1>5. Reorders(R, rules, g, g)
  BY <1>2, <1>3, <1>4 DEF N, Reorders
<1>6. Effective(R) = Effective(rules) /\ Numbered(R)
  BY <1>5, EffectivePermuted
<1> QED BY <1>6 DEF R

(* Numbers have a least and a greatest one.                                *)
LEMMA MinIs ==
  ASSUME NEW S \in SUBSET Nat, S # {}
  PROVE  Min(S) \in S /\ \A x \in S : Min(S) <= x
BY Least DEF Min

LEMMA MaxIs ==
  ASSUME NEW S \in SUBSET Int, NEW n \in Int, \A x \in S : x <= n, S # {}
  PROVE  Max(S) \in S /\ \A x \in S : x <= Max(S)
<1> DEFINE T == {n - x : x \in S}
<1>0. \A x \in S : n - x \in Nat
  OBVIOUS
<1>1. T \in SUBSET Nat /\ T # {}
  BY <1>0
<1>2. PICK t \in T : \A u \in T : t <= u
  <2> HIDE DEF T
  <2> QED BY <1>1, Least
<1>3. PICK m \in S : t = n - m
  OBVIOUS
<1>4. \A x \in S : n - x \in T
  OBVIOUS
<1>5. \A x \in S : m >= x
  <2> HIDE DEF T
  <2> QED BY <1>2, <1>3, <1>4
<1>6. \E x \in S : \A y \in S : x >= y
  BY <1>5
<1>7. Max(S) \in S /\ \A y \in S : Max(S) >= y
  <2> HIDE DEF T
  <2> QED BY <1>6 DEF Max
<1> QED BY <1>7

Stops(rule, r) == rule.mode = "active" /\ Fires(rule, r)

(* The one that won is the first that stops a request.                     *)
LEMMA WinnerIs ==
  ASSUME NEW ruleSet, Len(ruleSet) \in Nat, NEW r
  PROVE  LET won == Winner(ruleSet, r) IN
         /\ won \in 0..Len(ruleSet)
         /\ won # 0 => Stops(ruleSet[won], r)
         /\ \A q \in 1..Len(ruleSet) : won = 0 \/ q < won => ~Stops(ruleSet[q], r)
<1> DEFINE I == {i \in 1..Len(ruleSet) : Stops(ruleSet[i], r)}
<1>1. Winner(ruleSet, r) = IF I # {} THEN Min(I) ELSE 0
  BY DEF Winner, SelectInSeq, Stops
<1>2. I \in SUBSET Nat
  OBVIOUS
<1>3. CASE I = {}
  BY <1>1, <1>3
<1>4. CASE I # {}
  <2>1. Min(I) \in I /\ \A x \in I : Min(I) <= x
    <3> HIDE DEF I
    <3> QED BY <1>2, <1>4, MinIs
  <2>2. Min(I) \in 1..Len(ruleSet) /\ Stops(ruleSet[Min(I)], r)
    BY <2>1
  <2>3. \A q \in 1..Len(ruleSet) : q < Min(I) => ~Stops(ruleSet[q], r)
    <3> SUFFICES ASSUME NEW q \in 1..Len(ruleSet), q < Min(I), Stops(ruleSet[q], r) PROVE FALSE
      OBVIOUS
    <3>1. q \in I
      OBVIOUS
    <3>2. Min(I) <= q /\ Min(I) \in Nat
      BY <2>1, <3>1, <2>2
    <3> HIDE DEF I
    <3> QED BY <3>2
  <2>4. Winner(ruleSet, r) = Min(I)
    BY <1>1, <1>4
  <2> HIDE DEF I
  <2> QED BY <2>2, <2>3, <2>4
<1> QED BY <1>3, <1>4

(* The rules of a set, once it is built.                                   *)
IsSet(ruleSet) ==
  /\ ruleSet \in Seq(Rules)
  /\ \A i \in 1..Len(ruleSet) : RuleCompiles(ruleSet[i])
  /\ \A i, j \in 1..Len(ruleSet) : ruleSet[i].id = ruleSet[j].id => i = j

LEMMA BuiltIsNumbered ==
  ASSUME NEW rules \in Seq(Rules), Builds(rules)
  PROVE  Numbered(rules)
<1>1. \A i \in DOMAIN rules : rules[i] \in Rules
  OBVIOUS
<1>2. \A i \in DOMAIN rules : rules[i].id \in Nat /\ rules[i].priority \in Int
  BY <1>1 DEF Rules
<1> QED BY <1>2 DEF Builds, Numbered

(* A list that builds makes a set.                                         *)
LEMMA EffectiveIsSet ==
  ASSUME NEW rules \in Seq(Rules), Builds(rules)
  PROVE  IsSet(Effective(rules))
<1> DEFINE C == Cardinality(Enabled(rules))
           ruleSet == Effective(rules)
<1>1. Numbered(rules) /\ DOMAIN rules = 1..Len(rules)
  BY BuiltIsNumbered
<1>2. ruleSet = [n \in 1..C |-> rules[PlaceOf(rules, n)]]
  BY <1>1, EffectiveRanks
<1>3. C \in Nat
  BY <1>1, EnabledFinite
<1>4. \A n \in 1..C : PlaceOf(rules, n) \in Enabled(rules)
         /\ Cardinality(Sooners(rules, PlaceOf(rules, n))) = n - 1
  BY <1>1, Places
<1>5. \A n \in 1..C : PlaceOf(rules, n) \in DOMAIN rules
  BY <1>4 DEF Enabled
<1>6. \A n \in 1..C : rules[PlaceOf(rules, n)] \in Rules
  BY <1>5
<1> HIDE DEF C
<1>7. ruleSet \in [1..C -> Rules]
  BY <1>2, <1>6
<1>8. ruleSet \in Seq(Rules) /\ Len(ruleSet) = C
  <2> HIDE DEF ruleSet
  <2> QED BY <1>3, <1>7
<1>9. \A n \in 1..C : ruleSet[n] = rules[PlaceOf(rules, n)]
  BY <1>2
<1> HIDE DEF ruleSet
<1>10. \A n \in 1..C : RuleCompiles(ruleSet[n])
  BY <1>5, <1>9 DEF Builds
<1>11. ASSUME NEW m \in 1..C, NEW n \in 1..C, ruleSet[m].id = ruleSet[n].id PROVE m = n
  <2>1. PlaceOf(rules, m) = PlaceOf(rules, n)
    BY <1>5, <1>9, <1>11 DEF Builds
  <2>2. m - 1 = n - 1
    BY <2>1, <1>4
  <2> QED BY <2>2, <1>3
<1>12. IsSet(ruleSet)
  BY <1>8, <1>10, <1>11 DEF IsSet
<1> QED BY <1>12 DEF ruleSet

(* What is noted of a request: the rules up to the one that won.           *)
Passed(ruleSet, r) ==
  {i \in 1..Len(ruleSet) : (Winner(ruleSet, r) = 0 \/ i < Winner(ruleSet, r)) /\ Fires(ruleSet[i], r)}

LEMMA NotedIs ==
  ASSUME NEW ruleSet, IsSet(ruleSet), NEW r
  PROVE  /\ Noted(ruleSet, r) \in Seq(Nat)
         /\ ToSet(Noted(ruleSet, r)) = {ruleSet[i].id : i \in Passed(ruleSet, r)}
         /\ \A a, b \in DOMAIN Noted(ruleSet, r) : Noted(ruleSet, r)[a] = Noted(ruleSet, r)[b] => a = b
<1> DEFINE P == Passed(ruleSet, r)
           t == At(ruleSet, P)
           ids == Noted(ruleSet, r)
<1>1. ruleSet \in Seq(Rules) /\ Len(ruleSet) \in Nat /\ DOMAIN ruleSet = 1..Len(ruleSet)
  BY DEF IsSet
<1>2. ids = [i \in DOMAIN t |-> t[i].id]
  BY <1>1 DEF Noted, Ids, Passed
<1>3. P \in SUBSET (1..Len(ruleSet)) /\ P \cap (1..Len(ruleSet)) = P
  BY DEF Passed
<1> HIDE DEF P
<1>4. PICK h : Takes(t, ruleSet, Rules, h, P)
  <2>1. \E h : Takes(t, ruleSet, Rules, h, P \cap (1..Len(ruleSet)))
    BY <1>1, AtTakes
  <2> QED BY <2>1, <1>3
<1>5. t \in Seq(Rules) /\ Enumerates(h, Len(t), P) /\ \A j \in 1..Len(t) : t[j] = ruleSet[h[j]]
  BY <1>4 DEF Takes
<1> HIDE DEF t
<1>6. Len(t) \in Nat /\ DOMAIN t = 1..Len(t)
  BY <1>5
<1>7. /\ \A j \in 1..Len(t) : h[j] \in P
      /\ \A p \in P : \E j \in 1..Len(t) : h[j] = p
      /\ \A j, k \in 1..Len(t) : j < k => h[j] < h[k]
  BY <1>5 DEF Enumerates
<1>8. \A j \in 1..Len(t) : ids[j] = ruleSet[h[j]].id
  BY <1>2, <1>5, <1>6
<1>9. \A i \in P : ruleSet[i].id \in Nat
  <2>1. \A i \in P : ruleSet[i] \in Rules
    BY <1>1, <1>3
  <2> QED BY <2>1 DEF Rules
<1>10. ids \in [1..Len(t) -> Nat]
  BY <1>2, <1>6, <1>7, <1>8, <1>9
<1> HIDE DEF ids
<1>11. ids \in Seq(Nat) /\ DOMAIN ids = 1..Len(t)
  BY <1>6, <1>10
<1>12. ToSet(ids) = {ruleSet[i].id : i \in P}
  BY <1>7, <1>8, <1>11 DEF ToSet
<1>13. ASSUME NEW a \in 1..Len(t), NEW b \in 1..Len(t), ids[a] = ids[b] PROVE a = b
  <2>1. h[a] \in 1..Len(ruleSet) /\ h[b] \in 1..Len(ruleSet)
    BY <1>3, <1>7
  <2>2. h[a] = h[b]
    BY <1>8, <1>13, <2>1 DEF IsSet
  <2>3. ~(a < b) /\ ~(b < a)
    BY <1>7, <2>1, <2>2
  <2> QED BY <2>3, <1>6
<1>14. /\ ids \in Seq(Nat) /\ ToSet(ids) = {ruleSet[i].id : i \in P}
       /\ \A a, b \in DOMAIN ids : ids[a] = ids[b] => a = b
  BY <1>11, <1>12, <1>13
<1> QED BY <1>14 DEF ids, P

(* What a set decides: by the rule that won, or by none.                   *)
LEMMA Decides ==
  ASSUME NEW ruleSet, IsSet(ruleSet), NEW counts, NEW r, NEW moment
  PROVE  LET d == Decide(ruleSet, counts, r, moment)
             won == Winner(ruleSet, r)
         IN /\ d.outcome \in [action: {"pass", "allow", "block", "ratelimit"}, rule: Nat,
                              status: Int]
            /\ d.outcome.rule = IF won = 0 THEN NoRule ELSE ruleSet[won].id
            /\ won = 0 => d.outcome.action = "pass"
            /\ d.shadow = Noted(ruleSet, r)
<1> DEFINE d == Decide(ruleSet, counts, r, moment)
           won == Winner(ruleSet, r)
<1>1. won \in 0..Len(ruleSet) /\ Len(ruleSet) \in Nat
  BY WinnerIs DEF IsSet
<1>2. d.shadow = Noted(ruleSet, r)
  BY DEF Decide
<1>3. CASE won = 0
  <2>1. d.outcome = Outcome("pass", NoRule, 0)
    BY <1>3 DEF Decide
  <2> QED BY <1>2, <1>3, <2>1 DEF Outcome, NoRule
<1>4. CASE won # 0
  <2>1. d.outcome = DecisionOf(ruleSet[won], counts, r, moment).outcome
    BY <1>4 DEF Decide
  <2>2. ruleSet[won] \in Rules /\ RuleCompiles(ruleSet[won])
    BY <1>1, <1>4 DEF IsSet
  <2>3. ruleSet[won].id \in Nat /\ ruleSet[won].action \in Actions
        /\ ruleSet[won].action.type \in {"allow", "block", "ratelimit"}
    BY <2>2 DEF Rules, RuleCompiles, ActionCompiles
  <2>4. ruleSet[won].action.type \in {"block", "ratelimit"} => ruleSet[won].action.status \in Int
    BY <2>3 DEF Actions
  <2>5. d.outcome \in [action: {"pass", "allow", "block", "ratelimit"}, rule: Nat, status: Int]
        /\ d.outcome.rule = ruleSet[won].id
    <3>1. CASE ruleSet[won].action.type = "allow"
      <4>1. d.outcome = Outcome("allow", ruleSet[won].id, 0)
        BY <2>1, <3>1 DEF DecisionOf
      <4> HIDE DEF d
      <4> QED BY <4>1, <2>3 DEF Outcome
    <3>2. CASE ruleSet[won].action.type = "block"
      <4>1. d.outcome = Outcome("block", ruleSet[won].id, ruleSet[won].action.status)
        BY <2>1, <3>2 DEF DecisionOf
      <4> HIDE DEF d
      <4> QED BY <4>1, <3>2, <2>3, <2>4 DEF Outcome
    <3>3. CASE ruleSet[won].action.type = "ratelimit"
      <4>1. \/ d.outcome = Outcome("ratelimit", ruleSet[won].id, ruleSet[won].action.status)
            \/ d.outcome = Outcome("pass", ruleSet[won].id, 0)
        BY <2>1, <3>3 DEF DecisionOf
      <4> HIDE DEF d
      <4> QED BY <4>1, <3>3, <2>3, <2>4 DEF Outcome
    <3> QED BY <3>1, <3>2, <3>3, <2>3
  <2> QED BY <1>2, <1>4, <2>5
<1> QED BY <1>3, <1>4

IsRun(run, ruleSet, events, m) ==
  run = [n \in 0..m |-> IF n = 0 THEN [counted |-> NothingCounted, answers |-> <<>>]
                        ELSE Replayed(ruleSet, run[n - 1], events[n])]

(* Replay is one run of the rules over the lines.                          *)
LEMMA RunIs ==
  ASSUME NEW rules, NEW events, Len(events) \in Nat
  PROVE  \E run : /\ IsRun(run, Effective(rules), events, Len(events))
                  /\ Replay(rules, events) = run[Len(events)].answers
<1> DEFINE ruleSet == Effective(rules)
           N == Len(events)
           Good == {m \in 0..N : \E run : IsRun(run, ruleSet, events, m)}
<1>1. 0 \in Good
  <2>1. IsRun([n \in 0..0 |-> [counted |-> NothingCounted, answers |-> <<>>]], ruleSet, events, 0)
    BY DEF IsRun
  <2> QED BY <2>1
<1>2. ASSUME NEW m \in 0..N, m # N, m \in Good PROVE m + 1 \in Good
  <2>1. PICK run : IsRun(run, ruleSet, events, m)
    BY <1>2
  <2> DEFINE Step(v, n) == IF n = 0 THEN [counted |-> NothingCounted, answers |-> <<>>]
                           ELSE Replayed(ruleSet, v[n - 1], events[n])
             w == [n \in 0..m+1 |-> IF n = m + 1 THEN Step(run, n) ELSE run[n]]
  <2>2. \A n \in 0..m : run[n] = Step(run, n)
    BY <2>1 DEF IsRun
  <2>3. ASSUME NEW n \in 0..m+1 PROVE w[n] = Step(w, n)
    <3>1. CASE n = 0
      BY <3>1, <2>2
    <3>2. CASE n # 0
      <4>1. n - 1 \in 0..m /\ n - 1 \in 0..m+1 /\ n - 1 # m + 1
        BY <3>2
      <4>2. w[n - 1] = run[n - 1]
        BY <4>1
      <4>3. w[n] = Step(run, n)
        BY <2>2, <3>2
      <4> QED BY <4>2, <4>3, <3>2
    <3> QED BY <3>1, <3>2
  <2>4. IsRun(w, ruleSet, events, m + 1)
    BY <2>3 DEF IsRun
  <2>5. m + 1 \in 0..N
    BY <1>2
  <2> QED BY <2>4, <2>5
<1>3. N \in Good
  <2> HIDE DEF Good
  <2> QED BY <1>1, <1>2, Upwards
<1>4. PICK walk : IsRun(walk, ruleSet, events, N)
  BY <1>3
<1> DEFINE c == CHOOSE run : IsRun(run, ruleSet, events, N)
<1>5. IsRun(c, ruleSet, events, N)
  BY <1>4
<1>6. Replay(rules, events) = c[N].answers
  BY DEF Replay, IsRun
<1> QED BY <1>5, <1>6

(* What a replay has counted before each line, and what it answers.        *)
RunBy(c, rules, events) ==
  /\ c[0] = NothingCounted
  /\ \A k \in 1..Len(events) :
       /\ c[k] = Decide(Effective(rules), c[k - 1], Asked(events[k]), events[k].time).counted
       /\ Replay(rules, events)[k]
            = Answer(Decide(Effective(rules), c[k - 1], Asked(events[k]), events[k].time))

LEMMA ReplayIs ==
  ASSUME NEW rules, NEW events, Len(events) \in Nat
  PROVE  /\ Replay(rules, events) = [k \in 1..Len(events) |-> Replay(rules, events)[k]]
         /\ \E c : RunBy(c, rules, events)
<1> DEFINE ruleSet == Effective(rules)
           N == Len(events)
<1>1. PICK run : IsRun(run, ruleSet, events, N) /\ Replay(rules, events) = run[N].answers
  BY RunIs
<1> DEFINE c == [k \in 0..N |-> run[k].counted]
           D(k) == Decide(ruleSet, c[k - 1], Asked(events[k]), events[k].time)
           T == {Answer(D(k)) : k \in 1..N}
           Good == {n \in 0..N : /\ run[n].answers \in Seq(T) /\ Len(run[n].answers) = n
                                 /\ \A k \in 1..n : run[n].answers[k] = Answer(D(k))}
<1>2. ASSUME NEW k \in 1..N
      PROVE  /\ run[k].counted = D(k).counted
             /\ run[k].answers = Append(run[k - 1].answers, Answer(D(k)))
  <2>1. k \in 0..N /\ k # 0 /\ k - 1 \in 0..N
    OBVIOUS
  <2>2. run[k] = Replayed(ruleSet, run[k - 1], events[k])
    BY <1>1, <2>1 DEF IsRun
  <2>3. c[k - 1] = run[k - 1].counted
    BY <2>1
  <2> QED BY <2>2, <2>3 DEF Replayed
<1>3. c[0] = NothingCounted /\ run[0].answers = <<>>
  BY <1>1 DEF IsRun
<1>a. \A k \in 1..N : c[k] = run[k].counted
  OBVIOUS
<1> HIDE DEF c, D
<1>b. \A k \in 1..N : Answer(D(k)) \in T
  OBVIOUS
<1> HIDE DEF T
<1>4. ASSUME NEW k \in 1..N PROVE c[k] = D(k).counted
  BY <1>2, <1>a
<1>5. 0 \in Good
  <2>1. run[0].answers \in Seq(T) /\ Len(run[0].answers) = 0
    BY <1>3
  <2>2. 1..0 = {} /\ 0 \in 0..N
    OBVIOUS
  <2>3. \A k \in 1..0 : run[0].answers[k] = Answer(D(k))
    BY <2>2, Zenon
  <2> QED BY <2>1, <2>2, <2>3, Zenon
<1>6. ASSUME NEW n \in 0..N, n # N, n \in Good PROVE n + 1 \in Good
  <2>1. n + 1 \in 1..N /\ n + 1 \in 0..N /\ (n + 1) - 1 = n
    BY <1>6
  <2> DEFINE a == run[n].answers
  <2>2. run[n + 1].answers = Append(a, Answer(D(n + 1))) /\ Answer(D(n + 1)) \in T
    <3>1. run[n + 1].answers = Append(run[(n + 1) - 1].answers, Answer(D(n + 1)))
      BY <2>1, <1>2
    <3> QED BY <3>1, <2>1, <1>b
  <2>3. a \in Seq(T) /\ Len(a) = n /\ \A k \in 1..n : a[k] = Answer(D(k))
    BY <1>6
  <2> HIDE DEF a
  <2>4. /\ Append(a, Answer(D(n + 1))) \in Seq(T) /\ Len(Append(a, Answer(D(n + 1)))) = n + 1
        /\ \A k \in 1..n+1 : Append(a, Answer(D(n + 1)))[k] = Answer(D(k))
    BY <2>1, <2>2, <2>3
  <2> QED BY <2>1, <2>2, <2>4
<1>7. N \in Good
  <2> HIDE DEF Good
  <2> QED BY <1>5, <1>6, Upwards
<1>8. Replay(rules, events) \in Seq(T) /\ Len(Replay(rules, events)) = N
      /\ \A k \in 1..N : Replay(rules, events)[k] = Answer(D(k))
  BY <1>1, <1>7
<1>9. Replay(rules, events) = [k \in 1..N |-> Replay(rules, events)[k]]
  BY <1>8
<1>10. \A k \in 1..N :
         /\ c[k] = Decide(ruleSet, c[k - 1], Asked(events[k]), events[k].time).counted
         /\ Replay(rules, events)[k] = Answer(Decide(ruleSet, c[k - 1], Asked(events[k]), events[k].time))
  BY <1>4, <1>8 DEF D
<1>11. RunBy(c, rules, events)
  BY <1>3, <1>10 DEF RunBy
<1> QED BY <1>9, <1>11

(* What was counted over a log, line by line: lines elsewhere than at P    *)
(* leave it, those at P are decided by the set and have its answer.        *)
CountedBy(c, ruleSet, trace, P) ==
  /\ c[0] = NothingCounted
  /\ \A k \in 1..Len(trace) :
       IF k \in P
       THEN LET d == Decide(ruleSet, c[k - 1], Asked(trace[k]), trace[k].time)
            IN /\ c[k] = d.counted
               /\ Answer(d) = [action |-> trace[k].decision, rule |-> trace[k].rule,
                               shadow |-> trace[k].shadow]
       ELSE c[k] = c[k - 1]

(* Rule p counts a request under a key.                                    *)
KeyAt(ruleSet, p, r) == <<ruleSet[p].id, r[ruleSet[p].action.key]>>

(* The rule that wins a request counts it.                                 *)
Counting(ruleSet, r) ==
  Winner(ruleSet, r) # 0 /\ ruleSet[Winner(ruleSet, r)].action.type = "ratelimit"

(* Two requests are counted by one rule, under one key.                    *)
WinsTogether(ruleSet, r, s) ==
  /\ Counting(ruleSet, r) /\ Winner(ruleSet, s) = Winner(ruleSet, r)
  /\ r[ruleSet[Winner(ruleSet, r)].action.key] = s[ruleSet[Winner(ruleSet, r)].action.key]

(* Two counts have the same under a key.                                   *)
SameUnder(counts, others, key) ==
  /\ key \in DOMAIN counts <=> key \in DOMAIN others
  /\ key \in DOMAIN counts => counts[key] = others[key]

LEMMA SameStamps ==
  ASSUME NEW counts, NEW others, NEW key, SameUnder(counts, others, key), NEW a, NEW moment
  PROVE  Stamps(counts, key, a, moment) = Stamps(others, key, a, moment)
<1>1. CASE key \notin DOMAIN counts
  BY <1>1 DEF Stamps, SameUnder
<1>2. CASE key \in DOMAIN counts
  <2>1. key \in DOMAIN others /\ counts[key] = others[key]
    BY <1>2 DEF SameUnder
  <2> QED BY <1>2, <2>1 DEF Stamps
<1> QED BY <1>1, <1>2

(* What a rule enters under its key.                                       *)
EntryOf(times, a, moment) ==
  [limit |-> a.limit, times |-> IF Len(times) >= a.limit THEN times ELSE Append(times, moment)]
WithEntry(counts, key, entry) ==
  [x \in DOMAIN counts \cup {key} |-> IF x = key THEN entry ELSE counts[x]]

LEMMA CountedIs ==
  ASSUME NEW ruleSet, NEW counts, NEW r, NEW moment
  PROVE  LET d == Decide(ruleSet, counts, r, moment)
             won == Winner(ruleSet, r)
             a == ruleSet[won].action
             key == KeyAt(ruleSet, won, r)
         IN /\ won = 0 \/ a.type \in {"allow", "block"} => d.counted = counts
            /\ Counting(ruleSet, r) =>
                 d.counted = WithEntry(counts, key, EntryOf(Stamps(counts, key, a, moment), a, moment))
<1> DEFINE d == Decide(ruleSet, counts, r, moment)
           won == Winner(ruleSet, r)
<1>1. CASE won = 0
  BY <1>1 DEF Decide, Counting
<1>2. CASE won # 0
  <2>1. d.counted = DecisionOf(ruleSet[won], counts, r, moment).counted
    BY <1>2 DEF Decide
  <2> HIDE DEF d, won
  <2>2. CASE ruleSet[won].action.type = "allow"
    <3>1. d.counted = counts
      BY <2>1, <2>2 DEF DecisionOf
    <3> QED BY <1>2, <2>2, <3>1 DEF Counting, d, won
  <2>3. CASE ruleSet[won].action.type = "block"
    <3>1. d.counted = counts
      BY <2>1, <2>3 DEF DecisionOf
    <3> QED BY <1>2, <2>3, <3>1 DEF Counting, d, won
  <2>4. CASE ruleSet[won].action.type = "ratelimit"
    <3> DEFINE a == ruleSet[won].action
               key == KeyAt(ruleSet, won, r)
    <3>1. d.counted = WithEntry(counts, key, EntryOf(Stamps(counts, key, a, moment), a, moment))
      BY <2>1, <2>4 DEF DecisionOf, KeyAt, EntryOf, WithEntry
    <3> QED BY <1>2, <2>4, <3>1 DEF d, won
  <2>5. CASE ruleSet[won].action.type \notin {"allow", "block", "ratelimit"}
    BY <1>2, <2>5 DEF Counting, d, won
  <2> QED BY <2>2, <2>3, <2>4, <2>5
<1> QED BY <1>1, <1>2

(* A request leaves what is counted under a key it is not counted under.   *)
LEMMA CountedElsewhere ==
  ASSUME NEW ruleSet, IsSet(ruleSet), NEW counts, NEW r, NEW moment, NEW key,
         Counting(ruleSet, r) => KeyAt(ruleSet, Winner(ruleSet, r), r) # key
  PROVE  SameUnder(Decide(ruleSet, counts, r, moment).counted, counts, key)
<1> DEFINE d == Decide(ruleSet, counts, r, moment)
           won == Winner(ruleSet, r)
<1>1. won = 0 \/ ruleSet[won].action.type \in {"allow", "block", "ratelimit"}
  <2>1. won \in 0..Len(ruleSet) /\ Len(ruleSet) \in Nat
    BY WinnerIs DEF IsSet
  <2> HIDE DEF won
  <2> QED BY <2>1 DEF IsSet, RuleCompiles, ActionCompiles
<1>2. CASE Counting(ruleSet, r)
  <2> DEFINE mine == KeyAt(ruleSet, won, r)
  <2>1. mine # key
    BY <1>2
  <2>2. PICK entry : d.counted = WithEntry(counts, mine, entry)
    BY <1>2, CountedIs
  <2> HIDE DEF d, mine
  <2>3. SameUnder(d.counted, counts, key)
    BY <2>1, <2>2 DEF SameUnder, WithEntry
  <2> QED BY <2>3 DEF d
<1>3. CASE ~Counting(ruleSet, r)
  <2>1. d.counted = counts
    BY <1>1, <1>3, CountedIs DEF Counting
  <2> HIDE DEF d
  <2>2. SameUnder(d.counted, counts, key)
    BY <2>1 DEF SameUnder
  <2> QED BY <2>2 DEF d
<1> QED BY <1>2, <1>3

(* What is the same under a key stays so behind a request.                 *)
LEMMA CountedAlike ==
  ASSUME NEW ruleSet, IsSet(ruleSet), NEW counts, NEW others, NEW r, NEW moment, NEW key,
         SameUnder(counts, others, key)
  PROVE  SameUnder(Decide(ruleSet, counts, r, moment).counted,
                   Decide(ruleSet, others, r, moment).counted, key)
<1> DEFINE c == Decide(ruleSet, counts, r, moment).counted
           o == Decide(ruleSet, others, r, moment).counted
           mine == KeyAt(ruleSet, Winner(ruleSet, r), r)
<1>1. CASE Counting(ruleSet, r) /\ mine = key
  <2> DEFINE a == ruleSet[Winner(ruleSet, r)].action
             entry == EntryOf(Stamps(counts, key, a, moment), a, moment)
  <2>1. c = WithEntry(counts, key, entry)
    BY <1>1, CountedIs
  <2>2. o = WithEntry(others, key, EntryOf(Stamps(others, key, a, moment), a, moment))
    BY <1>1, CountedIs
  <2>3. Stamps(counts, key, a, moment) = Stamps(others, key, a, moment)
    BY SameStamps
  <2>4. o = WithEntry(others, key, entry)
    BY <2>2, <2>3
  <2> HIDE DEF c, o, entry
  <2>5. SameUnder(c, o, key)
    BY <2>1, <2>4 DEF SameUnder, WithEntry
  <2> QED BY <2>5 DEF c, o
<1>2. CASE ~(Counting(ruleSet, r) /\ mine = key)
  <2>1. Counting(ruleSet, r) => mine # key
    BY <1>2
  <2> HIDE DEF mine
  <2>2. SameUnder(c, counts, key) /\ SameUnder(o, others, key)
    BY <2>1, CountedElsewhere DEF mine
  <2> HIDE DEF c, o
  <2>3. SameUnder(c, o, key)
    BY <2>2 DEF SameUnder
  <2> QED BY <2>3 DEF c, o
<1> QED BY <1>1, <1>2

(* The rule and the shadows do not depend on what is counted, the answer   *)
(* only on what is counted under the key of the rule that counts.          *)
LEMMA AnsweredAlike ==
  ASSUME NEW ruleSet, IsSet(ruleSet), NEW counts, NEW others, NEW r, NEW moment
  PROVE  LET d == Answer(Decide(ruleSet, counts, r, moment))
             e == Answer(Decide(ruleSet, others, r, moment))
         IN /\ d.rule = e.rule /\ d.shadow = e.shadow
            /\ (Counting(ruleSet, r) => SameUnder(counts, others, KeyAt(ruleSet, Winner(ruleSet, r), r)))
                 => d.action = e.action
<1> DEFINE x == Decide(ruleSet, counts, r, moment)
           y == Decide(ruleSet, others, r, moment)
           won == Winner(ruleSet, r)
           key == KeyAt(ruleSet, won, r)
<1>1. x.outcome.rule = y.outcome.rule /\ x.shadow = y.shadow
  BY Decides
<1>2. won \in 0..Len(ruleSet) /\ Len(ruleSet) \in Nat
  BY WinnerIs DEF IsSet
<1>3. ASSUME Counting(ruleSet, r) => SameUnder(counts, others, key)
      PROVE  x.outcome.action = y.outcome.action
  <2>1. CASE won = 0
    BY <2>1, Decides
  <2>2. CASE won # 0
    <3>1. /\ x.outcome = DecisionOf(ruleSet[won], counts, r, moment).outcome
          /\ y.outcome = DecisionOf(ruleSet[won], others, r, moment).outcome
      BY <2>2 DEF Decide
    <3>2. ruleSet[won].action.type \in {"allow", "block", "ratelimit"}
      <4> HIDE DEF won
      <4> QED BY <1>2, <2>2 DEF IsSet, RuleCompiles, ActionCompiles
    <3>3. CASE ruleSet[won].action.type = "ratelimit"
      <4>1. SameUnder(counts, others, key)
        BY <1>3, <2>2, <3>3 DEF Counting
      <4>2. Stamps(counts, key, ruleSet[won].action, moment)
              = Stamps(others, key, ruleSet[won].action, moment)
        <5> HIDE DEF key
        <5> QED BY <4>1, SameStamps
      <4> HIDE DEF x, y, won
      <4>3. DecisionOf(ruleSet[won], counts, r, moment).outcome
              = DecisionOf(ruleSet[won], others, r, moment).outcome
        BY <3>3, <4>2 DEF DecisionOf, KeyAt
      <4> QED BY <3>1, <4>3
    <3>4. CASE ruleSet[won].action.type = "allow"
      <4> HIDE DEF x, y, won
      <4> QED BY <3>1, <3>4 DEF DecisionOf
    <3>5. CASE ruleSet[won].action.type = "block"
      <4> HIDE DEF x, y, won
      <4> QED BY <3>1, <3>5 DEF DecisionOf
    <3> QED BY <3>2, <3>3, <3>4, <3>5
  <2> QED BY <2>1, <2>2
<1> HIDE DEF x, y
<1> QED BY <1>1, <1>3 DEF Answer, x, y

(* Behind line n the two counts have the same under the key.               *)
AgreeAt(c, others, key, n) == SameUnder(c[n], others[n], key)

(* A replay of a log, of which only the lines at P were decided by the     *)
(* rules: it comes to the answers of those no other is counted with.       *)
LEMMA ReplayOfWhole ==
  ASSUME NEW rules, IsSet(Effective(rules)), NEW trace, Len(trace) \in Nat, NEW P, NEW c0,
         CountedBy(c0, Effective(rules), trace, P), NEW i \in 1..Len(trace), i \in P
  PROVE  LET again == Replay(rules, trace) IN
         /\ again[i].rule = trace[i].rule /\ again[i].shadow = trace[i].shadow
         /\ (\A j \in 1..Len(trace) : j \notin P /\ j < i =>
               ~WinsTogether(Effective(rules), Asked(trace[i]), Asked(trace[j])))
              => again[i].action = trace[i].decision
<1> DEFINE ruleSet == Effective(rules)
           N == Len(trace)
           D(c, k) == Decide(ruleSet, c[k - 1], Asked(trace[k]), trace[k].time)
           again == Replay(rules, trace)
           mine == Asked(trace[i])
           won == Winner(ruleSet, mine)
           key == KeyAt(ruleSet, won, mine)
           Apart == \A j \in 1..N : j \notin P /\ j < i => ~WinsTogether(ruleSet, mine, Asked(trace[j]))
<1>1. PICK c : RunBy(c, rules, trace)
  BY ReplayIs
<1>2. c[0] = NothingCounted /\ \A k \in 1..N : c[k] = D(c, k).counted /\ again[k] = Answer(D(c, k))
  BY <1>1 DEF RunBy
<1>3. c0[0] = NothingCounted
  BY DEF CountedBy
<1>4. ASSUME NEW k \in 1..N
      PROVE  IF k \in P
             THEN /\ c0[k] = D(c0, k).counted
                  /\ Answer(D(c0, k)) = [action |-> trace[k].decision, rule |-> trace[k].rule,
                                         shadow |-> trace[k].shadow]
             ELSE c0[k] = c0[k - 1]
  BY DEF CountedBy
<1>5. IsSet(ruleSet) /\ N \in Nat /\ i \in 1..N
  OBVIOUS
<1> HIDE DEF ruleSet, N, again
<1>6. ASSUME Apart, Counting(ruleSet, mine) PROVE SameUnder(c[i - 1], c0[i - 1], key)
  <2> DEFINE Good == {n \in 0..(i - 1) : AgreeAt(c, c0, key, n)}
  <2>1. 0 \in Good
    <3>1. AgreeAt(c, c0, key, 0)
      BY <1>2, <1>3 DEF AgreeAt, SameUnder
    <3> QED BY <3>1, <1>5
  <2>2. ASSUME NEW n \in 0..(i - 1), n # i - 1, n \in Good PROVE n + 1 \in Good
    <3> DEFINE k == n + 1
               other == Asked(trace[k])
    <3>1. k \in 1..N /\ k \in 0..(i - 1) /\ k < i /\ k - 1 = n
      BY <1>5, <2>2
    <3>2. SameUnder(c[k - 1], c0[k - 1], key)
      BY <2>2, <3>1 DEF AgreeAt
    <3>3. c[k] = D(c, k).counted
      BY <1>2, <3>1
    <3> HIDE DEF k, mine, key, won
    <3>4. CASE k \in P
      <4>1. c0[k] = D(c0, k).counted
        BY <1>4, <3>1, <3>4
      <4>2. SameUnder(D(c, k).counted, D(c0, k).counted, key)
        BY <1>5, <3>2, CountedAlike
      <4>3. AgreeAt(c, c0, key, k)
        BY <3>3, <4>1, <4>2 DEF AgreeAt
      <4> QED BY <3>1, <4>3 DEF k
    <3>5. CASE k \notin P
      <4>1. c0[k] = c0[k - 1]
        BY <1>4, <3>1, <3>5
      <4>2. ~WinsTogether(ruleSet, mine, other)
        BY <1>6, <3>1, <3>5
      <4>3. Counting(ruleSet, other) => KeyAt(ruleSet, Winner(ruleSet, other), other) # key
        <5> SUFFICES ASSUME Counting(ruleSet, other),
                            KeyAt(ruleSet, Winner(ruleSet, other), other) = key
                     PROVE  FALSE
          OBVIOUS
        <5>1. /\ ruleSet[Winner(ruleSet, other)].id = ruleSet[won].id
              /\ other[ruleSet[Winner(ruleSet, other)].action.key] = mine[ruleSet[won].action.key]
          BY DEF KeyAt, key
        <5>2. /\ Len(ruleSet) \in Nat /\ won \in 0..Len(ruleSet)
              /\ Winner(ruleSet, other) \in 0..Len(ruleSet)
          <6>1. Len(ruleSet) \in Nat
            BY <1>5 DEF IsSet
          <6> QED BY <6>1, WinnerIs DEF won
        <5>3. won # 0 /\ Winner(ruleSet, other) # 0
          BY <1>6 DEF Counting, won
        <5>4. won \in 1..Len(ruleSet) /\ Winner(ruleSet, other) \in 1..Len(ruleSet)
          BY <5>2, <5>3
        <5>5. Winner(ruleSet, other) = won
          BY <1>5, <5>1, <5>4 DEF IsSet
        <5> QED BY <1>6, <4>2, <5>1, <5>5 DEF WinsTogether, won
      <4>4. SameUnder(D(c, k).counted, c[k - 1], key)
        BY <1>5, <4>3, CountedElsewhere
      <4>5. AgreeAt(c, c0, key, k)
        BY <3>2, <3>3, <4>1, <4>4 DEF AgreeAt, SameUnder
      <4> QED BY <3>1, <4>5 DEF k
    <3> QED BY <3>4, <3>5
  <2>3. i - 1 \in Good
    <3>1. i - 1 \in Nat
      BY <1>5
    <3> HIDE DEF Good
    <3> QED BY <2>1, <2>2, <3>1, Upwards
  <2> QED BY <2>3 DEF AgreeAt
<1>7. again[i] = Answer(D(c, i))
  BY <1>2, <1>5
<1>8. Answer(D(c0, i)) = [action |-> trace[i].decision, rule |-> trace[i].rule,
                          shadow |-> trace[i].shadow]
  BY <1>4, <1>5
<1>9. LET d == Answer(D(c, i))
          e == Answer(D(c0, i))
      IN /\ d.rule = e.rule /\ d.shadow = e.shadow
         /\ (Counting(ruleSet, mine) => SameUnder(c[i - 1], c0[i - 1], key)) => d.action = e.action
  BY <1>5, AnsweredAlike
<1> HIDE DEF D, Apart
<1>10. /\ again[i].rule = trace[i].rule /\ again[i].shadow = trace[i].shadow
       /\ Apart => again[i].action = trace[i].decision
  BY <1>6, <1>7, <1>8, <1>9
<1> QED BY <1>10 DEF Apart, again, ruleSet, N

(* A rule is reached by a request no rule in active mode before it stops.  *)
Reached(ruleSet, p, r) == Fires(ruleSet[p], r) /\ \A q \in 1..(p - 1) : ~Stops(ruleSet[q], r)

Named(outcome, shadow, id) == outcome.rule = id \/ id \in ToSet(shadow)

LEMMA ReachedIsNamed ==
  ASSUME NEW ruleSet, IsSet(ruleSet), NEW counts, NEW r, NEW moment, NEW p \in 1..Len(ruleSet)
  PROVE  LET d == Decide(ruleSet, counts, r, moment) IN
         Named(d.outcome, d.shadow, ruleSet[p].id) <=> Reached(ruleSet, p, r)
<1> DEFINE d == Decide(ruleSet, counts, r, moment)
           won == Winner(ruleSet, r)
<1>1. /\ d.outcome.rule = IF won = 0 THEN NoRule ELSE ruleSet[won].id
      /\ d.shadow = Noted(ruleSet, r)
  BY Decides
<1>2. ToSet(d.shadow) = {ruleSet[i].id : i \in Passed(ruleSet, r)}
  BY <1>1, NotedIs
<1> HIDE DEF d
<1>3. Len(ruleSet) \in Nat /\ \A i, j \in 1..Len(ruleSet) : ruleSet[i].id = ruleSet[j].id => i = j
  BY DEF IsSet
<1>a. won \in 0..Len(ruleSet) /\ (won # 0 => Stops(ruleSet[won], r))
  BY <1>3, WinnerIs
<1>4. \A q \in 1..Len(ruleSet) : won = 0 \/ q < won => ~Stops(ruleSet[q], r)
  BY <1>3, WinnerIs
<1>5. ruleSet[p].id # NoRule
  BY DEF IsSet, RuleCompiles
<1>6. d.outcome.rule = ruleSet[p].id <=> won = p
  <2> HIDE DEF won
  <2>1. CASE won = 0
    BY <2>1, <1>1, <1>5
  <2>2. CASE won # 0
    <3>1. won \in 1..Len(ruleSet) /\ d.outcome.rule = ruleSet[won].id
      BY <2>2, <1>1, <1>3, <1>a
    <3> QED BY <3>1, <1>3
  <2> QED BY <2>1, <2>2
<1>7. ruleSet[p].id \in ToSet(d.shadow) <=> (won = 0 \/ p < won) /\ Fires(ruleSet[p], r)
  <2>1. ruleSet[p].id \in ToSet(d.shadow) <=> p \in Passed(ruleSet, r)
    BY <1>2, <1>3 DEF Passed
  <2> QED BY <2>1 DEF Passed
<1> HIDE DEF won
<1>8. ASSUME Named(d.outcome, d.shadow, ruleSet[p].id) PROVE Reached(ruleSet, p, r)
  <2>1. Fires(ruleSet[p], r) /\ (won = 0 \/ p <= won)
    <3>1. CASE won = p
      BY <3>1, <1>a DEF Stops
    <3>2. CASE won # p
      BY <3>2, <1>6, <1>7, <1>8, <1>a, <1>3 DEF Named
    <3> QED BY <3>1, <3>2
  <2>2. ASSUME NEW q \in 1..(p - 1) PROVE ~Stops(ruleSet[q], r)
    <3>1. q \in 1..Len(ruleSet) /\ (won = 0 \/ q < won)
      BY <1>3, <1>a, <2>1
    <3> QED BY <3>1, <1>4
  <2> QED BY <2>1, <2>2 DEF Reached
<1>9. ASSUME Reached(ruleSet, p, r) PROVE Named(d.outcome, d.shadow, ruleSet[p].id)
  <2>1. ~(won # 0 /\ won < p)
    <3> SUFFICES ASSUME won # 0, won < p PROVE FALSE
      OBVIOUS
    <3>1. won \in 1..(p - 1)
      BY <1>3, <1>a
    <3> QED BY <3>1, <1>a, <1>9 DEF Reached
  <2>2. won = 0 \/ p < won \/ won = p
    BY <1>3, <1>a, <2>1
  <2> QED BY <2>2, <1>6, <1>7, <1>9 DEF Reached, Named
<1> QED BY <1>8, <1>9 DEF d

(* A rule that is not in the set is named by nothing.                      *)
LEMMA StrangerIsNotNamed ==
  ASSUME NEW ruleSet, IsSet(ruleSet), NEW counts, NEW r, NEW moment, NEW id, id # NoRule,
         \A p \in 1..Len(ruleSet) : ruleSet[p].id # id
  PROVE  LET d == Decide(ruleSet, counts, r, moment) IN ~Named(d.outcome, d.shadow, id)
<1> DEFINE d == Decide(ruleSet, counts, r, moment)
           won == Winner(ruleSet, r)
<1>1. /\ d.outcome.rule = IF won = 0 THEN NoRule ELSE ruleSet[won].id
      /\ d.shadow = Noted(ruleSet, r)
  BY Decides
<1>2. ToSet(d.shadow) = {ruleSet[i].id : i \in Passed(ruleSet, r)}
  BY <1>1, NotedIs
<1> HIDE DEF d
<1>3. won \in 0..Len(ruleSet) /\ Len(ruleSet) \in Nat
  BY WinnerIs DEF IsSet
<1>4. d.outcome.rule # id
  BY <1>1, <1>3
<1>5. id \notin ToSet(d.shadow)
  BY <1>2 DEF Passed
<1> QED BY <1>4, <1>5 DEF Named, d

Names(ruleSet, counts, e, id) ==
  LET d == Decide(ruleSet, counts, Asked(e), e.time) IN Named(d.outcome, d.shadow, id)

SameNames(set1, set2, events, id) ==
  \A c1, c2 : \A k \in 1..Len(events) :
    Names(set1, c1, events[k], id) <=> Names(set2, c2, events[k], id)

(* Two lists that name a rule for the same lines have the same count of    *)
(* it.                                                                     *)
LEMMA MatchedIs ==
  ASSUME NEW list1, NEW list2, NEW events, Len(events) \in Nat, NEW id,
         SameNames(Effective(list1), Effective(list2), events, id)
  PROVE  Matched(Replay(list1, events), id) = Matched(Replay(list2, events), id)
<1> DEFINE R1 == Replay(list1, events)
           R2 == Replay(list2, events)
           Is(o) == o.rule = id \/ id \in ToSet(o.shadow)
           D1(c, k) == Decide(Effective(list1), c, Asked(events[k]), events[k].time)
           D2(c, k) == Decide(Effective(list2), c, Asked(events[k]), events[k].time)
<1>1. DOMAIN R1 = 1..Len(events) /\ \E c : \A k \in 1..Len(events) : R1[k] = Answer(D1(c[k - 1], k))
  BY ReplayIs DEF RunBy
<1>2. DOMAIN R2 = 1..Len(events) /\ \E c : \A k \in 1..Len(events) : R2[k] = Answer(D2(c[k - 1], k))
  BY ReplayIs DEF RunBy
<1>3. PICK c1 : \A k \in 1..Len(events) : R1[k] = Answer(D1(c1[k - 1], k))
  BY <1>1
<1>4. PICK c2 : \A k \in 1..Len(events) : R2[k] = Answer(D2(c2[k - 1], k))
  BY <1>2
<1>5. ASSUME NEW k \in 1..Len(events) PROVE Is(R1[k]) <=> Is(R2[k])
  <2>1. R1[k] = Answer(D1(c1[k - 1], k)) /\ R2[k] = Answer(D2(c2[k - 1], k))
    BY <1>3, <1>4
  <2>2. Names(Effective(list1), c1[k - 1], events[k], id)
          <=> Names(Effective(list2), c2[k - 1], events[k], id)
    BY DEF SameNames
  <2> DEFINE d1 == D1(c1[k - 1], k)
             d2 == D2(c2[k - 1], k)
  <2>3. Named(d1.outcome, d1.shadow, id) <=> Named(d2.outcome, d2.shadow, id)
    BY <2>2 DEF Names
  <2>4. R1[k] = Answer(d1) /\ R2[k] = Answer(d2)
    BY <2>1
  <2> HIDE DEF R1, R2, d1, d2
  <2>5. /\ R1[k].rule = d1.outcome.rule /\ R1[k].shadow = d1.shadow
        /\ R2[k].rule = d2.outcome.rule /\ R2[k].shadow = d2.shadow
    BY <2>4 DEF Answer
  <2> QED BY <2>3, <2>5 DEF Named
<1>6. {k \in DOMAIN R1 : Is(R1[k])} = {k \in DOMAIN R2 : Is(R2[k])}
  <2> HIDE DEF Is
  <2> QED BY <1>1, <1>2, <1>5
<1> QED BY <1>6 DEF Matched, CountOf

(* A rule that was turned is a rule still, and fires as it did.            *)
LEMMA TurnedIsRule ==
  ASSUME NEW rule \in Rules
  PROVE  /\ Turned(rule) \in Rules
         /\ Turned(rule).id = rule.id /\ Turned(rule).priority = rule.priority
         /\ Turned(rule).enabled = rule.enabled /\ Turned(rule).scope = rule.scope
         /\ Turned(rule).condition = rule.condition /\ Turned(rule).action = rule.action
         /\ Turned(rule).mode \in {"shadow", "active"}
<1> DEFINE m == IF rule.mode = "shadow" THEN "active" ELSE "shadow"
           rest == {"id", "priority", "enabled", "scope", "condition", "action"}
<1>1. /\ DOMAIN rule = {"mode"} \cup rest
      /\ rule.id \in Nat /\ rule.priority \in Int /\ rule.enabled \in BOOLEAN
      /\ rule.scope \in SUBSET [host: Seq(STRING), pattern: BOOLEAN]
      /\ rule.condition \in DOMAIN Conditions /\ rule.action \in Actions
      /\ rule = [x \in DOMAIN rule |-> rule[x]]
  BY DEF Rules
<1>2. m \in {"shadow", "active"}
  OBVIOUS
<1>3. Turned(rule) = [x \in DOMAIN rule |-> IF x = "mode" THEN m ELSE rule[x]]
  BY <1>1 DEF Turned
<1>4. Turned(rule).mode = m /\ \A x \in rest : Turned(rule)[x] = rule[x]
  BY <1>1, <1>3
<1> HIDE DEF m
<1>5. Turned(rule) = [id |-> rule.id, mode |-> m, priority |-> rule.priority,
                      enabled |-> rule.enabled, action |-> rule.action,
                      condition |-> rule.condition, scope |-> rule.scope]
  BY <1>1, <1>3
<1>6. Turned(rule) \in Rules
  BY <1>1, <1>2, <1>5 DEF Rules
<1> QED BY <1>2, <1>4, <1>6

(* What turning a rule changes of the set: nothing before the rule.        *)
LEMMA TurnedForetells ==
  ASSUME NEW rules \in Seq(Rules), Builds(rules), NEW i \in DOMAIN rules,
         NEW events, Len(events) \in Nat
  PROVE  Matched(Replay([rules EXCEPT ![i] = Turned(@)], events), rules[i].id)
           = Matched(Replay(rules, events), rules[i].id)
<1> DEFINE other == [rules EXCEPT ![i] = Turned(@)]
           ruleSet == Effective(rules)
           set2 == Effective(other)
           id == rules[i].id
           C == Cardinality(Enabled(rules))
<1>1. /\ Len(rules) \in Nat /\ DOMAIN rules = 1..Len(rules) /\ DOMAIN other = DOMAIN rules
      /\ \A j \in DOMAIN rules : rules[j] \in Rules
  OBVIOUS
<1>2. Turned(rules[i]) \in Rules
  BY <1>1, TurnedIsRule
<1>3. /\ Turned(rules[i]).id = id /\ Turned(rules[i]).priority = rules[i].priority
      /\ Turned(rules[i]).enabled = rules[i].enabled
      /\ Turned(rules[i]).scope = rules[i].scope
      /\ Turned(rules[i]).condition = rules[i].condition
      /\ Turned(rules[i]).action = rules[i].action
      /\ Turned(rules[i]).mode \in {"shadow", "active"}
  BY <1>1, TurnedIsRule
<1>4. \A j \in DOMAIN rules : other[j] = IF j = i THEN Turned(rules[i]) ELSE rules[j]
  OBVIOUS
<1>5. other \in Seq(Rules) /\ Len(other) = Len(rules)
  BY <1>1, <1>2, ExceptSeq
<1> HIDE DEF other
<1>6. Builds(other)
  <2>1. ASSUME NEW j \in DOMAIN rules PROVE RuleCompiles(other[j])
    <3>1. RuleCompiles(rules[j]) /\ RuleCompiles(rules[i])
      BY DEF Builds
    <3>2. RuleCompiles(Turned(rules[i]))
      BY <3>1, <1>3 DEF RuleCompiles
    <3> QED BY <3>1, <3>2, <1>4
  <2>2. \A j \in DOMAIN rules : other[j].id = rules[j].id
    BY <1>3, <1>4
  <2> QED BY <2>1, <2>2, <1>1 DEF Builds
<1>7. IsSet(ruleSet) /\ IsSet(set2)
  BY <1>5, <1>6, EffectiveIsSet
<1>8. Enabled(other) = Enabled(rules) /\ \A n : PlaceOf(other, n) = PlaceOf(rules, n)
  <2>1. \A j \in DOMAIN rules : /\ other[j].id = rules[j].id
                                /\ other[j].priority = rules[j].priority
                                /\ other[j].enabled = rules[j].enabled
    BY <1>3, <1>4
  <2> QED BY <2>1, <1>1, SamePlaces
<1>9. Numbered(rules) /\ Numbered(other)
  BY <1>5, <1>6, BuiltIsNumbered
<1>10. ruleSet = [n \in 1..C |-> rules[PlaceOf(rules, n)]]
       /\ set2 = [n \in 1..C |-> other[PlaceOf(rules, n)]]
  BY <1>8, <1>9, EffectiveRanks
<1>11. C \in Nat /\ \A n \in 1..C : PlaceOf(rules, n) \in Enabled(rules)
         /\ Cardinality(Sooners(rules, PlaceOf(rules, n))) = n - 1
  BY <1>9, Places, EnabledFinite
<1>12. Enabled(rules) \subseteq DOMAIN rules
  BY DEF Enabled
<1>13. Len(ruleSet) = C /\ Len(set2) = C
  <2>1. DOMAIN ruleSet = 1..C /\ DOMAIN set2 = 1..C
    BY <1>10
  <2>2. ruleSet \in Seq(Rules) /\ set2 \in Seq(Rules)
    BY <1>7 DEF IsSet
  <2> HIDE DEF ruleSet, set2, C
  <2> QED BY <2>1, <2>2, <1>11
<1>14. \A n \in 1..C : ruleSet[n] = rules[PlaceOf(rules, n)]
        /\ set2[n] = IF PlaceOf(rules, n) = i THEN Turned(rules[i]) ELSE rules[PlaceOf(rules, n)]
  BY <1>4, <1>10, <1>11, <1>12
<1> HIDE DEF ruleSet, set2, C
<1>15. \A n \in 1..C : set2[n].id = ruleSet[n].id
  BY <1>3, <1>14
<1>16. \A r : \A n \in 1..C : Fires(set2[n], r) <=> Fires(ruleSet[n], r)
  BY <1>3, <1>14 DEF Fires, InScope
<1>17. \A r : \A n \in 1..C : PlaceOf(rules, n) # i => (Stops(set2[n], r) <=> Stops(ruleSet[n], r))
  BY <1>14
<1>18. id # NoRule
  BY DEF Builds, RuleCompiles
<1>19. ASSUME NEW c1, NEW c2, NEW k \in 1..Len(events)
       PROVE  Names(set2, c1, events[k], id) <=> Names(ruleSet, c2, events[k], id)
  <2> DEFINE r == Asked(events[k])
  <2>1. CASE \E p \in 1..C : PlaceOf(rules, p) = i
    <3>1. PICK p \in 1..C : PlaceOf(rules, p) = i
      BY <2>1
    <3>2. ruleSet[p].id = id /\ set2[p].id = id
      BY <3>1, <1>14, <1>15
    <3>3. \A q \in 1..(p - 1) : q \in 1..C /\ PlaceOf(rules, q) # i
      <4> SUFFICES ASSUME NEW q \in 1..(p - 1)
                   PROVE  q \in 1..C /\ PlaceOf(rules, q) # i
        OBVIOUS
      <4>1. q \in 1..C /\ q - 1 # p - 1
        BY <1>11
      <4> QED BY <4>1, <3>1, <1>11
    <3>4. Reached(set2, p, r) <=> Reached(ruleSet, p, r)
      BY <3>3, <1>16, <1>17 DEF Reached
    <3> QED BY <3>2, <3>4, <1>7, <1>13, ReachedIsNamed DEF Names
  <2>2. CASE ~\E p \in 1..C : PlaceOf(rules, p) = i
    <3>1. \A p \in 1..C : ruleSet[p].id # id /\ set2[p].id # id
      <4> SUFFICES ASSUME NEW p \in 1..C PROVE ruleSet[p].id # id
        BY <1>15
      <4>1. PlaceOf(rules, p) \in DOMAIN rules /\ PlaceOf(rules, p) # i
        BY <2>2, <1>11, <1>12
      <4> QED BY <4>1, <1>14 DEF Builds
    <3> QED BY <3>1, <1>7, <1>13, <1>18, StrangerIsNotNamed DEF Names
  <2> QED BY <2>1, <2>2
<1>20. Matched(Replay(other, events), id) = Matched(Replay(rules, events), id)
  <2>1. SameNames(Effective(other), Effective(rules), events, id)
    BY <1>19 DEF ruleSet, set2, SameNames
  <2> HIDE DEF id
  <2> QED BY <2>1, MatchedIs
<1> QED BY <1>20 DEF other

LEMMA TA == TrafficAssumption
BY NodeRecordsAssumption DEF NodeRecordsAssumption

Outcomes == [action: {"none", "pass", "allow", "block", "ratelimit"}, rule: Nat, status: Int]

Events ==
  [ip: Addresses, host: Texts, ua: Texts, cookie: BOOLEAN, age: Nat, time: Nat,
   decision: {"pass", "allow", "block", "ratelimit"}, rule: Nat, shadow: Seq(Nat), status: Int,
   dur: Nat, visit: Visits]

Hands == [at: Nat, visit: Visits, outcome: Outcomes, shadow: Seq(Nat)]

InHand(w) == serving[w] # Idle
Judgement(w) == InHand(w) /\ serving[w].outcome # NotYet

TrafficTypes ==
  /\ now \in Nat /\ reloads \in Nat /\ overtaken \in BOOLEAN
  /\ list \in Seq(Rules) /\ Builds(list)
  /\ DOMAIN serving = Workers
  /\ \A w \in Workers : InHand(w) => serving[w] \in Hands /\ serving[w].at <= now
  /\ log \in Seq(Events)

(* What is told of a request: what cut it off was a rule, no rule is noted *)
(* twice, and as long as the list is in force the rule that won is active  *)
(* and those that are noted are in shadow mode.                            *)
Told(l, n, action, rule, shadow) ==
  /\ action \in Refusals => rule \notin Spaced
  /\ \A a, b \in DOMAIN shadow : shadow[a] = shadow[b] => a = b
  /\ n = 0 =>
       /\ rule \in {NoRule} \cup Spaced
            \cup {l[i].id : i \in {j \in DOMAIN l : l[j].mode = "active"}}
       /\ ToSet(shadow) \subseteq {l[i].id : i \in {j \in DOMAIN l : l[j].mode = "shadow"}}

HandsTold ==
  \A w \in Workers : Judgement(w) =>
    /\ serving[w].outcome.action # "none"
    /\ Told(list, reloads, serving[w].outcome.action, serving[w].outcome.rule, serving[w].shadow)

LogTold ==
  \A i \in DOMAIN log :
    /\ Asked(log[i]) = Collected(log[i].visit, log[i].time)
    /\ Told(list, reloads, log[i].decision, log[i].rule, log[i].shadow)

TrafficInv == TrafficTypes /\ HandsTold /\ LogTold

-----------------------------------------------------------------------------
(* The address of a client.                                                *)
LEMMA StrangersAre ==
  ASSUME NEW chain \in Seq(Addresses)
  PROVE  /\ Strangers(chain) \in SUBSET Nat /\ Strangers(chain) \in SUBSET Int
         /\ Strangers(chain) \subseteq 1..Len(chain) /\ Len(chain) \in Int
         /\ \A x \in Strangers(chain) : x <= Len(chain)
         /\ Strangers(chain) # {} =>
              /\ Max(Strangers(chain)) \in Strangers(chain)
              /\ \A x \in Strangers(chain) : x <= Max(Strangers(chain))
<1> DEFINE S == Strangers(chain)
<1>1. S \subseteq 1..Len(chain) /\ Len(chain) \in Nat
  BY DEF Strangers
<1> HIDE DEF S
<1>2. S \in SUBSET Nat /\ S \in SUBSET Int /\ \A x \in S : x <= Len(chain)
  BY <1>1
<1>3. S # {} => Max(S) \in S /\ \A x \in S : x <= Max(S)
  <2>1. Len(chain) \in Int
    BY <1>1
  <2> QED BY <1>2, <2>1, MaxIs
<1> QED BY <1>1, <1>2, <1>3 DEF S

LEMMA ClientAddrType ==
  ASSUME NEW peer \in Addresses, NEW chain \in Seq(Addresses)
  PROVE  ClientAddr(peer, chain) \in Addresses
<1>1. Strangers(chain) # {} => chain[Max(Strangers(chain))] \in Addresses
  BY StrangersAre
<1> QED BY <1>1 DEF ClientAddr

LEMMA VisitIs ==
  ASSUME NEW v \in Visits
  PROVE  /\ v.peer \in Addresses /\ v.chain \in Seq(Addresses) /\ v.host \in Texts
         /\ v.ua \in Texts /\ v.cookie \in BOOLEAN /\ v.age \in Nat /\ v.crawler \in BOOLEAN
<1>1. v \in [peer: Addresses, chain: Seq(Addresses), host: Texts, ua: Texts,
             cookie: BOOLEAN, age: Nat, crawler: BOOLEAN]
  BY TA DEF TrafficAssumption
<1> QED BY <1>1

(* What is answered, and the event of it.                                  *)
LEMMA StatusType ==
  ASSUME NEW o \in Outcomes, NEW host, NEW status \in StatusOf(o, host)
  PROVE  status \in Int
<1>1. o.status \in Int /\ Answers \subseteq Nat
  BY TA DEF TrafficAssumption, Outcomes
<1>2. CASE o.action \in Refusals /\ o.status # 0
  BY <1>1, <1>2 DEF StatusOf
<1>3. CASE ~(o.action \in Refusals /\ o.status # 0)
  <2>1. StatusOf(o, host) \subseteq {403, 429, 404} \cup Answers
    BY <1>3, <1>1 DEF StatusOf, Refusals
  <2>2. status \in {403, 429, 404} \cup Answers
    BY <2>1
  <2>3. \A a \in Answers : a \in Int
    BY <1>1
  <2> QED BY <2>2, <2>3
<1> QED BY <1>2, <1>3

LEMMA EventIs ==
  ASSUME NEW s \in Hands, s.at <= now, now \in Nat, s.outcome.action # "none",
         NEW status \in StatusOf(s.outcome, s.visit.host)
  PROVE  LET e == Event(s, status) IN
         /\ e \in Events
         /\ Asked(e) = Collected(e.visit, e.time)
         /\ e.decision = s.outcome.action /\ e.rule = s.outcome.rule /\ e.shadow = s.shadow
         /\ e.visit = s.visit /\ e.time = s.at
<1> DEFINE e == Event(s, status)
<1>1. /\ s.at \in Nat /\ s.visit \in Visits /\ s.outcome \in Outcomes /\ s.shadow \in Seq(Nat)
      /\ s.outcome.action \in {"pass", "allow", "block", "ratelimit"} /\ s.outcome.rule \in Nat
      /\ now - s.at \in Nat
  BY DEF Hands, Outcomes
<1>2. status \in Int
  BY <1>1, StatusType
<1>3. /\ s.visit.peer \in Addresses /\ s.visit.chain \in Seq(Addresses)
      /\ s.visit.host \in Texts /\ s.visit.ua \in Texts /\ s.visit.cookie \in BOOLEAN
      /\ s.visit.age \in Nat /\ ClientAddr(s.visit.peer, s.visit.chain) \in Addresses
  BY <1>1, VisitIs, ClientAddrType
<1>4. e = [ip |-> ClientAddr(s.visit.peer, s.visit.chain), host |-> s.visit.host,
           ua |-> s.visit.ua, cookie |-> s.visit.cookie, age |-> s.visit.age,
           time |-> s.at, decision |-> s.outcome.action, rule |-> s.outcome.rule,
           shadow |-> s.shadow, status |-> status, dur |-> now - s.at, visit |-> s.visit]
  BY DEF Event, Collected
<1> HIDE DEF e
<1>5. e \in Events
  BY <1>1, <1>2, <1>3, <1>4 DEF Events
<1>6. Asked(e) = Collected(e.visit, e.time)
  BY <1>4 DEF Asked, Collected
<1>7. /\ e.decision = s.outcome.action /\ e.rule = s.outcome.rule /\ e.shadow = s.shadow
      /\ e.visit = s.visit /\ e.time = s.at
  BY <1>4
<1> QED BY <1>5, <1>6, <1>7 DEF e

(* A rule of the set is an enabled one of the list.                        *)
LEMMA SetOfList ==
  ASSUME NEW rules \in Seq(Rules), Builds(rules)
  PROVE  \A n \in 1..Len(Effective(rules)) : \E i \in DOMAIN rules : Effective(rules)[n] = rules[i]
<1> DEFINE C == Cardinality(Enabled(rules))
<1>1. Numbered(rules) /\ C \in Nat
  BY BuiltIsNumbered, EnabledFinite
<1>2. Effective(rules) = [n \in 1..C |-> rules[PlaceOf(rules, n)]]
  BY <1>1, EffectiveRanks
<1>3. Effective(rules) \in Seq(Rules)
  BY EffectiveIsSet DEF IsSet
<1>4. Len(Effective(rules)) = C
  <2>1. DOMAIN Effective(rules) = 1..C
    BY <1>2
  <2> HIDE DEF C
  <2> QED BY <2>1, <1>1, <1>3
<1>5. \A n \in 1..C : PlaceOf(rules, n) \in DOMAIN rules
  BY <1>1, Places DEF Enabled
<1> QED BY <1>2, <1>4, <1>5

(* What is decided of a request: types, and what is told.                  *)
LEMMA JudgedIs ==
  ASSUME TrafficTypes, NEW s \in Hands
  PROVE  LET d == Judged(s) IN
         /\ d.outcome \in Outcomes /\ d.outcome.action # "none" /\ d.shadow \in Seq(Nat)
         /\ Told(list, reloads, d.outcome.action, d.outcome.rule, d.shadow)
<1> DEFINE d == Judged(s)
           req == Collected(s.visit, s.at)
           Early(action, rule) ==
             d = [outcome |-> Outcome(action, rule, 0), shadow |-> <<>>, counted |-> counted]
<1>1. ASSUME Early("pass", OwnNetwork) \/ Early("allow", VerifiedCrawler)
      PROVE  /\ d.outcome \in Outcomes /\ d.outcome.action # "none" /\ d.shadow \in Seq(Nat)
             /\ Told(list, reloads, d.outcome.action, d.outcome.rule, d.shadow)
  <2> HIDE DEF d
  <2>1. /\ d.shadow = <<>> /\ d.outcome.action \in {"pass", "allow"}
        /\ d.outcome.rule \in Spaced /\ d.outcome \in Outcomes
    BY <1>1 DEF Outcome, Outcomes, Spaced, OwnNetwork, VerifiedCrawler
  <2>2. ToSet(<<>>) = {} /\ DOMAIN <<>> = {}
    BY DEF ToSet
  <2> QED BY <2>1, <2>2 DEF Told, Refusals
<1>2. ASSUME d = Decide(Effective(list), counted, req, Moment(s))
      PROVE  /\ d.outcome \in Outcomes /\ d.outcome.action # "none" /\ d.shadow \in Seq(Nat)
             /\ Told(list, reloads, d.outcome.action, d.outcome.rule, d.shadow)
  <2> DEFINE ruleSet == Effective(list)
             won == Winner(ruleSet, req)
  <2> HIDE DEF d
  <2>0. list \in Seq(Rules) /\ Builds(list)
    BY DEF TrafficTypes
  <2>1. IsSet(ruleSet) /\ \A n \in 1..Len(ruleSet) : \E i \in DOMAIN list : ruleSet[n] = list[i]
    BY <2>0, EffectiveIsSet, SetOfList
  <2> HIDE DEF ruleSet
  <2>2. /\ d.outcome \in [action: {"pass", "allow", "block", "ratelimit"}, rule: Nat, status: Int]
        /\ d.outcome.rule = IF won = 0 THEN NoRule ELSE ruleSet[won].id
        /\ won = 0 => d.outcome.action = "pass"
        /\ d.shadow = Noted(ruleSet, req)
    BY <1>2, <2>1, Decides DEF ruleSet
  <2>3. /\ d.shadow \in Seq(Nat)
        /\ ToSet(d.shadow) = {ruleSet[i].id : i \in Passed(ruleSet, req)}
        /\ \A a, b \in DOMAIN d.shadow : d.shadow[a] = d.shadow[b] => a = b
    BY <2>1, <2>2, NotedIs
  <2>4. won \in 0..Len(ruleSet) /\ (won # 0 => Stops(ruleSet[won], req)) /\ Len(ruleSet) \in Nat
    BY <2>1, WinnerIs DEF IsSet
  <2>5. \A q \in 1..Len(ruleSet) : won = 0 \/ q < won => ~Stops(ruleSet[q], req)
    BY <2>1, WinnerIs DEF IsSet
  <2>6. \A n \in 1..Len(ruleSet) : RuleCompiles(ruleSet[n])
    BY <2>1 DEF IsSet
  <2>7. Passed(ruleSet, req) = {i \in 1..Len(ruleSet) : (won = 0 \/ i < won) /\ Fires(ruleSet[i], req)}
    BY DEF Passed
  <2> HIDE DEF won
  <2>8. d.outcome \in Outcomes /\ d.outcome.action # "none"
    BY <2>2 DEF Outcomes
  <2>9. d.outcome.rule \notin Spaced
    <3>1. CASE won = 0
      BY <3>1, <2>2 DEF NoRule, Spaced, OwnNetwork, VerifiedCrawler
    <3>2. CASE won # 0
      <4>1. won \in 1..Len(ruleSet)
        BY <3>2, <2>4
      <4> QED BY <4>1, <3>2, <2>2, <2>6 DEF RuleCompiles
    <3> QED BY <3>1, <3>2
  <2>10. d.outcome.rule \in {NoRule} \cup Spaced
            \cup {list[i].id : i \in {j \in DOMAIN list : list[j].mode = "active"}}
    <3>1. CASE won = 0
      BY <3>1, <2>2
    <3>2. CASE won # 0
      <4>1. won \in 1..Len(ruleSet) /\ ruleSet[won].mode = "active" /\ d.outcome.rule = ruleSet[won].id
        BY <3>2, <2>2, <2>4 DEF Stops
      <4>2. PICK i \in DOMAIN list : ruleSet[won] = list[i]
        BY <4>1, <2>1
      <4> QED BY <4>1, <4>2
    <3> QED BY <3>1, <3>2
  <2>11. ToSet(d.shadow)
           \subseteq {list[i].id : i \in {j \in DOMAIN list : list[j].mode = "shadow"}}
    <3> SUFFICES ASSUME NEW n \in Passed(ruleSet, req)
                 PROVE  ruleSet[n].id \in {list[i].id : i \in {j \in DOMAIN list : list[j].mode = "shadow"}}
      BY <2>3
    <3>1. n \in 1..Len(ruleSet) /\ (won = 0 \/ n < won) /\ Fires(ruleSet[n], req)
      BY <2>7
    <3>2. ruleSet[n].mode = "shadow"
      BY <3>1, <2>5, <2>6 DEF Stops, RuleCompiles
    <3>3. PICK i \in DOMAIN list : ruleSet[n] = list[i]
      BY <3>1, <2>1
    <3> QED BY <3>2, <3>3
  <2> QED BY <2>3, <2>8, <2>9, <2>10, <2>11 DEF Told
<1>3. Early("pass", OwnNetwork) \/ Early("allow", VerifiedCrawler)
        \/ d = Decide(Effective(list), counted, req, Moment(s))
  BY DEF Judged
<1> QED BY <1>1, <1>2, <1>3

(* TrafficInv holds at the start, and each step keeps it.                  *)
LEMMA InvStarts ==
  ASSUME Init
  PROVE  TrafficInv
<1>1. list \in Seq(Rules) /\ Builds(list)
  BY TA DEF Init, TrafficAssumption
<1>2. /\ now = 0 /\ reloads = 0 /\ overtaken = FALSE /\ log = <<>>
      /\ serving = [w \in Workers |-> Idle]
  BY DEF Init
<1>3. \A w \in Workers : ~InHand(w) /\ ~Judgement(w)
  BY <1>2 DEF InHand, Judgement
<1>4. log \in Seq(Events) /\ DOMAIN log = {}
  BY <1>2
<1>5. DOMAIN serving = Workers
  BY <1>2
<1>6. TrafficTypes
  BY <1>1, <1>2, <1>3, <1>4, <1>5 DEF TrafficTypes
<1> QED BY <1>3, <1>4, <1>6 DEF TrafficInv, HandsTold, LogTold

LEMMA ArriveKeeps ==
  ASSUME TrafficInv, NEW w \in Workers, NEW v \in Visits, Arrive(w, v)
  PROVE  TrafficInv'
<1> DEFINE s == [at |-> now, visit |-> v, outcome |-> NotYet, shadow |-> <<>>]
<1>1. /\ serving' = [serving EXCEPT ![w] = s]
      /\ UNCHANGED <<now, list, counted, log, reloads, decided, overtaken>>
  BY DEF Arrive, order
<1>2. TrafficTypes /\ HandsTold /\ LogTold
  BY DEF TrafficInv
<1>3. now \in Nat /\ DOMAIN serving = Workers
  BY <1>2 DEF TrafficTypes
<1>4. s \in Hands /\ s.at = now /\ s.outcome = NotYet
  BY <1>3 DEF Hands, Outcomes, NotYet, Outcome, NoRule
<1> HIDE DEF s
<1>5. DOMAIN serving' = Workers /\ serving'[w] = s
      /\ \A x \in Workers : x # w => serving'[x] = serving[x]
  BY <1>1, <1>3
<1>6. TrafficTypes'
  <2>1. ASSUME NEW x \in Workers, InHand(x)'
        PROVE  serving'[x] \in Hands /\ serving'[x].at <= now
    <3>1. CASE x = w
      BY <3>1, <1>3, <1>4, <1>5
    <3>2. CASE x # w
      BY <3>2, <2>1, <1>2, <1>5 DEF TrafficTypes, InHand
    <3> QED BY <3>1, <3>2
  <2> QED BY <2>1, <1>1, <1>2, <1>5 DEF TrafficTypes
<1>7. HandsTold'
  <2> SUFFICES ASSUME NEW x \in Workers, Judgement(x)'
               PROVE  (/\ serving[x].outcome.action # "none"
                       /\ Told(list, reloads, serving[x].outcome.action, serving[x].outcome.rule,
                               serving[x].shadow))'
    BY DEF HandsTold
  <2>1. x # w
    BY <1>4, <1>5 DEF Judgement
  <2>2. serving'[x] = serving[x] /\ Judgement(x)
    BY <2>1, <1>5 DEF Judgement, InHand
  <2> QED BY <2>2, <1>1, <1>2 DEF HandsTold
<1>8. LogTold'
  BY <1>1, <1>2 DEF LogTold
<1> QED BY <1>6, <1>7, <1>8 DEF TrafficInv

LEMMA DecideKeeps ==
  ASSUME TrafficInv, NEW w \in Workers, DecideRequest(w)
  PROVE  TrafficInv'
<1> DEFINE d == Judged(serving[w])
           s == [serving[w] EXCEPT !.outcome = d.outcome, !.shadow = d.shadow]
<1>1. /\ InHand(w)
      /\ serving' = [serving EXCEPT ![w].outcome = d.outcome, ![w].shadow = d.shadow]
      /\ UNCHANGED <<now, list, log, reloads, overtaken>>
  BY DEF DecideRequest, InHand
<1>2. TrafficTypes /\ HandsTold /\ LogTold
  BY DEF TrafficInv
<1>3. now \in Nat /\ DOMAIN serving = Workers /\ serving[w] \in Hands /\ serving[w].at <= now
  BY <1>1, <1>2 DEF TrafficTypes
<1>4. /\ d.outcome \in Outcomes /\ d.outcome.action # "none" /\ d.shadow \in Seq(Nat)
      /\ Told(list, reloads, d.outcome.action, d.outcome.rule, d.shadow)
  BY <1>2, <1>3, JudgedIs
<1> HIDE DEF d
<1>5. DOMAIN serving' = Workers /\ serving'[w] = s
      /\ \A x \in Workers : x # w => serving'[x] = serving[x]
  BY <1>1, <1>3
<1>6. s \in Hands /\ s.at = serving[w].at /\ s.outcome = d.outcome /\ s.shadow = d.shadow
  BY <1>3, <1>4 DEF Hands
<1> HIDE DEF s
<1>7. TrafficTypes'
  <2>1. ASSUME NEW x \in Workers, InHand(x)'
        PROVE  serving'[x] \in Hands /\ serving'[x].at <= now
    <3>1. CASE x = w
      BY <3>1, <1>3, <1>5, <1>6
    <3>2. CASE x # w
      BY <3>2, <2>1, <1>2, <1>5 DEF TrafficTypes, InHand
    <3> QED BY <3>1, <3>2
  <2> QED BY <2>1, <1>1, <1>2, <1>5 DEF TrafficTypes
<1>8. HandsTold'
  <2> SUFFICES ASSUME NEW x \in Workers, Judgement(x)'
               PROVE  (/\ serving[x].outcome.action # "none"
                       /\ Told(list, reloads, serving[x].outcome.action, serving[x].outcome.rule,
                               serving[x].shadow))'
    BY DEF HandsTold
  <2>1. CASE x = w
    BY <2>1, <1>1, <1>4, <1>5, <1>6
  <2>2. CASE x # w
    <3>1. serving'[x] = serving[x] /\ Judgement(x)
      BY <2>2, <1>5 DEF Judgement, InHand
    <3> QED BY <3>1, <1>1, <1>2 DEF HandsTold
  <2> QED BY <2>1, <2>2
<1>9. LogTold'
  BY <1>1, <1>2 DEF LogTold
<1> QED BY <1>7, <1>8, <1>9 DEF TrafficInv

LEMMA FinishWrites ==
  ASSUME TrafficInv, NEW w \in Workers, Finish(w)
  PROVE  \E e \in Events :
           /\ log' = Append(log, e)
           /\ Asked(e) = Collected(e.visit, e.time)
           /\ e.decision = serving[w].outcome.action /\ e.rule = serving[w].outcome.rule
           /\ e.shadow = serving[w].shadow /\ e.visit = serving[w].visit
           /\ e.time = serving[w].at
           /\ Told(list, reloads, e.decision, e.rule, e.shadow)
<1>1. Judgement(w)
  BY DEF Finish, Judgement, InHand
<1>2. now \in Nat /\ serving[w] \in Hands /\ serving[w].at <= now
  BY <1>1 DEF TrafficInv, TrafficTypes, Judgement
<1>3. serving[w].outcome.action # "none"
      /\ Told(list, reloads, serving[w].outcome.action, serving[w].outcome.rule, serving[w].shadow)
  BY <1>1 DEF TrafficInv, HandsTold
<1>4. PICK status \in StatusOf(serving[w].outcome, serving[w].visit.host) :
        log' = Append(log, Event(serving[w], status))
  BY DEF Finish
<1> DEFINE e == Event(serving[w], status)
<1>5. /\ e \in Events
      /\ Asked(e) = Collected(e.visit, e.time)
      /\ e.decision = serving[w].outcome.action /\ e.rule = serving[w].outcome.rule
      /\ e.shadow = serving[w].shadow /\ e.visit = serving[w].visit /\ e.time = serving[w].at
  BY <1>2, <1>3, EventIs
<1> HIDE DEF e
<1>6. Told(list, reloads, e.decision, e.rule, e.shadow)
  BY <1>3, <1>5
<1> QED BY <1>4, <1>5, <1>6 DEF e

LEMMA FinishKeeps ==
  ASSUME TrafficInv, NEW w \in Workers, Finish(w)
  PROVE  TrafficInv'
<1>1. /\ serving' = [serving EXCEPT ![w] = Idle]
      /\ overtaken' = (overtaken \/ Head(decided) # w)
      /\ UNCHANGED <<now, list, counted, reloads>>
  BY DEF Finish
<1>2. TrafficTypes /\ HandsTold /\ LogTold
  BY DEF TrafficInv
<1>3. PICK e \in Events :
        /\ log' = Append(log, e)
        /\ Asked(e) = Collected(e.visit, e.time)
        /\ Told(list, reloads, e.decision, e.rule, e.shadow)
  BY FinishWrites
<1>4. log \in Seq(Events) /\ DOMAIN serving = Workers
  BY <1>2 DEF TrafficTypes
<1>5. DOMAIN serving' = Workers /\ serving'[w] = Idle
      /\ \A x \in Workers : x # w => serving'[x] = serving[x]
  BY <1>1, <1>4
<1>6. \A x \in Workers : InHand(x)' => InHand(x) /\ serving'[x] = serving[x]
  BY <1>5 DEF InHand
<1>7. TrafficTypes'
  <2>1. log' \in Seq(Events) /\ overtaken' \in BOOLEAN
    BY <1>1, <1>3, <1>4
  <2> QED BY <2>1, <1>1, <1>2, <1>5, <1>6 DEF TrafficTypes
<1>8. HandsTold'
  <2> SUFFICES ASSUME NEW x \in Workers, Judgement(x)'
               PROVE  (/\ serving[x].outcome.action # "none"
                       /\ Told(list, reloads, serving[x].outcome.action, serving[x].outcome.rule,
                               serving[x].shadow))'
    BY DEF HandsTold
  <2>1. serving'[x] = serving[x] /\ Judgement(x)
    BY <1>6 DEF Judgement
  <2> QED BY <2>1, <1>1, <1>2 DEF HandsTold
<1>9. LogTold'
  <2> SUFFICES ASSUME NEW i \in DOMAIN log'
               PROVE  /\ Asked(log'[i]) = Collected(log'[i].visit, log'[i].time)
                      /\ Told(list, reloads, log'[i].decision, log'[i].rule, log'[i].shadow)
    BY <1>1 DEF LogTold
  <2>1. (i \in DOMAIN log /\ log'[i] = log[i]) \/ log'[i] = e
    BY <1>3, <1>4
  <2> QED BY <2>1, <1>2, <1>3 DEF LogTold
<1> QED BY <1>7, <1>8, <1>9 DEF TrafficInv

LEMMA ReloadKeeps ==
  ASSUME TrafficInv, NEW l \in Lists, Reload(l)
  PROVE  TrafficInv' /\ reloads' # 0
<1>1. /\ Builds(l) /\ list' = l /\ reloads' = reloads + 1
      /\ UNCHANGED <<now, counted, serving, log, decided, overtaken>>
  BY DEF Reload, order
<1>2. TrafficTypes /\ HandsTold /\ LogTold
  BY DEF TrafficInv
<1>3. l \in Seq(Rules)
  BY TA DEF TrafficAssumption
<1>4. reloads' \in Nat /\ reloads' # 0
  BY <1>1, <1>2 DEF TrafficTypes
<1>5. TrafficTypes'
  BY <1>1, <1>2, <1>3, <1>4 DEF TrafficTypes, InHand
<1>6. \A a, r, s : Told(list, reloads, a, r, s) => Told(list', reloads', a, r, s)
  BY <1>4 DEF Told
<1>7. HandsTold'
  BY <1>1, <1>2, <1>6 DEF HandsTold, Judgement, InHand
<1>8. LogTold'
  BY <1>1, <1>2, <1>6 DEF LogTold
<1> QED BY <1>4, <1>5, <1>7, <1>8 DEF TrafficInv

LEMMA StepKeeps ==
  ASSUME TrafficInv, [Next]_vars
  PROVE  TrafficInv'
<1>1. CASE Tick
  <2>1. UNCHANGED <<list, serving, log, reloads, overtaken>> /\ now' = now + 1
    BY <1>1 DEF Tick, order
  <2>2. TrafficTypes'
    BY <2>1 DEF TrafficInv, TrafficTypes, InHand, Hands
  <2>3. HandsTold' /\ LogTold'
    BY <2>1 DEF TrafficInv, HandsTold, LogTold, Judgement, InHand
  <2> QED BY <2>2, <2>3 DEF TrafficInv
<1>2. CASE UNCHANGED vars
  <2>1. UNCHANGED <<now, list, serving, log, reloads, overtaken>>
    BY <1>2 DEF vars, order
  <2> QED BY <2>1 DEF TrafficInv, TrafficTypes, HandsTold, LogTold, Judgement, InHand
<1> QED
  BY <1>1, <1>2, ArriveKeeps, DecideKeeps, FinishKeeps, ReloadKeeps DEF Next

(* One more address in front of the chain.                                 *)
LEMMA ForgedInFront ==
  ASSUME NEW peer, NEW chain \in Seq(Addresses), NEW forged,
         ~InNetworks(peer, Trusted) \/ Strangers(chain) # {}
  PROVE  ClientAddr(peer, <<forged>> \o chain) = ClientAddr(peer, chain)
<1> DEFINE longer == <<forged>> \o chain
           n == Len(chain)
           S == Strangers(chain)
           T == Strangers(longer)
<1>1. CASE ~InNetworks(peer, Trusted)
  BY <1>1 DEF ClientAddr
<1>2. CASE InNetworks(peer, Trusted) /\ S # {}
  <2>1. n \in Nat /\ DOMAIN longer = 1..(n + 1) /\ \A i \in 1..n : longer[i + 1] = chain[i]
    <3>1. <<forged>> \in Seq(Addresses \cup {forged}) /\ chain \in Seq(Addresses \cup {forged})
      OBVIOUS
    <3> QED BY <3>1
  <2>2. S = {i \in 1..n : ~InNetworks(chain[i], Trusted)}
    BY DEF Strangers
  <2>3. T = {i \in 1..(n + 1) : ~InNetworks(longer[i], Trusted)}
    BY <2>1 DEF Strangers
  <2>4. Max(S) \in S /\ \A x \in S : x <= Max(S)
    BY <1>2, StrangersAre
  <2> DEFINE M == Max(S)
  <2>a. M \in 1..n /\ ~InNetworks(chain[M], Trusted)
    <3> HIDE DEF M
    <3>1. M \in S /\ \A x \in S : x \in 1..n /\ ~InNetworks(chain[x], Trusted)
      BY <2>2, <2>4 DEF M
    <3> HIDE DEF S, n
    <3> QED BY <3>1
  <2> HIDE DEF S, M, n
  <2>5. M + 1 \in T /\ longer[M + 1] = chain[M]
    <3>1. M + 1 \in 1..(n + 1) /\ longer[M + 1] = chain[M]
      BY <2>1, <2>a
    <3> HIDE DEF T, longer
    <3> QED BY <3>1, <2>3, <2>a
  <2>6. ASSUME NEW x \in T PROVE x <= M + 1
    <3>1. CASE x = 1
      BY <3>1, <2>1, <2>a
    <3>2. CASE x # 1
      <4>1. x - 1 \in 1..n /\ longer[(x - 1) + 1] = chain[x - 1] /\ (x - 1) + 1 = x
        BY <3>2, <2>1, <2>3
      <4>2. x - 1 \in S
        BY <4>1, <2>2, <2>3
      <4>3. x - 1 <= M
        BY <4>2, <2>4 DEF M
      <4> QED BY <4>1, <4>3, <2>1, <2>a
    <3> QED BY <3>1, <3>2
  <2>7. Max(T) = M + 1
    <3>1. T \in SUBSET Int /\ M + 1 \in Int /\ T # {}
      BY <2>1, <2>3, <2>5, <2>a
    <3> HIDE DEF T, M
    <3>2. Max(T) \in T /\ \A x \in T : x <= Max(T)
      BY <3>1, <2>6, MaxIs
    <3>3. Max(T) <= M + 1 /\ M + 1 <= Max(T) /\ Max(T) \in Int
      <4> HIDE DEF longer
      <4> QED BY <3>1, <3>2, <2>5, <2>6
    <3> QED BY <3>1, <3>3
  <2>8. T # {} /\ longer[Max(T)] = chain[Max(S)]
    BY <2>5, <2>7 DEF M
  <2> HIDE DEF longer
  <2>9. ClientAddr(peer, longer) = LET link == chain[Max(S)] IN IF link = <<>> THEN peer ELSE link
    BY <2>8, <1>2 DEF ClientAddr, S, T
  <2> QED BY <2>9, <1>2 DEF ClientAddr, longer, S
<1> QED BY <1>1, <1>2

LEMMA ChainHolds ==
  ASSUME TrafficInv
  PROVE  ChainIsNotForged
<1> SUFFICES ASSUME NEW i \in DOMAIN log, NEW forged,
                    LET v == log[i].visit IN ~InNetworks(v.peer, Trusted) \/ Strangers(v.chain) # {}
             PROVE  ClientAddr(log[i].visit.peer, <<forged>> \o log[i].visit.chain) = log[i].ip
  BY DEF ChainIsNotForged
<1>1. log[i] \in Events
  BY DEF TrafficInv, TrafficTypes
<1>2. log[i].visit \in Visits /\ log[i].visit.chain \in Seq(Addresses)
  BY <1>1, VisitIs DEF Events
<1>3. ClientAddr(log[i].visit.peer, <<forged>> \o log[i].visit.chain)
        = ClientAddr(log[i].visit.peer, log[i].visit.chain)
  BY <1>2, ForgedInFront
<1>4. log[i].ip = ClientAddr(log[i].visit.peer, log[i].visit.chain)
  BY DEF TrafficInv, LogTold, Asked, Collected
<1> QED BY <1>3, <1>4

LEMMA ShadowsHold ==
  ASSUME TrafficInv
  PROVE  ShadowForetells
<1>1. list \in Seq(Rules) /\ Builds(list) /\ Len(log) \in Nat
  BY DEF TrafficInv, TrafficTypes
<1> QED BY <1>1, TurnedForetells DEF ShadowForetells

(* As long as no request overtakes another, the handlers that have decided *)
(* are a queue.                                                            *)
Queued ==
  ~overtaken =>
    /\ decided \in Seq(Workers)
    /\ \A a, b \in DOMAIN decided : decided[a] = decided[b] => a = b
    /\ \A w \in Workers : Judgement(w) <=> \E a \in DOMAIN decided : decided[a] = w

(* The k-th count of a replay, and what it answers.                        *)
Fits(c, k, req, moment, action, rule, shadow) ==
  IF rule \notin Spaced
  THEN LET d == Decide(Effective(list), c[k - 1], req, moment)
       IN c[k] = d.counted /\ Answer(d) = [action |-> action, rule |-> rule, shadow |-> shadow]
  ELSE c[k] = c[k - 1]

FitsLine(c, k, e) == Fits(c, k, Asked(e), e.time, e.decision, e.rule, e.shadow)

FitsHand(c, k, s) ==
  Fits(c, k, Collected(s.visit, s.at), s.at, s.outcome.action, s.outcome.rule, s.shadow)

(* The counts of the requests that are written, and of those that are      *)
(* decided behind them, are those of one replay.                           *)
PlayedBy(c) ==
  /\ c[0] = NothingCounted
  /\ \A k \in 1..Len(log) : FitsLine(c, k, log[k])
  /\ \A a \in 1..Len(decided) : FitsHand(c, Len(log) + a, serving[decided[a]])
  /\ c[Len(log) + Len(decided)] = counted

Played == reloads = 0 /\ ~overtaken => \E c : PlayedBy(c)

ReplayInv == TrafficInv /\ Queued /\ Played

-----------------------------------------------------------------------------
LEMMA QueuedStarts ==
  ASSUME Init
  PROVE  Queued /\ Played
<1>1. /\ decided = <<>> /\ log = <<>> /\ counted = NothingCounted
      /\ \A w \in Workers : ~Judgement(w)
  BY DEF Init, Judgement, InHand
<1>2. decided \in Seq(Workers) /\ DOMAIN decided = {} /\ Len(decided) = 0 /\ Len(log) = 0
  BY <1>1
<1>3. Queued
  BY <1>1, <1>2 DEF Queued
<1>4. PlayedBy([n \in {0} |-> NothingCounted])
  BY <1>1, <1>2 DEF PlayedBy
<1> QED BY <1>3, <1>4 DEF Played

LEMMA JudgedCounts ==
  ASSUME TrafficTypes, NEW s \in Hands
  PROVE  LET d == Judged(s)
             asked == Decide(Effective(list), counted, Collected(s.visit, s.at), s.at)
         IN IF d.outcome.rule \notin Spaced
            THEN d.counted = asked.counted /\ d.outcome = asked.outcome /\ d.shadow = asked.shadow
            ELSE d.counted = counted
<1> DEFINE d == Judged(s)
           req == Collected(s.visit, s.at)
           asked == Decide(Effective(list), counted, req, s.at)
           Early(action, rule) ==
             d = [outcome |-> Outcome(action, rule, 0), shadow |-> <<>>, counted |-> counted]
           Goal == IF d.outcome.rule \notin Spaced
                   THEN d.counted = asked.counted /\ d.outcome = asked.outcome
                        /\ d.shadow = asked.shadow
                   ELSE d.counted = counted
<1>1. ASSUME Early("pass", OwnNetwork) \/ Early("allow", VerifiedCrawler)
      PROVE  Goal
  <2> HIDE DEF d, asked
  <2>1. d.outcome.rule \in Spaced /\ d.counted = counted
    BY <1>1 DEF Outcome, Spaced, OwnNetwork, VerifiedCrawler
  <2> QED BY <2>1
<1>2. ASSUME d = asked
      PROVE  Goal
  <2> DEFINE ruleSet == Effective(list)
             won == Winner(ruleSet, req)
  <2>1. IsSet(ruleSet)
    BY EffectiveIsSet DEF TrafficTypes
  <2> HIDE DEF ruleSet, d
  <2>2. asked.outcome.rule = IF won = 0 THEN NoRule ELSE ruleSet[won].id
    BY <2>1, Decides DEF ruleSet
  <2>3. won \in 0..Len(ruleSet)
    BY <2>1, WinnerIs DEF IsSet
  <2>4. \A n \in 1..Len(ruleSet) : RuleCompiles(ruleSet[n])
    BY <2>1 DEF IsSet
  <2> HIDE DEF won, asked
  <2>5. d.outcome.rule \notin Spaced
    <3>1. CASE won = 0
      BY <3>1, <2>2, <1>2 DEF NoRule, Spaced, OwnNetwork, VerifiedCrawler
    <3>2. CASE won # 0
      <4>1. won \in 1..Len(ruleSet)
        BY <3>2, <2>3
      <4> QED BY <4>1, <3>2, <2>2, <2>4, <1>2 DEF RuleCompiles
    <3> QED BY <3>1, <3>2
  <2> QED BY <2>5, <1>2
<1>3. Early("pass", OwnNetwork) \/ Early("allow", VerifiedCrawler) \/ d = asked
  BY DEF Judged, Moment
<1> QED BY <1>1, <1>2, <1>3

(* What is written and decided next, by the list that is in force.         *)
LEMMA PlayedNext ==
  ASSUME list' = list, NEW c,
         c[0] = NothingCounted,
         \A k \in 1..Len(log') : FitsLine(c, k, log'[k]),
         \A a \in 1..Len(decided') : FitsHand(c, Len(log') + a, serving'[decided'[a]]),
         c[Len(log') + Len(decided')] = counted'
  PROVE  PlayedBy(c)'
<1>2. \A k \in 1..Len(log') : FitsLine(c, k, log[k])'
  BY DEF FitsLine, Fits
<1>3. \A a \in 1..Len(decided') : FitsHand(c, Len(log) + a, serving[decided[a]])'
  BY DEF FitsHand, Fits
<1> QED BY <1>2, <1>3 DEF PlayedBy

(* Each step keeps the queue, and what is played.                          *)
LEMMA ArriveQueues ==
  ASSUME ReplayInv, NEW w \in Workers, NEW v \in Visits, Arrive(w, v)
  PROVE  Queued' /\ Played'
<1>1. /\ serving[w] = Idle
      /\ serving' = [serving EXCEPT ![w] =
                       [at |-> now, visit |-> v, outcome |-> NotYet, shadow |-> <<>>]]
      /\ UNCHANGED <<now, list, counted, log, reloads, decided, overtaken>>
  BY DEF Arrive, order
<1>2. DOMAIN serving = Workers
  BY DEF ReplayInv, TrafficInv, TrafficTypes
<1>3. serving'[w].outcome = NotYet /\ \A x \in Workers : x # w => serving'[x] = serving[x]
  BY <1>1, <1>2
<1>4. \A x \in Workers : Judgement(x)' <=> Judgement(x)
  BY <1>1, <1>3 DEF Judgement, InHand
<1>5. Queued'
  BY <1>1, <1>4 DEF ReplayInv, Queued
<1>6. ASSUME reloads = 0, ~overtaken PROVE \E c : PlayedBy(c)'
  <2>1. PICK c : PlayedBy(c)
    BY <1>6 DEF ReplayInv, Played
  <2>2. ASSUME NEW a \in 1..Len(decided) PROVE serving'[decided[a]] = serving[decided[a]]
    <3>1. a \in DOMAIN decided /\ decided[a] \in Workers /\ Judgement(decided[a])
      BY <1>6 DEF ReplayInv, Queued
    <3>2. decided[a] # w
      BY <3>1, <1>1 DEF Judgement, InHand
    <3> QED BY <3>1, <3>2, <1>3
  <2>3. PlayedBy(c)'
    BY <2>1, <2>2, <1>1 DEF PlayedBy, FitsLine, FitsHand, Fits
  <2> QED BY <2>3
<1> QED BY <1>1, <1>5, <1>6 DEF Played

LEMMA DecideQueues ==
  ASSUME ReplayInv, NEW w \in Workers, DecideRequest(w)
  PROVE  Queued' /\ Played'
<1> DEFINE d == Judged(serving[w])
           s == [serving[w] EXCEPT !.outcome = d.outcome, !.shadow = d.shadow]
<1>1. /\ InHand(w) /\ serving[w].outcome = NotYet
      /\ serving' = [serving EXCEPT ![w].outcome = d.outcome, ![w].shadow = d.shadow]
      /\ counted' = d.counted /\ decided' = Append(decided, w)
      /\ UNCHANGED <<now, list, log, reloads, overtaken>>
  BY DEF DecideRequest, InHand
<1>2. TrafficTypes /\ Queued /\ Played
  BY DEF ReplayInv, TrafficInv
<1>3. DOMAIN serving = Workers /\ serving[w] \in Hands
  BY <1>1, <1>2 DEF TrafficTypes
<1>4. d.outcome \in Outcomes /\ d.outcome.action # "none"
  BY <1>2, <1>3, JudgedIs
<1>5. IF d.outcome.rule \notin Spaced
      THEN LET asked == Decide(Effective(list), counted, Collected(serving[w].visit, serving[w].at),
                               serving[w].at)
           IN d.counted = asked.counted /\ d.outcome = asked.outcome /\ d.shadow = asked.shadow
      ELSE d.counted = counted
  BY <1>2, <1>3, JudgedCounts
<1> HIDE DEF d
<1>6. serving'[w] = s /\ \A x \in Workers : x # w => serving'[x] = serving[x]
  BY <1>1, <1>3
<1>7. /\ s.at = serving[w].at /\ s.visit = serving[w].visit
      /\ s.outcome = d.outcome /\ s.shadow = d.shadow /\ s \in Hands \cup {s}
  BY <1>3 DEF Hands
<1>8. s # Idle
  <2>1. s.at # -1
    BY <1>3, <1>7 DEF Hands
  <2> HIDE DEF s
  <2> QED BY <2>1 DEF Idle, None
<1> HIDE DEF s
<1>9. ~Judgement(w) /\ Judgement(w)' /\ \A x \in Workers : x # w => (Judgement(x)' <=> Judgement(x))
  <2>1. d.outcome # NotYet
    BY <1>4 DEF NotYet, Outcome
  <2> QED BY <2>1, <1>1, <1>6, <1>7, <1>8 DEF Judgement, InHand
<1>10. ASSUME ~overtaken
       PROVE  /\ decided \in Seq(Workers) /\ Len(decided) \in Nat
              /\ decided' \in Seq(Workers) /\ Len(decided') = Len(decided) + 1
              /\ \A a \in 1..Len(decided) : decided'[a] = decided[a] /\ decided[a] # w
                                              /\ decided[a] \in Workers
              /\ decided'[Len(decided) + 1] = w
  <2>1. decided \in Seq(Workers) /\ \A a \in DOMAIN decided : decided[a] # w
    BY <1>2, <1>9, <1>10 DEF Queued
  <2>2. DOMAIN decided = 1..Len(decided)
    BY <2>1
  <2> QED BY <2>1, <2>2, <1>1
<1>11. Queued'
  <2> SUFFICES ASSUME ~overtaken
               PROVE  /\ decided' \in Seq(Workers)
                      /\ \A a, b \in DOMAIN decided' : decided'[a] = decided'[b] => a = b
                      /\ \A x \in Workers : Judgement(x)' <=> \E a \in DOMAIN decided' : decided'[a] = x
    BY <1>1 DEF Queued
  <2>1. DOMAIN decided' = 1..(Len(decided) + 1) /\ DOMAIN decided = 1..Len(decided)
    BY <1>10
  <2>2. /\ \A a, b \in DOMAIN decided : decided[a] = decided[b] => a = b
        /\ \A x \in Workers : Judgement(x) <=> \E a \in DOMAIN decided : decided[a] = x
    BY <1>2 DEF Queued
  <2>3. ASSUME NEW a \in DOMAIN decided', NEW b \in DOMAIN decided', decided'[a] = decided'[b]
        PROVE  a = b
    BY <2>1, <2>2, <2>3, <1>10
  <2>4. ASSUME NEW x \in Workers
        PROVE  Judgement(x)' <=> \E a \in DOMAIN decided' : decided'[a] = x
    <3>1. CASE x = w
      <4>1. Len(decided) + 1 \in DOMAIN decided'
        BY <2>1, <1>10
      <4> QED BY <4>1, <3>1, <1>9, <1>10
    <3>2. CASE x # w
      <4>1. (\E a \in DOMAIN decided' : decided'[a] = x) <=> \E a \in DOMAIN decided : decided[a] = x
        <5>1. ASSUME NEW a \in DOMAIN decided', decided'[a] = x
              PROVE  a \in DOMAIN decided /\ decided[a] = x
          BY <5>1, <2>1, <3>2, <1>10
        <5>2. ASSUME NEW a \in DOMAIN decided, decided[a] = x
              PROVE  a \in DOMAIN decided' /\ decided'[a] = x
          BY <5>2, <2>1, <1>10
        <5> QED BY <5>1, <5>2
      <4> QED BY <4>1, <3>2, <2>2, <1>9
    <3> QED BY <3>1, <3>2
  <2> QED BY <2>3, <2>4, <1>10
<1>12. ASSUME reloads = 0, ~overtaken PROVE \E c : PlayedBy(c)'
  <2>1. PICK c : PlayedBy(c)
    BY <1>2, <1>12 DEF Played
  <2> DEFINE L == Len(log)
             D == Len(decided)
  <2>2. L \in Nat /\ D \in Nat
    BY <1>2, <1>10, <1>12 DEF TrafficTypes
  <2>3. c[L + D] = counted
    BY <2>1 DEF PlayedBy
  <2>a. /\ c[0] = NothingCounted
        /\ \A k \in 1..L : FitsLine(c, k, log[k])
        /\ \A a \in 1..D : FitsHand(c, L + a, serving[decided[a]])
    BY <2>1 DEF PlayedBy
  <2> HIDE DEF L, D
  <2>4. PICK g : (\A k \in 0..(L + D) : g[k] = c[k]) /\ g[L + D + 1] = counted'
    <3> DEFINE h == [k \in 0..(L + D + 1) |-> IF k = L + D + 1 THEN counted' ELSE c[k]]
    <3>1. (\A k \in 0..(L + D) : h[k] = c[k]) /\ h[L + D + 1] = counted'
      BY <2>2
    <3> QED BY <3>1
  <2>5. g[0] = NothingCounted
    BY <2>2, <2>4, <2>a
  <2>6. ASSUME NEW k \in 1..(L + D), NEW req, NEW moment, NEW action, NEW rule, NEW shadow,
               Fits(c, k, req, moment, action, rule, shadow)
        PROVE  Fits(g, k, req, moment, action, rule, shadow)
    <3>1. g[k] = c[k] /\ g[k - 1] = c[k - 1]
      BY <2>2, <2>4
    <3> QED BY <3>1, <2>6 DEF Fits
  <2>7. \A k \in 1..L : FitsLine(g, k, log[k])
    <3> SUFFICES ASSUME NEW k \in 1..L PROVE FitsLine(g, k, log[k])
      OBVIOUS
    <3>1. k \in 1..(L + D)
      BY <2>2
    <3> QED BY <3>1, <2>a, <2>6 DEF FitsLine
  <2>8. \A a \in 1..D : FitsHand(g, L + a, serving[decided[a]])
    <3> SUFFICES ASSUME NEW a \in 1..D PROVE FitsHand(g, L + a, serving[decided[a]])
      OBVIOUS
    <3>1. L + a \in 1..(L + D)
      BY <2>2
    <3> QED BY <3>1, <2>a, <2>6 DEF FitsHand
  <2>9. FitsHand(g, L + D + 1, s)
    <3>1. g[(L + D + 1) - 1] = counted /\ g[L + D + 1] = d.counted
      BY <2>2, <2>3, <2>4, <1>1
    <3> QED BY <3>1, <1>5, <1>7 DEF FitsHand, Fits, Answer
  <2>10. \A a \in 1..(D + 1) : FitsHand(g, L + a, serving'[decided'[a]])
    <3> SUFFICES ASSUME NEW a \in 1..(D + 1) PROVE FitsHand(g, L + a, serving'[decided'[a]])
      OBVIOUS
    <3>1. CASE a = D + 1
      <4>1. decided'[a] = w
        BY <3>1, <1>10, <1>12 DEF D
      <4>2. L + a = L + D + 1
        BY <3>1, <2>2
      <4> QED BY <4>1, <4>2, <1>6, <2>9
    <3>2. CASE a # D + 1
      <4>1. a \in 1..D
        BY <3>2, <2>2
      <4>2. decided'[a] = decided[a] /\ decided[a] # w /\ decided[a] \in Workers
        BY <4>1, <1>10, <1>12 DEF D
      <4> QED BY <4>1, <4>2, <1>6, <2>8
    <3> QED BY <3>1, <3>2
  <2>11. Len(log') = L /\ Len(decided') = D + 1 /\ log' = log /\ L + (D + 1) = L + D + 1
    BY <1>1, <1>10, <1>12, <2>2 DEF L, D
  <2>12. PlayedBy(g)'
    <3>1. /\ g[0] = NothingCounted
          /\ \A k \in 1..Len(log') : FitsLine(g, k, log'[k])
          /\ \A a \in 1..Len(decided') : FitsHand(g, Len(log') + a, serving'[decided'[a]])
          /\ g[Len(log') + Len(decided')] = counted'
      BY <2>4, <2>5, <2>7, <2>10, <2>11
    <3> QED BY <3>1, PlayedNext, <1>1
  <2> QED BY <2>12
<1> QED BY <1>1, <1>11, <1>12 DEF Played

LEMMA FinishQueues ==
  ASSUME ReplayInv, NEW w \in Workers, Finish(w)
  PROVE  Queued' /\ Played'
<1>1. /\ Judgement(w)
      /\ serving' = [serving EXCEPT ![w] = Idle]
      /\ overtaken' = (overtaken \/ Head(decided) # w)
      /\ decided' = Tail(decided)
      /\ UNCHANGED <<now, list, counted, reloads>>
  BY DEF Finish, Judgement, InHand
<1>2. TrafficInv /\ TrafficTypes /\ Queued /\ Played
  BY DEF ReplayInv, TrafficInv
<1>3. PICK e \in Events :
           /\ log' = Append(log, e)
           /\ Asked(e) = Collected(e.visit, e.time)
           /\ e.decision = serving[w].outcome.action /\ e.rule = serving[w].outcome.rule
           /\ e.shadow = serving[w].shadow /\ e.visit = serving[w].visit
           /\ e.time = serving[w].at
  BY <1>2, FinishWrites
<1>4. DOMAIN serving = Workers /\ log \in Seq(Events) /\ overtaken \in BOOLEAN
  BY <1>2 DEF TrafficTypes
<1>5. serving'[w] = Idle /\ \A x \in Workers : x # w => serving'[x] = serving[x]
  BY <1>1, <1>4
<1>6. ~Judgement(w)' /\ \A x \in Workers : x # w => (Judgement(x)' <=> Judgement(x))
  BY <1>5 DEF Judgement, InHand
<1>7. ASSUME ~overtaken'
      PROVE  /\ ~overtaken /\ decided \in Seq(Workers) /\ Len(decided) \in Nat \ {0}
             /\ decided[1] = w
             /\ decided' \in Seq(Workers) /\ Len(decided') = Len(decided) - 1
             /\ \A a \in 1..Len(decided') : a + 1 \in 1..Len(decided) /\ decided'[a] = decided[a + 1]
                                              /\ decided[a + 1] # w /\ decided[a + 1] \in Workers
             /\ \A a \in 1..Len(decided) : a # 1 => a - 1 \in 1..Len(decided')
                                              /\ decided'[a - 1] = decided[a]
  <2>1. ~overtaken /\ Head(decided) = w
    BY <1>1, <1>4, <1>7
  <2>2. /\ decided \in Seq(Workers) /\ \E a \in DOMAIN decided : decided[a] = w
        /\ \A a, b \in DOMAIN decided : decided[a] = decided[b] => a = b
    BY <2>1, <1>1, <1>2 DEF Queued
  <2>3. Len(decided) \in Nat \ {0} /\ DOMAIN decided = 1..Len(decided) /\ decided # <<>>
    BY <2>2
  <2>4. decided[1] = w /\ 1 \in DOMAIN decided
    BY <2>1, <2>2, <2>3
  <2>5. decided' \in Seq(Workers) /\ Len(decided') = Len(decided) - 1
    BY <2>2, <2>3, <1>1
  <2>6. ASSUME NEW a \in 1..Len(decided')
        PROVE  a + 1 \in 1..Len(decided) /\ decided'[a] = decided[a + 1] /\ decided[a + 1] # w
                 /\ decided[a + 1] \in Workers
    <3>1. a + 1 \in 1..Len(decided) /\ a + 1 # 1 /\ a \in 1..(Len(decided) - 1)
      BY <2>3, <2>5
    <3>2. decided'[a] = decided[a + 1]
      BY <3>1, <2>2, <2>3, <1>1
    <3> QED BY <3>1, <3>2, <2>2, <2>3, <2>4
  <2>7. ASSUME NEW a \in 1..Len(decided), a # 1
        PROVE  a - 1 \in 1..Len(decided') /\ decided'[a - 1] = decided[a]
    <3>1. a - 1 \in 1..Len(decided') /\ (a - 1) + 1 = a
      BY <2>3, <2>5, <2>7
    <3> QED BY <3>1, <2>6
  <2> QED BY <2>1, <2>2, <2>3, <2>4, <2>5, <2>6, <2>7
<1>8. Queued'
  <2> SUFFICES ASSUME ~overtaken'
               PROVE  /\ decided' \in Seq(Workers)
                      /\ \A a, b \in DOMAIN decided' : decided'[a] = decided'[b] => a = b
                      /\ \A x \in Workers : Judgement(x)' <=> \E a \in DOMAIN decided' : decided'[a] = x
    BY DEF Queued
  <2>1. DOMAIN decided' = 1..Len(decided') /\ DOMAIN decided = 1..Len(decided)
    BY <1>7
  <2>2. /\ \A a, b \in DOMAIN decided : decided[a] = decided[b] => a = b
        /\ \A x \in Workers : Judgement(x) <=> \E a \in DOMAIN decided : decided[a] = x
    BY <1>2, <1>7 DEF Queued
  <2>3. ASSUME NEW a \in DOMAIN decided', NEW b \in DOMAIN decided', decided'[a] = decided'[b]
        PROVE  a = b
    <3>1. a + 1 \in DOMAIN decided /\ b + 1 \in DOMAIN decided /\ decided[a + 1] = decided[b + 1]
      BY <2>1, <2>3, <1>7
    <3>2. a + 1 = b + 1
      BY <3>1, <2>2
    <3> QED BY <3>2, <2>1
  <2>4. ASSUME NEW x \in Workers
        PROVE  Judgement(x)' <=> \E a \in DOMAIN decided' : decided'[a] = x
    <3>1. CASE x = w
      BY <3>1, <2>1, <1>6, <1>7
    <3>2. CASE x # w
      <4>1. ASSUME NEW a \in DOMAIN decided', decided'[a] = x
            PROVE  \E b \in DOMAIN decided : decided[b] = x
        BY <4>1, <2>1, <1>7
      <4>2. ASSUME NEW b \in DOMAIN decided, decided[b] = x
            PROVE  \E a \in DOMAIN decided' : decided'[a] = x
        <5>1. b # 1
          BY <4>2, <3>2, <1>7
        <5> QED BY <5>1, <4>2, <2>1, <1>7
      <4> QED BY <4>1, <4>2, <3>2, <2>2, <1>6
    <3> QED BY <3>1, <3>2
  <2> QED BY <2>3, <2>4, <1>7
<1>9. ASSUME reloads = 0, ~overtaken' PROVE \E c : PlayedBy(c)'
  <2>1. PICK c : PlayedBy(c)
    BY <1>2, <1>7, <1>9 DEF Played
  <2> DEFINE L == Len(log)
             D == Len(decided)
  <2>2. /\ c[0] = NothingCounted
        /\ \A k \in 1..L : FitsLine(c, k, log[k])
        /\ \A a \in 1..D : FitsHand(c, L + a, serving[decided[a]])
        /\ c[L + D] = counted
    BY <2>1 DEF PlayedBy
  <2>3. /\ L \in Nat /\ D \in Nat \ {0} /\ Len(log') = L + 1 /\ Len(decided') = D - 1
        /\ log'[L + 1] = e /\ \A k \in 1..L : log'[k] = log[k]
    BY <1>3, <1>4, <1>7, <1>9
  <2> HIDE DEF L, D
  <2>4. ASSUME NEW k \in 1..(L + 1) PROVE FitsLine(c, k, log'[k])
    <3>1. CASE k = L + 1
      <4>1. 1 \in 1..D /\ decided[1] = w
        BY <2>3, <1>7, <1>9
      <4>2. FitsHand(c, L + 1, serving[w])
        BY <4>1, <2>2
      <4> QED BY <4>2, <3>1, <2>3, <1>3 DEF FitsHand, FitsLine
    <3>2. CASE k # L + 1
      <4>1. k \in 1..L
        BY <3>2, <2>3
      <4> QED BY <4>1, <2>2, <2>3
    <3> QED BY <3>1, <3>2
  <2>5. ASSUME NEW a \in 1..(D - 1) PROVE FitsHand(c, (L + 1) + a, serving'[decided'[a]])
    <3>1. a \in 1..Len(decided') /\ a + 1 \in 1..D
      BY <2>3
    <3>2. decided'[a] = decided[a + 1] /\ decided[a + 1] # w /\ decided[a + 1] \in Workers
      BY <3>1, <1>7, <1>9
    <3>3. FitsHand(c, L + (a + 1), serving[decided[a + 1]])
      BY <3>1, <2>2
    <3>4. L + (a + 1) = (L + 1) + a
      BY <2>3
    <3>5. serving'[decided'[a]] = serving[decided[a + 1]]
      BY <3>2, <1>5
    <3> QED BY <3>3, <3>4, <3>5
  <2>6. (L + 1) + (D - 1) = L + D
    BY <2>3
  <2>7. PlayedBy(c)'
    <3>1. /\ c[0] = NothingCounted
          /\ \A k \in 1..Len(log') : FitsLine(c, k, log'[k])
          /\ \A a \in 1..Len(decided') : FitsHand(c, Len(log') + a, serving'[decided'[a]])
          /\ c[Len(log') + Len(decided')] = counted'
      BY <2>2, <2>3, <2>4, <2>5, <2>6, <1>1
    <3> QED BY <3>1, PlayedNext, <1>1
  <2> QED BY <2>7
<1> QED BY <1>1, <1>8, <1>9 DEF Played

LEMMA StepPlays ==
  ASSUME ReplayInv, [Next]_vars
  PROVE  ReplayInv'
<1>1. TrafficInv'
  BY StepKeeps DEF ReplayInv
<1>2. CASE UNCHANGED <<list, counted, serving, log, reloads, decided, overtaken>>
  BY <1>2, <1>1 DEF ReplayInv, Queued, Played, PlayedBy, Judgement, InHand, FitsLine, FitsHand, Fits
<1>3. CASE Tick \/ UNCHANGED vars
  BY <1>3, <1>2 DEF Tick, order, vars
<1>4. ASSUME NEW l \in Lists, Reload(l) PROVE ReplayInv'
  <2>1. reloads' # 0 /\ UNCHANGED <<serving, decided, overtaken>>
    BY <1>4, ReloadKeeps DEF ReplayInv, Reload, order
  <2>2. Queued'
    BY <2>1 DEF ReplayInv, Queued, Judgement, InHand
  <2> QED BY <2>1, <2>2, <1>1 DEF Played, ReplayInv
<1> QED
  BY <1>1, <1>3, <1>4, ArriveQueues, DecideQueues, FinishQueues DEF Next, ReplayInv

LEMMA LogSpan ==
  ASSUME TrafficInv
  PROVE  /\ log \in Seq(Events) /\ Len(log) \in Nat /\ DOMAIN log = 1..Len(log)
         /\ \A i \in 1..Len(log) : log[i] \in Events
         /\ \A i \in 1..Len(log) : Told(list, reloads, log[i].decision, log[i].rule, log[i].shadow)
<1>1. log \in Seq(Events) /\ LogTold
  BY DEF TrafficInv, TrafficTypes
<1>2. Len(log) \in Nat /\ DOMAIN log = 1..Len(log) /\ \A i \in 1..Len(log) : log[i] \in Events
  BY <1>1
<1> QED BY <1>1, <1>2 DEF LogTold

(* What was ruled was counted, once the log is quiet.                      *)
LEMMA RuledCounted ==
  ASSUME ReplayInv, Settled, reloads = 0, ~overtaken
  PROVE  \E c : CountedBy(c, Effective(list), log, DOMAIN log \ PassedBefore)
<1>1. PICK c : PlayedBy(c)
  BY DEF ReplayInv, Played
<1>2. c[0] = NothingCounted /\ \A k \in 1..Len(log) : FitsLine(c, k, log[k])
  BY <1>1 DEF PlayedBy
<1>3. DOMAIN log = 1..Len(log)
  BY DEF ReplayInv, TrafficInv, TrafficTypes
<1>4. ASSUME NEW k \in 1..Len(log)
      PROVE  k \in DOMAIN log \ PassedBefore <=> log[k].rule \notin Spaced
  BY <1>3 DEF PassedBefore
<1>5. CountedBy(c, Effective(list), log, DOMAIN log \ PassedBefore)
  BY <1>2, <1>4 DEF CountedBy, FitsLine, Fits
<1> QED BY <1>5

(* The rules of a set are of the list it is made from.                     *)
LEMMA EffectiveIsOfList ==
  ASSUME NEW rules \in Seq(Rules), Builds(rules), NEW n \in 1..Len(Effective(rules))
  PROVE  Effective(rules)[n] \in ToSet(rules)
<1> DEFINE C == Cardinality(Enabled(rules))
<1>1. Numbered(rules) /\ DOMAIN rules = 1..Len(rules)
  BY BuiltIsNumbered
<1>2. Effective(rules) = [m \in 1..C |-> rules[PlaceOf(rules, m)]]
  BY <1>1, EffectiveRanks
<1>3. C \in Nat
  BY <1>1, EnabledFinite
<1>4. \A m \in 1..C : PlaceOf(rules, m) \in Enabled(rules)
  BY <1>1, Places
<1>5. DOMAIN Effective(rules) = 1..C
  BY <1>2
<1>6. Effective(rules) \in Seq(Rules)
  BY EffectiveIsSet DEF IsSet
<1> DEFINE ruleSet == Effective(rules)
<1> HIDE DEF C, ruleSet
<1>7. n \in 1..C
  <2>1. ruleSet \in Seq(Rules) /\ DOMAIN ruleSet = 1..C /\ n \in 1..Len(ruleSet)
    BY <1>5, <1>6 DEF ruleSet
  <2>2. DOMAIN ruleSet = 1..Len(ruleSet)
    BY <2>1
  <2> QED BY <2>1, <2>2, Zenon
<1>8. Effective(rules)[n] = rules[PlaceOf(rules, n)] /\ PlaceOf(rules, n) \in DOMAIN rules
  BY <1>2, <1>4, <1>7 DEF Enabled
<1> QED BY <1>8 DEF ToSet

(* Requests one rule wins and counts under one key are counted together.   *)
LEMMA TogetherIs ==
  ASSUME TrafficInv, NEW l, Effective(l) = Effective(list),
         NEW i \in 1..Len(log), NEW j \in 1..Len(log),
         WinsTogether(Effective(l), Asked(log[i]), Asked(log[j]))
  PROVE  CountedTogether(Replay(l, log), i, j)
<1> DEFINE ruleSet == Effective(list)
           won == Winner(ruleSet, Asked(log[i]))
           rule == ruleSet[won]
           again == Replay(l, log)
<1>1. list \in Seq(Rules) /\ Builds(list) /\ Len(log) \in Nat
  BY LogSpan DEF TrafficInv, TrafficTypes
<1>2. IsSet(ruleSet)
  BY <1>1, EffectiveIsSet
<1>3. Len(ruleSet) \in Nat /\ won \in 0..Len(ruleSet)
  <2>1. Len(ruleSet) \in Nat
    BY <1>2 DEF IsSet
  <2> QED BY <2>1, WinnerIs
<1>4. won # 0 /\ rule.action.type = "ratelimit"
  BY DEF WinsTogether, Counting
<1>5. Winner(ruleSet, Asked(log[j])) = won /\ Asked(log[i])[rule.action.key] = Asked(log[j])[rule.action.key]
  BY DEF WinsTogether
<1>6. PICK c : RunBy(c, l, log)
  BY <1>1, ReplayIs
<1>7. ASSUME NEW k \in 1..Len(log), Winner(ruleSet, Asked(log[k])) = won
      PROVE  again[k].rule = rule.id
  <2>1. again[k] = Answer(Decide(ruleSet, c[k - 1], Asked(log[k]), log[k].time))
    BY <1>6 DEF RunBy
  <2>2. Decide(ruleSet, c[k - 1], Asked(log[k]), log[k].time).outcome.rule = rule.id
    <3> HIDE DEF ruleSet
    <3> QED BY <1>2, <1>4, <1>7, Decides
  <2> HIDE DEF again, rule, ruleSet
  <2> QED BY <2>1, <2>2 DEF Answer
<1>8. again[i].rule = rule.id /\ again[j].rule = rule.id
  <2> HIDE DEF again, rule
  <2> QED BY <1>5, <1>7
<1>9. won \in 1..Len(ruleSet)
  BY <1>3, <1>4
<1>10. rule \in ToSet(list)
  <2> HIDE DEF won
  <2> QED BY <1>1, <1>9, EffectiveIsOfList
<1>11. rule.action.key \in {"ip", "host", "ua", "cookie", "age"}
  <2>1. RuleCompiles(rule)
    <3> HIDE DEF won, ruleSet
    <3> QED BY <1>2, <1>9 DEF IsSet
  <2> HIDE DEF rule
  <2> QED BY <2>1, <1>4 DEF RuleCompiles, ActionCompiles, Kinds
<1> HIDE DEF rule, again
<1>12. \A e : Asked(e)[rule.action.key] = e[rule.action.key]
  BY <1>11 DEF Asked
<1>13. log[i][rule.action.key] = log[j][rule.action.key]
  BY <1>5, <1>12
<1>14. CountedTogether(again, i, j)
  BY <1>4, <1>8, <1>10, <1>13 DEF CountedTogether
<1> QED BY <1>14 DEF again

(* A replay of the log with rules that make the set in force.              *)
LEMMA WholeReplayed ==
  ASSUME ReplayInv, Settled, reloads = 0, ~overtaken, NEW l, Effective(l) = Effective(list)
  PROVE  DecidesAlike(Replay(l, log))
<1> DEFINE again == Replay(l, log)
           P == DOMAIN log \ PassedBefore
<1> SUFFICES ASSUME NEW i \in P
             PROVE  /\ again[i].rule = log[i].rule /\ again[i].shadow = log[i].shadow
                    /\ CountedApart(again, i) => again[i].action = log[i].decision
  BY DEF DecidesAlike
<1>1. TrafficInv /\ Len(log) \in Nat /\ DOMAIN log = 1..Len(log)
  BY LogSpan DEF ReplayInv
<1>2. IsSet(Effective(l))
  BY <1>1, EffectiveIsSet DEF TrafficInv, TrafficTypes
<1>3. PICK c : CountedBy(c, Effective(l), log, P)
  BY RuledCounted
<1>4. i \in 1..Len(log)
  BY <1>1
<1>5. \A j \in 1..Len(log) : j \notin P => j \in PassedBefore
  BY <1>1
<1> HIDE DEF P
<1>6. /\ again[i].rule = log[i].rule /\ again[i].shadow = log[i].shadow
      /\ (\A j \in 1..Len(log) : j \notin P /\ j < i =>
            ~WinsTogether(Effective(l), Asked(log[i]), Asked(log[j])))
           => again[i].action = log[i].decision
  BY <1>1, <1>2, <1>3, <1>4, ReplayOfWhole
<1>7. ASSUME CountedApart(again, i), NEW j \in 1..Len(log), j \notin P, j < i
      PROVE  ~WinsTogether(Effective(l), Asked(log[i]), Asked(log[j]))
  <2>1. ~CountedTogether(again, i, j)
    BY <1>5, <1>7 DEF CountedApart
  <2> QED BY <2>1, <1>1, <1>4, TogetherIs
<1> HIDE DEF again
<1> QED BY <1>6, <1>7

(* The set a replay is of, is the one in force.                            *)
LEMMA ReplaysAre ==
  ASSUME ReplayInv, NEW again \in Replays
  PROVE  \E l : Effective(l) = Effective(list) /\ again = Replay(l, log)
<1>1. PICK l \in {list, Reverse(list)} : again = Replay(l, log)
  BY DEF Replays
<1>2. list \in Seq(Rules) /\ Builds(list)
  BY DEF ReplayInv, TrafficInv, TrafficTypes
<1>3. Effective(l) = Effective(list)
  BY <1>2, BuiltIsNumbered, EffectiveReversed
<1> QED BY <1>1, <1>3

LEMMA ReplayHolds ==
  ASSUME ReplayInv
  PROVE  ReplayAgrees
<1> SUFFICES ASSUME Settled, reloads = 0, ~overtaken, NEW again \in Replays
             PROVE  DecidesAlike(again)
  BY DEF ReplayAgrees
<1> QED BY ReplaysAre, WholeReplayed

Ascends(events) == \A i, j \in DOMAIN events : i < j => events[i].time < events[j].time

(* What lies before an event found, when times ascend.                     *)
LEMMA FoundBefore ==
  ASSUME NEW events \in Seq(Events), Ascends(events),
         NEW P \in SUBSET (1..Len(events)), NEW k \in 1..Len(At(events, P))
  PROVE  LET t == At(events, P)[k].time
             earlier == At(events, {i \in P : events[i].time < t})
         IN /\ Len(earlier) = k - 1
            /\ \A j \in 1..(k - 1) : earlier[j] = At(events, P)[j]
            /\ \E i \in P : t = events[i].time
<1> DEFINE A == At(events, P)
           t == A[k].time
           Q == {i \in P : events[i].time < t}
           B == At(events, Q)
           N == Len(events)
<1>a. Q \in SUBSET P
  OBVIOUS
<1>b. ASSUME NEW S \in SUBSET P
      PROVE  \E h : Takes(At(events, S), events, Events, h, S)
  <2>1. S \cap (1..Len(events)) = S
    OBVIOUS
  <2>2. \E h : Takes(At(events, S), events, Events, h, S \cap (1..Len(events)))
    BY AtTakes
  <2> QED BY <2>1, <2>2
<1>1. PICK h : Takes(A, events, Events, h, P)
  BY <1>b
<1>2. PICK g : Takes(B, events, Events, g, Q)
  <2> HIDE DEF Q
  <2> QED BY <1>a, <1>b
<1> HIDE DEF B
<1>0. N \in Nat /\ DOMAIN events = 1..N /\ P \in SUBSET (1..N)
  OBVIOUS
<1>3. /\ A \in Seq(Events) /\ Enumerates(h, Len(A), P) /\ \A j \in 1..Len(A) : A[j] = events[h[j]]
      /\ B \in Seq(Events) /\ Enumerates(g, Len(B), Q) /\ \A j \in 1..Len(B) : B[j] = events[g[j]]
  BY <1>1, <1>2 DEF Takes
<1>4. k \in 1..Len(A)
  OBVIOUS
<1> HIDE DEF A, Q
<1>5. /\ Len(A) \in Nat /\ Len(B) \in Nat /\ k \in Nat \ {0} /\ k - 1 \in Nat
      /\ h \in [1..Len(A) -> P] /\ h[k] \in P
      /\ \A p \in P : \E j \in 1..Len(A) : h[j] = p
      /\ \A i, j \in 1..Len(A) : i < j => h[i] < h[j]
  <2>1. Len(A) \in Nat /\ Len(B) \in Nat
    BY <1>3
  <2>2. k \in Nat \ {0} /\ k - 1 \in Nat
    BY <1>4, <2>1
  <2>3. /\ h \in [1..Len(A) -> P] /\ \A p \in P : \E j \in 1..Len(A) : h[j] = p
        /\ \A i, j \in 1..Len(A) : i < j => h[i] < h[j]
    BY <1>3 DEF Enumerates
  <2>4. h[k] \in P
    BY <2>3, <1>4
  <2> QED BY <2>1, <2>2, <2>3, <2>4
<1>6. t = events[h[k]].time
  BY <1>3, <1>4
<1>7. ASSUME NEW i \in P PROVE i \in Q <=> i < h[k]
  <2>a. i \in 1..N /\ h[k] \in 1..N
    BY <1>0, <1>5
  <2>b. \A j \in 1..N : events[j] \in Events
    OBVIOUS
  <2> HIDE DEF N
  <2>1. i \in 1..N /\ h[k] \in 1..N /\ events[i] \in Events /\ events[h[k]] \in Events
    BY <2>a, <2>b
  <2>2. events[i].time \in Nat /\ events[h[k]].time \in Nat
    BY <2>1 DEF Events
  <2>3. i < h[k] => events[i].time < events[h[k]].time
    BY <2>1, <1>0 DEF Ascends
  <2>4. h[k] < i => events[h[k]].time < events[i].time
    BY <2>1, <1>0 DEF Ascends
  <2>5. i \in Q <=> events[i].time < t
    BY DEF Q
  <2>6. i \in Nat /\ h[k] \in Nat
    BY <2>1
  <2>7. CASE i < h[k]
    BY <2>7, <2>3, <2>5, <1>6
  <2>8. CASE h[k] < i
    BY <2>8, <2>2, <2>4, <2>5, <2>6, <1>6
  <2>9. CASE i = h[k]
    BY <2>9, <2>2, <2>5, <2>6, <1>6
  <2> QED BY <2>6, <2>7, <2>8, <2>9
<1> HIDE DEF t
<1> DEFINE e == [j \in 1..(k - 1) |-> h[j]]
<1>8. Enumerates(e, k - 1, Q)
  <2>1. ASSUME NEW j \in 1..(k - 1) PROVE j \in 1..Len(A) /\ j < k /\ h[j] \in P /\ h[j] \in Q /\ e[j] = h[j]
    <3>1. j \in 1..Len(A) /\ j < k
      BY <1>4, <1>5
    <3>2. h[j] \in P /\ h[j] < h[k]
      BY <3>1, <1>4, <1>5
    <3> QED BY <3>1, <3>2, <1>7
  <2>2. e \in [1..(k - 1) -> Q]
    BY <2>1
  <2>3. ASSUME NEW p \in Q PROVE \E j \in 1..(k - 1) : e[j] = p
    <3>1. p \in P /\ p < h[k] /\ p \in Nat /\ h[k] \in Nat
      BY <1>5, <1>7 DEF Q
    <3>2. PICK j \in 1..Len(A) : h[j] = p
      BY <3>1, <1>5
    <3>3. ~(k < j) /\ k # j
      <4>1. k < j => h[k] < h[j]
        BY <1>4, <1>5
      <4> QED BY <4>1, <3>1, <3>2
    <3>4. j \in 1..(k - 1)
      BY <3>3, <1>5
    <3> QED BY <3>2, <3>4, <2>1
  <2>4. ASSUME NEW i \in 1..(k - 1), NEW j \in 1..(k - 1), i < j PROVE e[i] < e[j]
    BY <2>1, <2>4, <1>5
  <2> HIDE DEF e
  <2> QED BY <2>2, <2>3, <2>4 DEF Enumerates
<1>9. Len(B) = k - 1 /\ g = e
  <2>1. Q \in SUBSET Nat
    BY <1>0, <1>a
  <2> HIDE DEF e, N
  <2>2. k - 1 \in Nat /\ Len(B) \in Nat
    BY <1>5
  <2>3. Enumerates(g, Len(B), Q)
    BY <1>3
  <2> QED BY <2>1, <2>2, <2>3, <1>8, OneEnumeration
<1>10. \A j \in 1..(k - 1) : B[j] = A[j]
  <2> SUFFICES ASSUME NEW j \in 1..(k - 1) PROVE B[j] = A[j]
    OBVIOUS
  <2>1. j \in 1..Len(B) /\ j \in 1..Len(A) /\ g[j] = h[j]
    BY <1>4, <1>5, <1>9
  <2> QED BY <2>1, <1>3
<1> QED BY <1>5, <1>6, <1>9, <1>10 DEF A, B, Q, t

(* What a client asks for that follows the pages of one decision.          *)
OfDecision(decision, before) ==
  [[AnyEvent EXCEPT !.decision = decision] EXCEPT !.before = before]

Page(decision, n, before) == Latest(log, OfDecision(decision, before), n)
Rest(decision, before) == Reverse(Filtered(log, OfDecision(decision, before)))

(* The page of what came before a moment is the end of what was found, and *)
(* the next one goes on where it ended.                                    *)
LEMMA OfDecisionMatches ==
  ASSUME NEW decision, NEW before, NEW e
  PROVE  FilterMatches(OfDecision(decision, before), e)
           <=> (before # None => e.time < before) /\ (decision # "" => e.decision = decision)
<1> DEFINE f == OfDecision(decision, before)
<1>1. /\ f.before = before /\ f.decision = decision /\ f.host = <<>> /\ f.rule = NoRule
      /\ f.ip = <<>> /\ f.class = "" /\ f.code = 0 /\ f.search = <<>>
  BY DEF OfDecision, AnyEvent
<1> HIDE DEF f
<1>2. FilterMatches(f, e)
           <=> (before # None => e.time < before) /\ (decision # "" => e.decision = decision)
  BY <1>1 DEF FilterMatches
<1> QED BY <1>2 DEF f

LEMMA PageIs ==
  ASSUME log \in Seq(Events), Ascends(log), NEW decision, NEW n \in Nat \ {0},
         NEW before \in {None} \cup Nat
  PROVE  LET page == Page(decision, n, before)
             next == NextBefore(page, n)
         IN \/ next = None /\ page = Rest(decision, before)
            \/ /\ next # None /\ next \in Nat /\ (before # None => next < before)
               /\ Rest(decision, before) = page \o Rest(decision, next)
<1> DEFINE P(b) == {i \in DOMAIN log : FilterMatches(OfDecision(decision, b), log[i])}
           A == At(log, P(before))
           m == Len(A)
           R == Rest(decision, before)
           page == Page(decision, n, before)
           next == NextBefore(page, n)
<1>1. DOMAIN log = 1..Len(log) /\ P(before) \in SUBSET (1..Len(log))
  OBVIOUS
<1>2. A \in Seq(Events) /\ m \in Nat
  <2>1. \E h : Takes(A, log, Events, h, P(before) \cap (1..Len(log)))
    BY AtTakes
  <2> QED BY <2>1 DEF Takes
<1>3. R = Reverse(A) /\ page = SubSeq(R, 1, Min({n, Len(R)}))
  BY DEF Page, Latest, Rest, Filtered
<1>4. /\ R \in Seq(Events) /\ Len(R) = m /\ \A i \in 1..m : R[i] = A[(m - i) + 1]
  <2> HIDE DEF A, R
  <2>1. R = [i \in 1..m |-> A[(m - i) + 1]]
    BY <1>3 DEF Reverse
  <2>2. \A i \in 1..m : (m - i) + 1 \in 1..m
    BY <1>2
  <2>3. \A i \in 1..m : A[(m - i) + 1] \in Events
    BY <1>2, <2>2
  <2> HIDE DEF m
  <2>4. R \in [1..m -> Events]
    BY <2>1, <2>3
  <2>5. R \in Seq(Events)
    BY <2>4, <1>2
  <2> QED BY <2>1, <2>4, <2>5, <1>2
<1>5. Min({n, m}) = IF n <= m THEN n ELSE m
  <2>1. {n, m} \in SUBSET Nat /\ {n, m} # {}
    BY <1>2
  <2>2. Min({n, m}) \in {n, m} /\ \A x \in {n, m} : Min({n, m}) <= x
    BY <2>1, MinIs
  <2> HIDE DEF m
  <2> QED BY <2>2, <1>2
<1>6. CASE ~(n <= m)
  <2>1. page = SubSeq(R, 1, m)
    BY <1>3, <1>4, <1>5, <1>6
  <2>2. page = R /\ Len(page) # n
    <3> HIDE DEF R, m, page, A
    <3> QED BY <2>1, <1>2, <1>4, <1>6
  <2>3. next = None
    BY <2>2 DEF NextBefore
  <2> QED BY <2>2, <2>3
<1>7. CASE n <= m
  <2> DEFINE k == (m - n) + 1
             G == At(log, P(next))
  <2>1. page = SubSeq(R, 1, n)
    BY <1>3, <1>4, <1>5, <1>7
  <2>2. k \in 1..m /\ k - 1 = m - n /\ n \in 1..m
    <3> HIDE DEF m
    <3> QED BY <1>2, <1>7
  <2>3. page \in Seq(Events) /\ Len(page) = n /\ \A i \in 1..n : page[i] = R[i]
    <3> HIDE DEF R, m, page, A, k
    <3> QED BY <2>1, <2>2, <1>2, <1>4, <1>7
  <2>4. next = A[k].time
    <3>1. Last(page) = R[n] /\ R[n] = A[k]
      BY <2>2, <2>3, <1>4 DEF Last
    <3> QED BY <3>1, <2>3 DEF NextBefore
  <2>5. /\ Len(At(log, {i \in P(before) : log[i].time < A[k].time})) = k - 1
        /\ \A j \in 1..(k - 1) : At(log, {i \in P(before) : log[i].time < A[k].time})[j] = A[j]
        /\ \E i \in P(before) : A[k].time = log[i].time
    <3> DEFINE S == P(before)
    <3>1. S \in SUBSET (1..Len(log)) /\ k \in 1..Len(At(log, S))
      BY <1>1, <2>2
    <3> HIDE DEF S, k
    <3>2. LET t == At(log, S)[k].time
              earlier == At(log, {i \in S : log[i].time < t})
          IN /\ Len(earlier) = k - 1
             /\ \A j \in 1..(k - 1) : earlier[j] = At(log, S)[j]
             /\ \E i \in S : t = log[i].time
      BY <3>1, FoundBefore
    <3> QED BY <3>2 DEF S
  <2>6. PICK i0 \in P(before) : A[k].time = log[i0].time
    BY <2>5
  <2>7. next \in Nat /\ next # None /\ (before # None => next < before)
    <3>1. log[i0] \in Events /\ FilterMatches(OfDecision(decision, before), log[i0])
      BY <2>6
    <3>2. log[i0].time \in Nat
      BY <3>1 DEF Events
    <3>3. before # None => log[i0].time < before
      BY <3>1, OfDecisionMatches
    <3> HIDE DEF next, A, k
    <3>4. next = log[i0].time
      BY <2>4, <2>6
    <3> QED BY <3>2, <3>3, <3>4 DEF None
  <2>8. P(next) = {i \in P(before) : log[i].time < next}
    <3>1. ASSUME NEW i \in DOMAIN log
          PROVE  FilterMatches(OfDecision(decision, next), log[i])
                   <=> FilterMatches(OfDecision(decision, before), log[i]) /\ log[i].time < next
      <4>1. log[i].time \in Nat
        <5>1. log[i] \in Events
          OBVIOUS
        <5> HIDE DEF next, A, m, R, page, P
        <5> QED BY <5>1 DEF Events
      <4> HIDE DEF next
      <4> DEFINE t == log[i].time
      <4>2. t < next /\ before # None => t < before
        <5> HIDE DEF t
        <5>1. before # None => before \in Nat
          OBVIOUS
        <5> QED BY <5>1, <4>1, <2>7 DEF t
      <4>3. FilterMatches(OfDecision(decision, next), log[i])
              <=> t < next /\ (decision # "" => log[i].decision = decision)
        <5>1. next # None
          BY <2>7
        <5> HIDE DEF A, m, R, page, P, k, G
        <5>2. FilterMatches(OfDecision(decision, next), log[i])
                <=> (next # None => t < next) /\ (decision # "" => log[i].decision = decision)
          BY OfDecisionMatches
        <5> QED BY <5>1, <5>2
      <4>4. FilterMatches(OfDecision(decision, before), log[i])
              <=> (before # None => t < before) /\ (decision # "" => log[i].decision = decision)
        BY OfDecisionMatches
      <4> QED BY <4>2, <4>3, <4>4
    <3> HIDE DEF next
    <3> QED BY <3>1
  <2>9. Len(G) = k - 1 /\ \A j \in 1..(k - 1) : G[j] = A[j]
    <3> HIDE DEF A, k, next
    <3>1. G = At(log, {i \in P(before) : log[i].time < A[k].time})
      BY <2>4, <2>8
    <3> QED BY <3>1, <2>5
  <2>10. G \in Seq(Events)
    <3>1. \E h : Takes(G, log, Events, h, P(next) \cap (1..Len(log)))
      BY AtTakes
    <3> QED BY <3>1 DEF Takes
  <2>11. Rest(decision, next) = Reverse(G)
    BY DEF Rest, Filtered
  <2>12. Reverse(G) = [j \in 1..(k - 1) |-> R[n + j]]
    <3> HIDE DEF G, R, A, m, next, page
    <3>1. Reverse(G) = [j \in 1..(k - 1) |-> G[((k - 1) - j) + 1]]
      BY <2>9 DEF Reverse
    <3>2. ASSUME NEW j \in 1..(k - 1) PROVE G[((k - 1) - j) + 1] = R[n + j]
      <4>1. ((k - 1) - j) + 1 \in 1..(k - 1) /\ n + j \in 1..m /\ (m - (n + j)) + 1 = ((k - 1) - j) + 1
        BY <2>2, <1>2, <1>7
      <4> HIDE DEF k
      <4>2. G[((k - 1) - j) + 1] = A[((k - 1) - j) + 1]
        BY <4>1, <2>9
      <4>3. R[n + j] = A[(m - (n + j)) + 1]
        BY <4>1, <1>4
      <4> QED BY <4>1, <4>2, <4>3
    <3> QED BY <3>1, <3>2
  <2>13. R = page \o Reverse(G)
    <3> DEFINE T == Reverse(G)
    <3> HIDE DEF G, R, A, m, next, page
    <3>1. T = [j \in 1..(k - 1) |-> R[n + j]] /\ k - 1 = m - n /\ k - 1 \in Nat
      BY <2>2, <2>12, <1>2
    <3> HIDE DEF T, k
    <3>2. \A j \in 1..(k - 1) : n + j \in 1..m
      BY <3>1, <1>2, <1>7
    <3>3. T \in [1..(k - 1) -> Events]
      BY <3>1, <3>2, <1>4
    <3> DEFINE q == k - 1
    <3>a. q \in Nat /\ q = m - n /\ T \in [1..q -> Events]
      BY <3>1, <3>3
    <3> HIDE DEF q
    <3>4. T \in Seq(Events) /\ Len(T) = m - n
      BY <3>a
    <3>b. page \in Seq(Events) /\ Len(page) = n
      BY <2>3
    <3>c. page \o T \in Seq(Events) /\ Len(page \o T) = Len(page) + Len(T)
      BY <3>4, <3>b
    <3>5. page \o T \in Seq(Events) /\ Len(page \o T) = m
      BY <3>c, <3>4, <3>b, <1>2
    <3>6. ASSUME NEW i \in 1..m PROVE R[i] = (page \o T)[i]
      <4>1. CASE i <= n
        <5>1. i \in 1..n
          BY <4>1, <1>2
        <5>2. (page \o T)[i] = page[i]
          BY <5>1, <3>4, <2>3
        <5> QED BY <5>1, <5>2, <2>3
      <4>2. CASE ~(i <= n)
        <5>1. i - n \in 1..(k - 1) /\ n + (i - n) = i
          BY <4>2, <3>1, <1>2
        <5>2. (page \o T)[i] = T[i - n]
          BY <4>2, <3>4, <2>3, <1>2
        <5>3. T[i - n] = R[n + (i - n)]
          BY <5>1, <3>1
        <5> QED BY <5>1, <5>2, <5>3
      <4> QED BY <4>1, <4>2
    <3>7. R \in Seq(Events) /\ Len(R) = m
      BY <1>4
    <3> DEFINE U == page \o T
    <3> HIDE DEF U
    <3>8. U \in Seq(Events) /\ Len(U) = m /\ \A i \in 1..m : R[i] = U[i]
      BY <3>5, <3>6 DEF U
    <3>9. R = U
      BY <3>7, <3>8
    <3> QED BY <3>9 DEF U, T
  <2> QED BY <2>7, <2>11, <2>13
<1> QED BY <1>6, <1>7

IsPages(p, decision, n) ==
  p = [before \in {None} \cup Nat |->
         LET page == Page(decision, n, before)
             next == NextBefore(page, n)
         IN IF next = None THEN page ELSE page \o p[next]]

(* From the last page back, the pages are what was found, reversed.        *)
LEMMA PagesAre ==
  ASSUME log \in Seq(Events), Ascends(log), NEW decision, NEW n \in Nat \ {0}
  PROVE  Pages(log, [AnyEvent EXCEPT !.decision = decision], n) = Rest(decision, None)
<1> DEFINE Dom == {None} \cup Nat
           Step(p, before) == LET page == Page(decision, n, before)
                                  next == NextBefore(page, n)
                              IN IF next = None THEN page ELSE page \o p[next]
           g == [before \in Dom |-> Rest(decision, before)]
<1>1. ASSUME NEW before \in Dom PROVE g[before] = Step(g, before)
  <2> DEFINE page == Page(decision, n, before)
             next == NextBefore(page, n)
  <2>1. \/ next = None /\ page = Rest(decision, before)
        \/ /\ next # None /\ next \in Nat
           /\ Rest(decision, before) = page \o Rest(decision, next)
    BY PageIs
  <2> HIDE DEF page, next
  <2>2. next # None => g[next] = Rest(decision, next)
    BY <2>1
  <2>3. g[before] = IF next = None THEN page ELSE page \o g[next]
    BY <2>1, <2>2
  <2> QED BY <2>3 DEF page, next
<1>2. IsPages(g, decision, n)
  BY <1>1 DEF IsPages
<1> HIDE DEF g
<1> DEFINE p == CHOOSE q : IsPages(q, decision, n)
<1>3. IsPages(p, decision, n)
  BY <1>2
<1> HIDE DEF p
<1>4. \A before \in Dom : p[before] = Step(p, before)
  BY <1>3 DEF IsPages
<1>5. ASSUME NEW before \in Dom, before # None => \A x \in Nat : x < before => p[x] = Rest(decision, x),
             before = None => \A x \in Nat : p[x] = Rest(decision, x)
      PROVE  p[before] = Rest(decision, before)
  <2> DEFINE page == Page(decision, n, before)
             next == NextBefore(page, n)
  <2>1. \/ next = None /\ page = Rest(decision, before)
        \/ /\ next # None /\ next \in Nat /\ (before # None => next < before)
           /\ Rest(decision, before) = page \o Rest(decision, next)
    BY PageIs
  <2>2. p[before] = IF next = None THEN page ELSE page \o p[next]
    BY <1>4
  <2> HIDE DEF page, next
  <2>3. next # None /\ next \in Nat /\ (before # None => next < before)
          => p[next] = Rest(decision, next)
    BY <1>5
  <2>4. CASE next = None
    BY <2>4, <2>1, <2>2
  <2>5. CASE next # None
    BY <2>5, <2>1, <2>2, <2>3
  <2> QED BY <2>4, <2>5
<1>6. \A before \in Nat : p[before] = Rest(decision, before)
  <2> DEFINE Out == {x \in Nat : p[x] # Rest(decision, x)}
  <2> SUFFICES ASSUME Out # {} PROVE FALSE
    OBVIOUS
  <2>1. PICK x \in Out : \A y \in Out : x <= y
    <3>1. Out \in SUBSET Nat
      OBVIOUS
    <3> HIDE DEF Out
    <3> QED BY <3>1, Least
  <2>2. \A y \in Nat : y < x => p[y] = Rest(decision, y)
    BY <2>1
  <2>3. x \in Dom /\ x # None
    BY <2>1 DEF None
  <2> QED BY <2>1, <2>2, <2>3, <1>5
<1>7. p[None] = Rest(decision, None)
  BY <1>5, <1>6
<1>8. Pages(log, [AnyEvent EXCEPT !.decision = decision], n) = p[None]
  <2>1. [AnyEvent EXCEPT !.decision = decision].before = None
    BY DEF AnyEvent
  <2> QED BY <2>1 DEF Pages, p, IsPages, Page, OfDecision
<1> QED BY <1>7, <1>8

LEMMA PagesOfAnySize ==
  ASSUME TrafficInv, Ascends(log), NEW n \in Nat \ {0}, NEW decision
  PROVE  Pages(log, [AnyEvent EXCEPT !.decision = decision], n)
           = Reverse(Filtered(log, [AnyEvent EXCEPT !.decision = decision]))
<1>1. log \in Seq(Events)
  BY DEF TrafficInv, TrafficTypes
<1>2. Rest(decision, None) = Reverse(Filtered(log, [AnyEvent EXCEPT !.decision = decision]))
  <2> DEFINE f == [AnyEvent EXCEPT !.decision = decision]
  <2>1. /\ f.before = None /\ f.decision = decision /\ f.host = <<>> /\ f.rule = NoRule
        /\ f.ip = <<>> /\ f.class = "" /\ f.code = 0 /\ f.search = <<>>
    BY DEF AnyEvent
  <2> HIDE DEF f
  <2>2. ASSUME NEW e PROVE FilterMatches(f, e) <=> FilterMatches(OfDecision(decision, None), e)
    <3>1. FilterMatches(f, e) <=> (decision # "" => e.decision = decision)
      BY <2>1 DEF FilterMatches
    <3> QED BY <3>1, OfDecisionMatches
  <2>3. {i \in DOMAIN log : FilterMatches(f, log[i])}
          = {i \in DOMAIN log : FilterMatches(OfDecision(decision, None), log[i])}
    BY <2>2
  <2> QED BY <2>3 DEF Rest, Filtered, f
<1> QED BY <1>1, <1>2, PagesAre

LEMMA PagesHold ==
  ASSUME TrafficInv
  PROVE  PagesMissNothing
<1>1. \A n \in 1..2 : n \in Nat \ {0}
  OBVIOUS
<1> QED BY <1>1, PagesOfAnySize DEF PagesMissNothing, Ascends

(* What a breakdown has counted, when the lines noted the values of occ    *)
(* and come from the addresses of A.                                       *)
Noters(occ, N, v) == {i \in 1..N : v \in occ[i]}
Sources(events, places) == {events[i].ip : i \in places} \ {<<>>}

Tallied(b, occ, N, events, A) ==
  /\ DOMAIN b = {"counters", "truncated"}
  /\ ~b.truncated =>
       /\ DOMAIN b.counters = UNION {occ[i] : i \in 1..N}
       /\ IsFiniteSet(DOMAIN b.counters) /\ Cardinality(DOMAIN b.counters) <= MaxKeys
       /\ Cardinality(A) <= MaxKeys =>
            \A v \in DOMAIN b.counters :
              b.counters[v] = [count |-> Cardinality(Noters(occ, N, v)),
                               ips |-> Sources(events, Noters(occ, N, v))]

(* As long as a breakdown has room, an address more, a value more, a line  *)
(* more is what it says it counts.                                         *)
LEMMA AddIpIs ==
  ASSUME NEW A, IsFiniteSet(A), Cardinality(A) <= MaxKeys,
         NEW ips \in SUBSET A, NEW ip \in A \cup {<<>>}
  PROVE  AddIp(ips, ip) = ips \cup ({ip} \ {<<>>})
<1>0. MaxKeys \in Nat
  BY TA DEF TrafficAssumption
<1>1. IsFiniteSet(ips) /\ Cardinality(ips) \in Nat /\ Cardinality(A) \in Nat
  BY FS_Subset, FS_CardinalityType
<1>2. Cardinality(ips) <= Cardinality(A) /\ (Cardinality(ips) = Cardinality(A) => A = ips)
  BY FS_Subset
<1>3. CASE ip = <<>>
  BY <1>3 DEF AddIp
<1>4. CASE ip # <<>> /\ Cardinality(ips) < MaxKeys
  BY <1>4 DEF AddIp
<1>5. CASE ip # <<>> /\ ~(Cardinality(ips) < MaxKeys)
  <2>1. Cardinality(ips) = Cardinality(A)
    BY <1>0, <1>1, <1>2, <1>5
  <2>2. ip \in ips
    BY <2>1, <1>2, <1>5
  <2> QED BY <2>2, <1>5 DEF AddIp
<1> QED BY <1>3, <1>4, <1>5

LEMMA OneAdded ==
  ASSUME NEW N \in Nat, NEW i \in 1..N, NEW V, NEW occ \in [1..N -> SUBSET V],
         NEW v, v \notin occ[i], NEW events, NEW A, IsFiniteSet(A),
         \A j \in 1..N : events[j].ip \in A \cup {<<>>},
         NEW b, Tallied(b, occ, N, events, A)
  PROVE  Tallied(AddTo(b, v, events[i].ip), [occ EXCEPT ![i] = @ \cup {v}], N, events, A)
<1> DEFINE ip == events[i].ip
           d == AddTo(b, v, ip)
           more == [occ EXCEPT ![i] = @ \cup {v}]
           D == DOMAIN b.counters
           c == IF v \in D THEN b.counters[v] ELSE NoCounter
<1>0. MaxKeys \in Nat /\ DOMAIN b = {"counters", "truncated"}
  BY TA DEF TrafficAssumption, Tallied
<1>1. more[i] = occ[i] \cup {v} /\ \A j \in 1..N : j # i => more[j] = occ[j]
  OBVIOUS
<1> HIDE DEF more
<1>2. CASE ~Room(b, v)
  <2>1. d = [b EXCEPT !.truncated = TRUE]
    BY <1>2 DEF AddTo
  <2>2. DOMAIN d = {"counters", "truncated"} /\ d.truncated
    BY <2>1, <1>0
  <2> HIDE DEF d
  <2> QED BY <2>2 DEF Tallied, d, more
<1>3. CASE Room(b, v)
  <2>1. d = Added(b, v, ip)
    BY <1>3 DEF AddTo
  <2>2. DOMAIN d = {"counters", "truncated"} /\ d.truncated = b.truncated
    BY <2>1, <1>0 DEF Added
  <2>3. d.counters = [w \in D \cup {v} |->
          IF w = v THEN [count |-> c.count + 1, ips |-> AddIp(c.ips, ip)] ELSE b.counters[w]]
    BY <2>1, <1>0 DEF Added
  <2> HIDE DEF d, ip, c, D
  <2> SUFFICES ASSUME ~b.truncated
               PROVE  /\ DOMAIN d.counters = UNION {more[j] : j \in 1..N}
                      /\ IsFiniteSet(DOMAIN d.counters) /\ Cardinality(DOMAIN d.counters) <= MaxKeys
                      /\ Cardinality(A) <= MaxKeys =>
                           \A w \in DOMAIN d.counters :
                             d.counters[w] = [count |-> Cardinality(Noters(more, N, w)),
                                              ips |-> Sources(events, Noters(more, N, w))]
    BY <2>2 DEF Tallied, d, more, ip
  <2>4. /\ D = UNION {occ[j] : j \in 1..N}
        /\ IsFiniteSet(D) /\ Cardinality(D) <= MaxKeys
        /\ Cardinality(A) <= MaxKeys =>
             \A w \in D : b.counters[w] = [count |-> Cardinality(Noters(occ, N, w)),
                                           ips |-> Sources(events, Noters(occ, N, w))]
    BY DEF Tallied, D
  <2>5. DOMAIN d.counters = D \cup {v}
    BY <2>3
  <2>6. D \cup {v} = UNION {more[j] : j \in 1..N}
    <3>1. ASSUME NEW w PROVE w \in D \cup {v} <=> \E j \in 1..N : w \in more[j]
      <4>1. w \in D <=> \E j \in 1..N : w \in occ[j]
        BY <2>4
      <4>2. CASE w = v
        BY <4>2, <1>1
      <4>3. CASE w # v
        BY <4>1, <4>3, <1>1
      <4> QED BY <4>2, <4>3
    <3> QED BY <3>1
  <2>7. IsFiniteSet(D \cup {v}) /\ Cardinality(D \cup {v}) <= MaxKeys
    <3>1. IsFiniteSet(D \cup {v})
          /\ Cardinality(D \cup {v}) = IF v \in D THEN Cardinality(D) ELSE Cardinality(D) + 1
      BY <2>4, FS_AddElement
    <3>2. Cardinality(D) \in Nat
      BY <2>4, FS_CardinalityType
    <3>3. v \in D \/ Cardinality(D) < MaxKeys
      BY <1>3 DEF Room, D
    <3> QED BY <3>1, <3>2, <3>3, <2>4, <1>0
  <2>8. ASSUME Cardinality(A) <= MaxKeys, NEW w \in D \cup {v}
        PROVE  d.counters[w] = [count |-> Cardinality(Noters(more, N, w)),
                                ips |-> Sources(events, Noters(more, N, w))]
    <3>1. CASE w # v
      <4>1. Noters(more, N, w) = Noters(occ, N, w)
        BY <3>1, <1>1 DEF Noters
      <4> QED BY <4>1, <3>1, <2>3, <2>4, <2>8
    <3>2. CASE w = v
      <4> DEFINE its == Noters(occ, N, v)
      <4>1. Noters(more, N, v) = its \cup {i} /\ i \notin its
        BY <1>1 DEF Noters
      <4>2. IsFiniteSet(its)
        <5>1. its \in SUBSET (1..N)
          BY DEF Noters
        <5> QED BY <5>1, FS_Interval, FS_Subset
      <4>3. Cardinality(its \cup {i}) = Cardinality(its) + 1
        BY <4>1, <4>2, FS_AddElement
      <4>4. c = [count |-> Cardinality(its), ips |-> Sources(events, its)]
        <5>1. CASE v \in D
          BY <5>1, <2>4, <2>8 DEF c
        <5>2. CASE v \notin D
          <6>1. its = {}
            <7>1. \A j \in 1..N : v \notin occ[j]
              BY <5>2, <2>4
            <7> QED BY <7>1 DEF Noters
          <6>2. Cardinality(its) = 0 /\ Sources(events, its) = {}
            BY <6>1, FS_EmptySet DEF Sources
          <6> QED BY <6>2, <5>2 DEF c, NoCounter
        <5> QED BY <5>1, <5>2
      <4>5. AddIp(Sources(events, its), ip) = Sources(events, its) \cup ({ip} \ {<<>>})
        <5>1. Sources(events, its) \in SUBSET A
          BY DEF Sources, Noters
        <5>2. ip \in A \cup {<<>>}
          BY DEF ip
        <5> QED BY <5>1, <5>2, <2>8, AddIpIs
      <4>6. Sources(events, its \cup {i}) = Sources(events, its) \cup ({ip} \ {<<>>})
        BY DEF Sources, ip
      <4> HIDE DEF its
      <4>7. d.counters[v] = [count |-> c.count + 1, ips |-> AddIp(c.ips, ip)]
        BY <2>3
      <4> QED BY <3>2, <4>1, <4>3, <4>4, <4>5, <4>6, <4>7
    <3> QED BY <3>1, <3>2
  <2> QED BY <2>5, <2>6, <2>7, <2>8
<1> QED BY <1>2, <1>3

(* What a line adds, value after value.                                    *)
IsAdded(f, b, vs, ip, m) ==
  f = [n \in 0..m |-> IF n = 0 THEN b ELSE AddTo(f[n - 1], vs[n], ip)]

LEMMA AddEachIs ==
  ASSUME NEW b, NEW vs, Len(vs) \in Nat, NEW ip
  PROVE  \E f : IsAdded(f, b, vs, ip, Len(vs)) /\ AddEach(b, vs, ip) = f[Len(vs)]
<1> DEFINE N == Len(vs)
           Good == {m \in 0..N : \E f : IsAdded(f, b, vs, ip, m)}
<1>1. 0 \in Good
  <2>1. IsAdded([n \in 0..0 |-> b], b, vs, ip, 0)
    BY DEF IsAdded
  <2> QED BY <2>1
<1>2. ASSUME NEW m \in 0..N, m # N, m \in Good PROVE m + 1 \in Good
  <2>1. PICK f : IsAdded(f, b, vs, ip, m)
    BY <1>2
  <2> DEFINE Step(v, n) == IF n = 0 THEN b
                           ELSE AddTo(v[n - 1], vs[n], ip)
             w == [n \in 0..m+1 |-> IF n = m + 1 THEN Step(f, n) ELSE f[n]]
  <2>2. \A n \in 0..m : f[n] = Step(f, n)
    BY <2>1 DEF IsAdded
  <2>3. ASSUME NEW n \in 0..m+1 PROVE w[n] = Step(w, n)
    <3>1. CASE n = 0
      BY <3>1, <2>2
    <3>2. CASE n # 0
      <4>1. n - 1 \in 0..m /\ n - 1 \in 0..m+1 /\ n - 1 # m + 1
        BY <3>2
      <4>2. w[n - 1] = f[n - 1]
        BY <4>1
      <4>3. w[n] = Step(f, n)
        BY <2>2, <3>2
      <4> QED BY <4>2, <4>3, <3>2
    <3> QED BY <3>1, <3>2
  <2>4. IsAdded(w, b, vs, ip, m + 1)
    BY <2>3 DEF IsAdded
  <2>5. m + 1 \in 0..N
    BY <1>2
  <2> QED BY <2>4, <2>5
<1>3. N \in Good
  <2> HIDE DEF Good
  <2> QED BY <1>1, <1>2, Upwards
<1>4. PICK h : IsAdded(h, b, vs, ip, N)
  BY <1>3
<1> DEFINE g == CHOOSE f : IsAdded(f, b, vs, ip, N)
<1>5. IsAdded(g, b, vs, ip, N)
  BY <1>4
<1>6. AddEach(b, vs, ip) = g[N]
  BY DEF AddEach, IsAdded
<1> QED BY <1>5, <1>6

(* What a breakdown is after each line.                                    *)
IsBroken(f, events, values, m) ==
  f = [n \in 0..m |-> IF n = 0 THEN EmptyBreakdown
                      ELSE AddEach(f[n - 1], values[n], events[n].ip)]

LEMMA BreakdownSteps ==
  ASSUME NEW events, NEW values, Len(events) \in Nat
  PROVE  \E f : IsBroken(f, events, values, Len(events)) /\ Breakdown(events, values) = f[Len(events)]
<1> DEFINE N == Len(events)
           Good == {m \in 0..N : \E f : IsBroken(f, events, values, m)}
<1>1. 0 \in Good
  <2>1. IsBroken([n \in 0..0 |-> EmptyBreakdown], events, values, 0)
    BY DEF IsBroken
  <2> QED BY <2>1
<1>2. ASSUME NEW m \in 0..N, m # N, m \in Good PROVE m + 1 \in Good
  <2>1. PICK f : IsBroken(f, events, values, m)
    BY <1>2
  <2> DEFINE Step(v, n) == IF n = 0 THEN EmptyBreakdown
                           ELSE AddEach(v[n - 1], values[n], events[n].ip)
             w == [n \in 0..m+1 |-> IF n = m + 1 THEN Step(f, n) ELSE f[n]]
  <2>2. \A n \in 0..m : f[n] = Step(f, n)
    BY <2>1 DEF IsBroken
  <2>3. ASSUME NEW n \in 0..m+1 PROVE w[n] = Step(w, n)
    <3>1. CASE n = 0
      BY <3>1, <2>2
    <3>2. CASE n # 0
      <4>1. n - 1 \in 0..m /\ n - 1 \in 0..m+1 /\ n - 1 # m + 1
        BY <3>2
      <4>2. w[n - 1] = f[n - 1]
        BY <4>1
      <4>3. w[n] = Step(f, n)
        BY <2>2, <3>2
      <4> QED BY <4>2, <4>3, <3>2
    <3> QED BY <3>1, <3>2
  <2>4. IsBroken(w, events, values, m + 1)
    BY <2>3 DEF IsBroken
  <2>5. m + 1 \in 0..N
    BY <1>2
  <2> QED BY <2>4, <2>5
<1>3. N \in Good
  <2> HIDE DEF Good
  <2> QED BY <1>1, <1>2, Upwards
<1>4. PICK h : IsBroken(h, events, values, N)
  BY <1>3
<1> DEFINE g == CHOOSE f : IsBroken(f, events, values, N)
<1>5. IsBroken(g, events, values, N)
  BY <1>4
<1>6. Breakdown(events, values) = g[N]
  BY DEF Breakdown, IsBroken
<1> QED BY <1>5, <1>6

IsValues(vs, V) ==
  /\ Len(vs) \in Nat /\ DOMAIN vs = 1..Len(vs)
  /\ \A k \in 1..Len(vs) : vs[k] \in V
  /\ \A j, k \in 1..Len(vs) : vs[j] = vs[k] => j = k

LEMMA EachAdded ==
  ASSUME NEW N \in Nat, NEW i \in 1..N, NEW V, NEW occ \in [1..N -> SUBSET V], occ[i] = {},
         NEW vs, IsValues(vs, V), NEW events, NEW A, IsFiniteSet(A),
         \A j \in 1..N : events[j].ip \in A \cup {<<>>},
         NEW b, Tallied(b, occ, N, events, A)
  PROVE  Tallied(AddEach(b, vs, events[i].ip), [occ EXCEPT ![i] = ToSet(vs)], N, events, A)
<1> DEFINE L == Len(vs)
           ip == events[i].ip
           First(m) == {vs[k] : k \in 1..m}
           Occ(m) == [occ EXCEPT ![i] = First(m)]
<1>0. L \in Nat /\ DOMAIN vs = 1..L /\ (\A k \in 1..L : vs[k] \in V)
      /\ \A j, k \in 1..L : vs[j] = vs[k] => j = k
  BY DEF IsValues
<1>1. PICK f : IsAdded(f, b, vs, ip, L) /\ AddEach(b, vs, ip) = f[L]
  <2>1. Len(vs) \in Nat
    BY <1>0
  <2> HIDE DEF ip
  <2> QED BY <2>1, AddEachIs
<1>2. f[0] = b /\ \A n \in 1..L : f[n] = AddTo(f[n - 1], vs[n], ip)
  <2> HIDE DEF L, ip
  <2>1. f = [n \in 0..L |-> IF n = 0 THEN b ELSE AddTo(f[n - 1], vs[n], ip)]
    BY <1>1 DEF IsAdded
  <2>2. \A n \in 0..L : f[n] = IF n = 0 THEN b ELSE AddTo(f[n - 1], vs[n], ip)
    BY <2>1
  <2> QED BY <2>2, <1>0
<1> DEFINE Good == {m \in 0..L : Tallied(f[m], Occ(m), N, events, A)}
<1> HIDE DEF L
<1>3. 0 \in Good
  <2>1. First(0) = {}
    OBVIOUS
  <2>2. Occ(0) = occ
    BY <2>1
  <2> HIDE DEF Occ
  <2> QED BY <2>2, <1>0, <1>2
<1>4. ASSUME NEW m \in 0..L, m # L, m \in Good PROVE m + 1 \in Good
  <2>1. m \in Nat /\ m + 1 \in 1..L /\ m + 1 \in 0..L /\ (m + 1) - 1 = m
    BY <1>0, <1>4
  <2>2. First(m + 1) = First(m) \cup {vs[m + 1]}
    <3>1. 1..(m + 1) = (1..m) \cup {m + 1}
      BY <2>1
    <3> QED BY <3>1
  <2>3. vs[m + 1] \notin First(m)
    <3>1. \A k \in 1..m : k \in 1..L /\ k # m + 1
      BY <2>1, <1>0
    <3> QED BY <3>1, <2>1, <1>0
  <2>4. First(m) \in SUBSET V
    <3>1. \A k \in 1..m : k \in 1..L
      BY <2>1, <1>0
    <3> QED BY <3>1, <1>0
  <2> HIDE DEF First
  <2>5. Occ(m) \in [1..N -> SUBSET V] /\ Occ(m)[i] = First(m)
    BY <2>4
  <2>6. Occ(m + 1) = [Occ(m) EXCEPT ![i] = @ \cup {vs[m + 1]}]
    BY <2>2
  <2> HIDE DEF Occ
  <2>7. Tallied(f[m], Occ(m), N, events, A)
    BY <1>4
  <2>8. Tallied(AddTo(f[m], vs[m + 1], ip), Occ(m + 1), N, events, A)
    <3> DEFINE o == Occ(m)
               u == vs[m + 1]
    <3>1. o \in [1..N -> SUBSET V] /\ u \notin o[i] /\ Tallied(f[m], o, N, events, A)
      BY <2>3, <2>5, <2>7
    <3> HIDE DEF o, u, Good
    <3>2. Tallied(AddTo(f[m], u, events[i].ip), [o EXCEPT ![i] = @ \cup {u}], N, events, A)
      BY <3>1, OneAdded
    <3> QED BY <3>2, <2>6 DEF o, u
  <2>9. f[m + 1] = AddTo(f[m], vs[m + 1], ip)
    BY <2>1, <1>2
  <2> QED BY <2>1, <2>8, <2>9
<1>5. L \in Good
  <2> HIDE DEF Good
  <2> QED BY <1>0, <1>3, <1>4, Upwards
<1>6. First(L) = ToSet(vs)
  BY <1>0 DEF ToSet
<1>7. Tallied(f[L], Occ(L), N, events, A)
  BY <1>5
<1> HIDE DEF First
<1> QED BY <1>1, <1>6, <1>7

(* What a breakdown has when it is not truncated.                          *)
LEMMA BreakdownIs ==
  ASSUME NEW events, NEW values, NEW V, NEW A, IsFiniteSet(A), Len(events) \in Nat,
         \A i \in 1..Len(events) : IsValues(values[i], V),
         \A i \in 1..Len(events) : events[i].ip \in A \cup {<<>>}
  PROVE  Tallied(Breakdown(events, values), [i \in 1..Len(events) |-> ToSet(values[i])],
                 Len(events), events, A)
<1> DEFINE N == Len(events)
           Occ(n) == [i \in 1..N |-> IF i <= n THEN ToSet(values[i]) ELSE {}]
<1>1. PICK f : IsBroken(f, events, values, N) /\ Breakdown(events, values) = f[N]
  BY BreakdownSteps
<1>2. f[0] = EmptyBreakdown /\ \A n \in 1..N : f[n] = AddEach(f[n - 1], values[n], events[n].ip)
  BY <1>1 DEF IsBroken
<1> DEFINE Good == {n \in 0..N : Tallied(f[n], Occ(n), N, events, A)}
<1>0. N \in Nat
  OBVIOUS
<1>a. (\A i \in 1..N : IsValues(values[i], V)) /\ \A i \in 1..N : events[i].ip \in A \cup {<<>>}
  OBVIOUS
<1> HIDE DEF N
<1>3. 0 \in Good
  <2> DEFINE o == Occ(0)
  <2>1. UNION {o[i] : i \in 1..N} = {}
    OBVIOUS
  <2> HIDE DEF o
  <2>2. DOMAIN EmptyBreakdown = {"counters", "truncated"} /\ DOMAIN EmptyBreakdown.counters = {}
    BY DEF EmptyBreakdown
  <2>3. MaxKeys \in Nat /\ IsFiniteSet({}) /\ Cardinality({}) = 0
    BY TA, FS_EmptySet DEF TrafficAssumption
  <2>4. Tallied(EmptyBreakdown, o, N, events, A)
    BY <2>1, <2>2, <2>3 DEF Tallied
  <2> QED BY <2>4, <1>0, <1>2 DEF o
<1>4. ASSUME NEW n \in 0..N, n # N, n \in Good PROVE n + 1 \in Good
  <2>1. n \in Nat /\ n + 1 \in 1..N /\ n + 1 \in 0..N /\ (n + 1) - 1 = n
    BY <1>0, <1>4
  <2>2. \A i \in 1..N : ToSet(values[i]) \in SUBSET V
    BY <1>a DEF IsValues, ToSet
  <2> DEFINE o == Occ(n)
             vs == values[n + 1]
  <2>3. o \in [1..N -> SUBSET V] /\ o[n + 1] = {}
    BY <2>1, <2>2
  <2>4. Occ(n + 1) = [o EXCEPT ![n + 1] = ToSet(vs)]
    <3>1. \A i \in 1..N : i # n + 1 => (i <= n + 1 <=> i <= n)
      BY <2>1
    <3>2. n + 1 <= n + 1
      BY <2>1
    <3> QED BY <3>1, <3>2, <2>1
  <2>5. Tallied(f[n], o, N, events, A)
    BY <1>4
  <2> HIDE DEF Occ, o
  <2>6. IsValues(vs, V)
    BY <2>1, <1>a
  <2> HIDE DEF vs, Good
  <2>7. Tallied(AddEach(f[n], vs, events[n + 1].ip), [o EXCEPT ![n + 1] = ToSet(vs)], N, events, A)
    BY <2>1, <2>3, <2>5, <2>6, <1>0, <1>a, EachAdded
  <2>8. f[n + 1] = AddEach(f[n], vs, events[n + 1].ip)
    BY <2>1, <1>2 DEF vs
  <2> QED BY <2>1, <2>4, <2>7, <2>8 DEF Good
<1>5. N \in Good
  <2> HIDE DEF Good
  <2> QED BY <1>0, <1>3, <1>4, Upwards
<1>6. Occ(N) = [i \in 1..N |-> ToSet(values[i])]
  BY <1>0
<1> QED BY <1>1, <1>5, <1>6 DEF N

(* A summary of the whole log is of every event in it.                     *)
LEMMA AtWhole ==
  ASSUME NEW S, NEW s \in Seq(S), NEW P, 1..Len(s) \subseteq P
  PROVE  At(s, P) = s
<1> DEFINE n == Len(s)
           t == At(s, P)
           e == [j \in 1..n |-> j]
<1>1. n \in Nat /\ P \cap (1..n) = 1..n
  OBVIOUS
<1>2. PICK h : Takes(t, s, S, h, 1..n)
  <2>1. \E h : Takes(t, s, S, h, P \cap (1..Len(s)))
    BY AtTakes
  <2> HIDE DEF t
  <2> QED BY <2>1, <1>1
<1> HIDE DEF n, t
<1>3. Enumerates(e, n, 1..n)
  <2>1. e \in [1..n -> 1..n] /\ \A j \in 1..n : e[j] = j
    OBVIOUS
  <2> HIDE DEF e
  <2> QED BY <2>1 DEF Enumerates
<1>4. t \in Seq(S) /\ Len(t) \in Nat /\ Enumerates(h, Len(t), 1..n)
      /\ \A j \in 1..Len(t) : t[j] = s[h[j]]
  BY <1>2 DEF Takes
<1>5. Len(t) = n /\ h = e
  <2>1. 1..n \in SUBSET Nat
    OBVIOUS
  <2> HIDE DEF e
  <2> QED BY <2>1, <1>1, <1>3, <1>4, OneEnumeration
<1>6. \A j \in 1..n : t[j] = s[j]
  BY <1>4, <1>5
<1> QED BY <1>4, <1>5, <1>6 DEF n, t

LEMMA WholeLog ==
  ASSUME NEW events \in Seq(Events)
  PROVE  InPeriod(events, None, None) = events /\ Filtered(events, AnyEvent) = events
<1>1. ASSUME NEW i \in 1..Len(events) PROVE events[i].time \in Nat
  <2>1. events[i] \in Events
    OBVIOUS
  <2> QED BY <2>1 DEF Events
<1>2. 1..Len(events) \subseteq {i \in DOMAIN events : Inside(events[i].time, None, None)}
  BY <1>1 DEF Inside, None
<1>3. 1..Len(events) \subseteq {i \in DOMAIN events : FilterMatches(AnyEvent, events[i])}
  BY DEF FilterMatches, AnyEvent
<1>4. InPeriod(events, None, None) = events
  BY <1>2, AtWhole DEF InPeriod
<1>5. Filtered(events, AnyEvent) = events
  BY <1>3, AtWhole DEF Filtered
<1> QED BY <1>4, <1>5

(* A summary of the whole log.                                             *)
SummaryOfLog == Summary(log, None, None, AnyEvent)
RulesNoted == [i \in DOMAIN log |-> Unless(NoRule, log[i].rule)]
ShadowsNoted == [i \in DOMAIN log |-> log[i].shadow]
HostsNoted == [i \in DOMAIN log |-> Unless(<<>>, log[i].host)]
IpsNoted == [i \in DOMAIN log |-> Unless(<<>>, log[i].ip)]
StatusesNoted == [i \in DOMAIN AtSite(log) |-> <<AtSite(log)[i].status>>]
DursOf(site) == [i \in DOMAIN site |-> site[i].dur]

LEMMA SummaryIs ==
  ASSUME log \in Seq(Events)
  PROVE  LET s == SummaryOfLog IN
         /\ s.rules = Breakdown(log, RulesNoted) /\ s.shadows = Breakdown(log, ShadowsNoted)
         /\ s.hosts = Breakdown(log, HostsNoted) /\ s.ips = Breakdown(log, IpsNoted)
         /\ s.statuses = Breakdown(AtSite(log), StatusesNoted)
         /\ s.truncated = (\/ s.rules.truncated \/ s.shadows.truncated \/ s.hosts.truncated
                           \/ s.ips.truncated \/ s.statuses.truncated)
         /\ s.decisions = [d \in {"pass", "allow", "block", "ratelimit"} |->
                             Cardinality({i \in DOMAIN log : log[i].decision = d})]
         /\ s.answers = [c \in Classes |-> Cardinality({i \in DOMAIN log : AnswerOf(log[i]) = c})]
         /\ s.latency = [p \in Percents |-> Percentile(DursOf(AtSite(log)), p)]
         /\ s.series = IF log = <<>> THEN <<>> ELSE Series(log, None, None)
<1>1. InPeriod(log, None, None) = log /\ Filtered(log, AnyEvent) = log
  BY WholeLog
<1> DEFINE s == SummaryOfLog
<1>2. s.rules = Breakdown(log, RulesNoted)
  BY <1>1 DEF SummaryOfLog, Summary, RulesNoted
<1>3. s.shadows = Breakdown(log, ShadowsNoted)
  BY <1>1 DEF SummaryOfLog, Summary, ShadowsNoted
<1>4. s.hosts = Breakdown(log, HostsNoted)
  BY <1>1 DEF SummaryOfLog, Summary, HostsNoted
<1>5. s.ips = Breakdown(log, IpsNoted)
  BY <1>1 DEF SummaryOfLog, Summary, IpsNoted
<1>6. s.statuses = Breakdown(AtSite(log), StatusesNoted)
  BY <1>1 DEF SummaryOfLog, Summary, StatusesNoted
<1>7. s.truncated = (\/ s.rules.truncated \/ s.shadows.truncated \/ s.hosts.truncated
                     \/ s.ips.truncated \/ s.statuses.truncated)
  BY DEF SummaryOfLog, Summary
<1>8. s.decisions = [d \in {"pass", "allow", "block", "ratelimit"} |->
                       Cardinality({i \in DOMAIN log : log[i].decision = d})]
  BY <1>1 DEF SummaryOfLog, Summary, CountOf
<1>9. s.answers = [c \in Classes |-> Cardinality({i \in DOMAIN log : AnswerOf(log[i]) = c})]
  BY <1>1 DEF SummaryOfLog, Summary, CountOf
<1>10. s.latency = [p \in Percents |-> Percentile(DursOf(AtSite(log)), p)]
  BY <1>1 DEF SummaryOfLog, Summary, DursOf
<1>11. s.series = IF log = <<>> THEN <<>> ELSE Series(log, None, None)
  BY <1>1 DEF SummaryOfLog, Summary
<1> QED BY <1>2, <1>3, <1>4, <1>5, <1>6, <1>7, <1>8, <1>9, <1>10, <1>11

-----------------------------------------------------------------------------
(* Percentiles.                                                            *)
LEMMA SlotIs ==
  ASSUME NEW d \in Nat
  PROVE  /\ Len(Bounds) \in Nat /\ Slot(d) \in 1..(Len(Bounds) + 1)
         /\ Slot(d) <= Len(Bounds) => Bounds[Slot(d)] >= d
         /\ \A j \in DOMAIN Bounds : Bounds[j] >= d => Slot(d) <= j
<1> DEFINE B == Len(Bounds)
           S == {i \in DOMAIN Bounds : Bounds[i] >= d} \cup {B + 1}
<1>1. Bounds \in Seq(Nat)
  BY TA DEF TrafficAssumption
<1>2. B \in Nat /\ DOMAIN Bounds = 1..B
  BY <1>1
<1> HIDE DEF B
<1>3. S \in SUBSET Nat /\ S # {}
  BY <1>2
<1>4. Slot(d) = Min(S)
  BY DEF Slot, B
<1>5. Min(S) \in S /\ \A x \in S : Min(S) <= x
  <2> HIDE DEF S
  <2> QED BY <1>3, MinIs
<1>6. Slot(d) \in 1..(B + 1)
  BY <1>2, <1>4, <1>5
<1>7. Slot(d) <= B => Bounds[Slot(d)] >= d
  BY <1>2, <1>4, <1>5
<1>8. \A j \in DOMAIN Bounds : Bounds[j] >= d => Slot(d) <= j
  BY <1>4, <1>5
<1> QED BY <1>2, <1>6, <1>7, <1>8 DEF B

LEMMA RankIs ==
  ASSUME NEW p \in Percents, NEW n \in Nat, NEW c \in Nat
  PROVE  c >= Rank(p, n) <=> c * 100 >= p * n
<1>1. CASE p = 50
  BY <1>1 DEF Rank
<1>2. CASE p = 95
  BY <1>2 DEF Rank
<1>3. CASE p = 99
  BY <1>3 DEF Rank
<1> QED BY <1>1, <1>2, <1>3 DEF Percents

LEMMA HighestOf ==
  ASSUME NEW s \in Seq(Nat)
  PROVE  \E m \in Nat : \A i \in DOMAIN s : s[i] <= m
<1> DEFINE N == Len(s)
           Good == {n \in 0..N : \E m \in Nat : \A i \in 1..n : s[i] <= m}
<1>0. N \in Nat /\ DOMAIN s = 1..N /\ \A i \in 1..N : s[i] \in Nat
  OBVIOUS
<1> HIDE DEF N
<1>1. 0 \in Good
  BY <1>0
<1>2. ASSUME NEW n \in 0..N, n # N, n \in Good PROVE n + 1 \in Good
  <2>1. PICK m \in Nat : \A i \in 1..n : s[i] <= m
    BY <1>2
  <2>2. n \in Nat /\ n + 1 \in 1..N /\ n + 1 \in 0..N
    BY <1>0, <1>2
  <2> DEFINE k == IF s[n + 1] <= m THEN m ELSE s[n + 1]
  <2>3. k \in Nat /\ m <= k /\ s[n + 1] <= k
    BY <2>2, <1>0
  <2> HIDE DEF k
  <2>4. ASSUME NEW i \in 1..(n + 1) PROVE s[i] <= k
    <3>1. CASE i = n + 1
      BY <3>1, <2>3
    <3>2. CASE i # n + 1
      <4>1. i \in 1..n /\ i \in 1..N
        BY <3>2, <2>2, <1>0
      <4>2. s[i] <= m /\ s[i] \in Nat
        BY <4>1, <2>1, <1>0
      <4> QED BY <4>2, <2>3
    <3> QED BY <3>1, <3>2
  <2> QED BY <2>2, <2>3, <2>4
<1>3. N \in Good
  <2> HIDE DEF Good
  <2> QED BY <1>0, <1>1, <1>2, Upwards
<1> QED BY <1>0, <1>3

AtMost(durs, x) == {i \in DOMAIN durs : durs[i] <= x}
Below(durs, x) == {i \in DOMAIN durs : durs[i] < x}
Slots(durs, s) == {i \in DOMAIN durs : Slot(durs[i]) <= s}

(* The answer of the rank: as many are no longer, and not as many shorter. *)
LEMMA RankedIs ==
  ASSUME NEW durs \in Seq(Nat), durs # <<>>, NEW p \in Percents
  PROVE  \E d \in ToSet(durs) :
           /\ Cardinality(AtMost(durs, d)) * 100 >= p * Len(durs)
           /\ Cardinality(Below(durs, d)) * 100 < p * Len(durs)
<1> DEFINE n == Len(durs)
           Enough == {d \in ToSet(durs) : Cardinality(AtMost(durs, d)) * 100 >= p * n}
<1>0. n \in Nat \ {0} /\ DOMAIN durs = 1..n /\ \A i \in 1..n : durs[i] \in Nat
  OBVIOUS
<1>a. p \in Nat /\ 0 < p /\ p <= 100
  BY DEF Percents
<1>b. ToSet(durs) = {durs[i] : i \in 1..n}
  BY <1>0 DEF ToSet
<1> HIDE DEF n
<1>1. ToSet(durs) \in SUBSET Nat /\ ToSet(durs) # {}
  BY <1>0, <1>b
<1>2. \A x : AtMost(durs, x) \in SUBSET (1..n) /\ Below(durs, x) \in SUBSET (1..n)
  BY <1>0 DEF AtMost, Below
<1>3. IsFiniteSet(1..n) /\ Cardinality(1..n) = n
  BY <1>0, FS_Interval
<1>4. \A x : /\ Cardinality(AtMost(durs, x)) \in Nat
             /\ Cardinality(Below(durs, x)) \in Nat
  BY <1>2, <1>3, FS_Subset, FS_CardinalityType
<1>5. Enough # {}
  <2>1. PICK m \in Nat : \A i \in DOMAIN durs : durs[i] <= m
    BY HighestOf
  <2>2. \A x \in ToSet(durs) : x <= m
    BY <2>1, <1>0, <1>b
  <2> DEFINE d == Max(ToSet(durs))
  <2>3. d \in ToSet(durs) /\ \A x \in ToSet(durs) : x <= d
    <3>1. ToSet(durs) \in SUBSET Int /\ m \in Int
      BY <1>1
    <3> QED BY <3>1, <2>2, <1>1, MaxIs
  <2> HIDE DEF d
  <2>4. AtMost(durs, d) = 1..n
    BY <2>3, <1>0, <1>b DEF AtMost
  <2>5. Cardinality(AtMost(durs, d)) * 100 >= p * n
    BY <2>4, <1>3, <1>0, <1>a DEF Percents
  <2> QED BY <2>3, <2>5
<1>6. PICK d \in Enough : \A x \in Enough : d <= x
  <2>1. Enough \in SUBSET Nat
    BY <1>1
  <2> HIDE DEF Enough
  <2> QED BY <2>1, <1>5, Least
<1>7. d \in ToSet(durs) /\ d \in Nat /\ Cardinality(AtMost(durs, d)) * 100 >= p * n
  BY <1>6, <1>1
<1>8. Cardinality(Below(durs, d)) * 100 < p * n
  <2> DEFINE Less == {x \in ToSet(durs) : x < d}
  <2>1. CASE Less = {}
    <3>1. Below(durs, d) = {}
      BY <2>1, <1>0, <1>b DEF Below
    <3>2. Cardinality(Below(durs, d)) = 0
      BY <3>1, FS_EmptySet
    <3>3. 0 < p * n
      BY <1>0, <1>a DEF Percents
    <3> QED BY <3>2, <3>3
  <2>2. CASE Less # {}
    <3> DEFINE e == Max(Less)
    <3>1. e \in Less /\ \A x \in Less : x <= e
      <4>1. Less \in SUBSET Int /\ d \in Int /\ \A x \in Less : x <= d
        BY <1>1, <1>7
      <4> HIDE DEF Less
      <4> QED BY <4>1, <2>2, MaxIs
    <3> HIDE DEF e
    <3>2. e \in ToSet(durs) /\ e < d /\ e \in Nat
      BY <3>1, <1>1
    <3>3. e \notin Enough
      BY <3>2, <1>6, <1>7
    <3>4. ~(Cardinality(AtMost(durs, e)) * 100 >= p * n)
      BY <3>2, <3>3
    <3>5. Below(durs, d) = AtMost(durs, e)
      <4>1. ASSUME NEW i \in 1..n PROVE durs[i] < d <=> durs[i] <= e
        <5>1. durs[i] \in ToSet(durs) /\ durs[i] \in Nat
          BY <1>0, <1>b
        <5>2. durs[i] < d => durs[i] <= e
          BY <5>1, <3>1
        <5> QED BY <5>1, <5>2, <3>2, <1>7
      <4> QED BY <4>1, <1>0 DEF Below, AtMost
    <3>6. Cardinality(Below(durs, d)) * 100 \in Nat /\ p * n \in Nat
      BY <1>0, <1>a, <1>4 DEF Percents
    <3> QED BY <3>4, <3>5, <3>6
  <2> QED BY <2>1, <2>2
<1> QED BY <1>7, <1>8 DEF n

(* No edge lies between the answer of the rank and what is shown for it.   *)
LEMMA PercentileIsClose ==
  ASSUME NEW durs \in Seq(Nat), durs # <<>>, NEW p \in Percents
  PROVE  CloseTo(Percentile(durs, p), durs, p)
<1> DEFINE n == Len(durs)
           B == Len(Bounds)
           longest == Max(ToSet(durs))
           Reach == {s \in 1..(B + 1) : Cardinality(Slots(durs, s)) >= Rank(p, n)}
           i == Min(Reach)
           shown == Percentile(durs, p)
<1>1. PICK d \in ToSet(durs) :
           /\ Cardinality(AtMost(durs, d)) * 100 >= p * Len(durs)
           /\ Cardinality(Below(durs, d)) * 100 < p * Len(durs)
  BY RankedIs
<1>2. shown = IF i <= B THEN Min({Bounds[i], longest}) ELSE longest
  BY DEF Percentile, CountOf, Slots
<1>0. n \in Nat \ {0} /\ DOMAIN durs = 1..n /\ \A j \in 1..n : durs[j] \in Nat
  OBVIOUS
<1>a. ToSet(durs) = {durs[j] : j \in 1..n}
  BY <1>0 DEF ToSet
<1>b. /\ Bounds \in Seq(Nat) /\ \A j, k \in DOMAIN Bounds : j < k => Bounds[j] < Bounds[k]
  BY TA DEF TrafficAssumption
<1>c. B \in Nat /\ DOMAIN Bounds = 1..B /\ \A j \in 1..B : Bounds[j] \in Nat
  BY <1>b
<1>d. longest \in Nat /\ \A x \in ToSet(durs) : x <= longest
  <2>1. PICK m \in Nat : \A j \in DOMAIN durs : durs[j] <= m
    BY HighestOf
  <2>2. (\A x \in ToSet(durs) : x <= m) /\ ToSet(durs) \in SUBSET Int /\ ToSet(durs) # {}
        /\ ToSet(durs) \in SUBSET Nat /\ m \in Int
    <3> HIDE DEF n
    <3> QED BY <2>1, <1>0, <1>a
  <2>3. longest \in ToSet(durs) /\ \A x \in ToSet(durs) : x <= longest
    BY <2>2, MaxIs
  <2> QED BY <2>2, <2>3
<1> HIDE DEF n, B, longest, shown
<1>3. d \in Nat /\ n = Len(durs)
  BY <1>0, <1>a DEF n
<1>4. \A s : /\ AtMost(durs, s) \in SUBSET (1..n) /\ Below(durs, s) \in SUBSET (1..n)
             /\ Slots(durs, s) \in SUBSET (1..n)
  BY <1>0 DEF AtMost, Below, Slots
<1>5. IsFiniteSet(1..n)
  BY <1>0, FS_Interval
<1>6. \A s : /\ IsFiniteSet(AtMost(durs, s)) /\ Cardinality(AtMost(durs, s)) \in Nat
             /\ IsFiniteSet(Below(durs, s)) /\ Cardinality(Below(durs, s)) \in Nat
             /\ IsFiniteSet(Slots(durs, s)) /\ Cardinality(Slots(durs, s)) \in Nat
  BY <1>4, <1>5, FS_Subset, FS_CardinalityType
<1>7. Cardinality(AtMost(durs, d)) >= Rank(p, n) /\ ~(Cardinality(Below(durs, d)) >= Rank(p, n))
  <2>1. p * n \in Nat
    BY <1>0 DEF Percents
  <2>2. Cardinality(AtMost(durs, d)) >= Rank(p, n)
    BY <1>0, <1>1, <1>3, <1>6, RankIs
  <2>3. ~(Cardinality(Below(durs, d)) * 100 >= p * n)
    BY <2>1, <1>1, <1>3, <1>6
  <2>4. ~(Cardinality(Below(durs, d)) >= Rank(p, n))
    BY <2>3, <1>0, <1>6, RankIs
  <2> QED BY <2>2, <2>4
<1>8. Slot(d) \in 1..(B + 1) /\ (Slot(d) <= B => Bounds[Slot(d)] >= d)
      /\ \A j \in 1..B : Bounds[j] >= d => Slot(d) <= j
  BY <1>3, <1>c, SlotIs DEF B
<1>9. \A j \in 1..n : durs[j] <= d => Slot(durs[j]) <= Slot(d)
  <2> SUFFICES ASSUME NEW j \in 1..n, durs[j] <= d PROVE Slot(durs[j]) <= Slot(d)
    OBVIOUS
  <2>1. durs[j] \in Nat
    BY <1>0
  <2>2. Slot(durs[j]) \in 1..(B + 1) /\ \A k \in 1..B : Bounds[k] >= durs[j] => Slot(durs[j]) <= k
    BY <2>1, <1>c, SlotIs DEF B
  <2>3. CASE Slot(d) <= B
    <3>1. Slot(d) \in 1..B /\ Bounds[Slot(d)] \in Nat /\ Bounds[Slot(d)] >= durs[j]
      BY <2>1, <2>3, <1>3, <1>8, <1>c
    <3> QED BY <3>1, <2>2
  <2>4. CASE ~(Slot(d) <= B)
    BY <2>2, <2>4, <1>8, <1>c
  <2> QED BY <2>3, <2>4
<1>10. \A j \in 1..n : Slot(durs[j]) < Slot(d) => durs[j] < d
  <2> SUFFICES ASSUME NEW j \in 1..n, Slot(durs[j]) < Slot(d) PROVE durs[j] < d
    OBVIOUS
  <2>1. durs[j] \in Nat
    BY <1>0
  <2>2. Slot(durs[j]) \in 1..(B + 1) /\ (Slot(durs[j]) <= B => Bounds[Slot(durs[j])] >= durs[j])
    BY <2>1, <1>c, SlotIs DEF B
  <2>3. Slot(durs[j]) \in 1..B
    BY <2>2, <1>8, <1>c
  <2>4. ~(Bounds[Slot(durs[j])] >= d)
    <3>1. Slot(d) \in Nat /\ Slot(durs[j]) \in Nat
      BY <1>8, <2>3, <1>c
    <3> QED BY <3>1, <2>3, <1>8
  <2>5. Bounds[Slot(durs[j])] \in Nat
    BY <2>3, <1>c
  <2> QED BY <2>1, <2>2, <2>3, <2>4, <2>5, <1>3, <1>c
<1>11. i = Slot(d)
  <2>1. Slot(d) \in Reach
    <3>1. AtMost(durs, d) \in SUBSET Slots(durs, Slot(d))
      BY <1>0, <1>9 DEF AtMost, Slots
    <3>2. Cardinality(AtMost(durs, d)) <= Cardinality(Slots(durs, Slot(d)))
      BY <3>1, <1>6, FS_Subset
    <3>3. Rank(p, n) \in Int
      BY <1>0 DEF Rank, Percents
    <3>4. Cardinality(Slots(durs, Slot(d))) >= Rank(p, n)
      BY <3>2, <3>3, <1>6, <1>7
    <3> QED BY <3>4, <1>8
  <2>2. ASSUME NEW s \in Reach PROVE Slot(d) <= s
    <3> SUFFICES ASSUME s < Slot(d) PROVE FALSE
      BY <1>8, <1>c
    <3>0. s \in Nat /\ Slot(d) \in Nat
      BY <1>8, <1>c
    <3>1. ASSUME NEW j \in 1..n, Slot(durs[j]) <= s PROVE durs[j] < d
      <4>1. Slot(durs[j]) \in Nat
        <5>1. durs[j] \in Nat
          BY <1>0
        <5>2. Slot(durs[j]) \in 1..(B + 1)
          BY <5>1, SlotIs DEF B
        <5> QED BY <5>2, <1>c
      <4>2. Slot(durs[j]) < Slot(d)
        BY <4>1, <3>0, <3>1
      <4> QED BY <4>2, <1>10
    <3>2. Slots(durs, s) \in SUBSET Below(durs, d)
      BY <3>1, <1>0 DEF Slots, Below
    <3>3. Cardinality(Slots(durs, s)) <= Cardinality(Below(durs, d))
      BY <3>2, <1>6, FS_Subset
    <3>4. Rank(p, n) \in Int
      BY <1>0 DEF Rank, Percents
    <3>5. Cardinality(Slots(durs, s)) >= Rank(p, n)
      OBVIOUS
    <3> QED BY <3>3, <3>4, <3>5, <1>6, <1>7
  <2>3. Reach \in SUBSET Nat /\ Reach # {}
    BY <2>1, <1>c
  <2> HIDE DEF Reach
  <2>4. Min(Reach) \in Reach /\ \A x \in Reach : Min(Reach) <= x
    BY <2>3, MinIs
  <2>5. Min(Reach) \in Nat /\ Slot(d) \in Nat
    BY <2>1, <2>3, <2>4
  <2> QED BY <2>1, <2>2, <2>4, <2>5
<1> HIDE DEF i
<1>12. shown >= d /\ \A j \in 1..B : Bounds[j] < shown => Bounds[j] < d
  <2>1. CASE i <= B
    <3>1. i \in 1..B /\ Bounds[i] \in Nat /\ Bounds[i] >= d
      BY <2>1, <1>8, <1>11, <1>c
    <3>2. shown = Min({Bounds[i], longest})
      BY <2>1, <1>2
    <3>3. shown \in {Bounds[i], longest} /\ shown <= Bounds[i]
      <4>1. {Bounds[i], longest} \in SUBSET Nat /\ {Bounds[i], longest} # {}
        BY <3>1, <1>d
      <4> QED BY <4>1, <3>2, MinIs
    <3>4. d <= longest
      BY <1>d
    <3>5. shown \in Nat /\ shown >= d
      BY <3>1, <3>3, <3>4, <1>3, <1>d
    <3>6. ASSUME NEW j \in 1..B, Bounds[j] < shown PROVE Bounds[j] < d
      <4>1. Bounds[j] \in Nat /\ Bounds[j] < Bounds[i]
        BY <3>1, <3>3, <3>5, <3>6, <1>c
      <4>2. ~(i <= j)
        <5>1. i < j => Bounds[i] < Bounds[j]
          BY <3>1, <1>b, <1>c
        <5> QED BY <5>1, <4>1, <3>1
      <4>3. ~(Bounds[j] >= d)
        BY <4>2, <1>8, <1>11
      <4> QED BY <4>1, <4>3, <1>3
    <3> QED BY <3>5, <3>6
  <2>2. CASE ~(i <= B)
    <3>1. shown = longest /\ d <= longest
      BY <2>2, <1>2, <1>d
    <3>2. ASSUME NEW j \in 1..B PROVE Bounds[j] < d
      <4>1. ~(Bounds[j] >= d) /\ Bounds[j] \in Nat
        <5>1. j <= B /\ j \in Nat /\ i \in Nat
          BY <1>c, <1>8, <1>11
        <5> QED BY <5>1, <2>2, <1>8, <1>11, <1>c
      <4> QED BY <4>1, <1>3
    <3> QED BY <3>1, <3>2, <1>3, <1>d
  <2> QED BY <2>1, <2>2
<1> QED BY <1>1, <1>12, <1>c DEF CloseTo, CountOf, AtMost, Below, shown

(* A breakdown that is not truncated is whole, once the addresses are few. *)
LEMMA TalliedIsWhole ==
  ASSUME NEW events, NEW values, Len(events) \in Nat, DOMAIN events = 1..Len(events),
         NEW A, Cardinality(A) <= MaxKeys, NEW b, ~b.truncated,
         Tallied(b, [i \in 1..Len(events) |-> ToSet(values[i])], Len(events), events, A)
  PROVE  Whole(b, events, values)
<1> DEFINE N == Len(events)
           occ == [i \in 1..N |-> ToSet(values[i])]
<1>1. /\ DOMAIN b.counters = UNION {occ[i] : i \in 1..N}
      /\ \A v \in DOMAIN b.counters :
           b.counters[v] = [count |-> Cardinality(Noters(occ, N, v)),
                            ips |-> Sources(events, Noters(occ, N, v))]
  BY DEF Tallied
<1>2. UNION {occ[i] : i \in 1..N} = UNION {ToSet(values[i]) : i \in DOMAIN events}
  OBVIOUS
<1>3. ASSUME NEW v
      PROVE  Noters(occ, N, v) = {i \in DOMAIN events : v \in ToSet(values[i])}
  BY DEF Noters
<1> HIDE DEF occ
<1> QED BY <1>1, <1>2, <1>3 DEF Whole, Sources

(* What the lines of the log note, and what the breakdowns have of it.     *)
LEMMA UnlessIs ==
  ASSUME NEW empty, NEW V, NEW value \in V
  PROVE  /\ IsValues(Unless(empty, value), V)
         /\ ToSet(Unless(empty, value)) = {value} \ {empty}
<1>1. CASE value = empty
  <2>1. Unless(empty, value) = <<>>
    BY <1>1 DEF Unless
  <2>2. Len(<<>>) = 0 /\ DOMAIN <<>> = 1..0 /\ 1..0 = {}
    OBVIOUS
  <2>3. IsValues(<<>>, V) /\ ToSet(<<>>) = {}
    BY <2>2 DEF IsValues, ToSet
  <2> QED BY <2>1, <2>3, <1>1
<1>2. CASE value # empty
  <2>1. Unless(empty, value) = <<value>>
    BY <1>2 DEF Unless
  <2>2. Len(<<value>>) = 1 /\ DOMAIN <<value>> = 1..1 /\ 1..1 = {1} /\ <<value>>[1] = value
    OBVIOUS
  <2>3. IsValues(<<value>>, V) /\ ToSet(<<value>>) = {value}
    BY <2>2 DEF IsValues, ToSet
  <2> QED BY <2>1, <2>3, <1>2
<1> QED BY <1>1, <1>2

(* The addresses of the log.                                               *)
LogIps == {log[i].ip : i \in DOMAIN log} \ {<<>>}

LEMMA LogIpsFinite ==
  ASSUME log \in Seq(Events)
  PROVE  IsFiniteSet(LogIps)
<1> DEFINE N == Len(log)
           Good == {n \in 0..N : IsFiniteSet({log[i].ip : i \in 1..n})}
<1>1. N \in Nat /\ DOMAIN log = 1..N
  OBVIOUS
<1> HIDE DEF N
<1>2. 0 \in Good
  <2>1. {log[i].ip : i \in 1..0} = {}
    OBVIOUS
  <2>2. IsFiniteSet({log[i].ip : i \in 1..0})
    BY <2>1, FS_EmptySet
  <2>3. 0 \in 0..N
    BY <1>1
  <2> QED BY <2>2, <2>3
<1>3. ASSUME NEW n \in 0..N, n # N, n \in Good PROVE n + 1 \in Good
  <2>1. n + 1 \in 0..N /\ n \in Nat
    BY <1>1, <1>3
  <2>2. {log[i].ip : i \in 1..(n + 1)} = {log[i].ip : i \in 1..n} \cup {log[n + 1].ip}
    <3>1. 1..(n + 1) = (1..n) \cup {n + 1}
      BY <2>1
    <3> QED BY <3>1
  <2>3. IsFiniteSet({log[i].ip : i \in 1..n} \cup {log[n + 1].ip})
    BY <1>3, FS_AddElement
  <2> QED BY <2>1, <2>2, <2>3
<1>4. N \in Good
  <2> HIDE DEF Good
  <2> QED BY <1>1, <1>2, <1>3, Upwards
<1>5. LogIps \in SUBSET {log[i].ip : i \in 1..N}
  BY <1>1 DEF LogIps
<1> QED BY <1>4, <1>5, FS_Subset

(* What reached the site is some of the log.                               *)
LEMMA SiteIs ==
  ASSUME log \in Seq(Events)
  PROVE  /\ AtSite(log) \in Seq(Events)
         /\ \A i \in 1..Len(AtSite(log)) : AtSite(log)[i].ip \in LogIps \cup {<<>>}
<1> DEFINE P == {i \in DOMAIN log : ReachedSite(log[i])}
           site == At(log, P)
<1>1. PICK h : Takes(site, log, Events, h, P \cap (1..Len(log)))
  <2> HIDE DEF P
  <2> QED BY AtTakes
<1>2. site = AtSite(log)
  BY DEF AtSite
<1> HIDE DEF P, site
<1>3. /\ site \in Seq(Events) /\ h \in [1..Len(site) -> P \cap (1..Len(log))]
      /\ \A j \in 1..Len(site) : site[j] = log[h[j]]
  BY <1>1 DEF Takes, Enumerates
<1>4. \A j \in 1..Len(site) : h[j] \in DOMAIN log
  BY <1>3
<1>5. \A j \in 1..Len(site) : site[j].ip \in LogIps \cup {<<>>}
  BY <1>3, <1>4 DEF LogIps
<1> QED BY <1>2, <1>3, <1>5

LEMMA BreakdownsAre ==
  ASSUME TrafficInv
  PROVE  /\ Tallied(Breakdown(log, RulesNoted),
                    [i \in 1..Len(log) |-> ToSet(RulesNoted[i])], Len(log), log, LogIps)
         /\ Tallied(Breakdown(log, ShadowsNoted),
                    [i \in 1..Len(log) |-> ToSet(ShadowsNoted[i])], Len(log), log, LogIps)
         /\ Tallied(Breakdown(log, HostsNoted),
                    [i \in 1..Len(log) |-> ToSet(HostsNoted[i])], Len(log), log, LogIps)
         /\ Tallied(Breakdown(log, IpsNoted),
                    [i \in 1..Len(log) |-> ToSet(IpsNoted[i])], Len(log), log, LogIps)
         /\ Tallied(Breakdown(AtSite(log), StatusesNoted),
                    [i \in 1..Len(AtSite(log)) |-> ToSet(StatusesNoted[i])], Len(AtSite(log)),
                    AtSite(log), LogIps)
<1>1. log \in Seq(Events) /\ Len(log) \in Nat /\ DOMAIN log = 1..Len(log)
  BY DEF TrafficInv, TrafficTypes
<1>2. IsFiniteSet(LogIps)
  BY <1>1, LogIpsFinite
<1>3. \A i \in 1..Len(log) : log[i].ip \in LogIps \cup {<<>>}
  BY <1>1 DEF LogIps
<1>4. ASSUME NEW values, NEW V, \A i \in 1..Len(log) : IsValues(values[i], V)
      PROVE  Tallied(Breakdown(log, values), [i \in 1..Len(log) |-> ToSet(values[i])],
                     Len(log), log, LogIps)
  BY <1>1, <1>2, <1>3, <1>4, BreakdownIs
<1>5. ASSUME NEW i \in 1..Len(log)
      PROVE  /\ log[i].rule \in Nat /\ log[i].host \in Texts /\ log[i].ip \in Addresses
             /\ log[i].shadow \in Seq(Nat)
             /\ \A a, b \in DOMAIN log[i].shadow : log[i].shadow[a] = log[i].shadow[b] => a = b
  <2>1. log[i] \in Events
    BY <1>1
  <2>2. Told(list, reloads, log[i].decision, log[i].rule, log[i].shadow)
    BY <1>1 DEF TrafficInv, LogTold
  <2> QED BY <2>1, <2>2 DEF Told, Events
<1>6. \A i \in 1..Len(log) : IsValues(RulesNoted[i], Nat)
  BY <1>1, <1>5, UnlessIs DEF RulesNoted
<1>7. \A i \in 1..Len(log) : IsValues(HostsNoted[i], Texts)
  BY <1>1, <1>5, UnlessIs DEF HostsNoted
<1>8. \A i \in 1..Len(log) : IsValues(IpsNoted[i], Addresses)
  BY <1>1, <1>5, UnlessIs DEF IpsNoted
<1>9. \A i \in 1..Len(log) : IsValues(ShadowsNoted[i], Nat)
  <2> SUFFICES ASSUME NEW i \in 1..Len(log) PROVE IsValues(log[i].shadow, Nat)
    BY <1>1 DEF ShadowsNoted
  <2> DEFINE vs == log[i].shadow
  <2>1. vs \in Seq(Nat) /\ \A a, b \in DOMAIN vs : vs[a] = vs[b] => a = b
    BY <1>5
  <2> HIDE DEF vs
  <2>2. IsValues(vs, Nat)
    BY <2>1 DEF IsValues
  <2> QED BY <2>2 DEF vs
<1>10. Tallied(Breakdown(AtSite(log), StatusesNoted),
               [i \in 1..Len(AtSite(log)) |-> ToSet(StatusesNoted[i])], Len(AtSite(log)),
               AtSite(log), LogIps)
  <2> DEFINE site == AtSite(log)
             st == StatusesNoted
  <2>1. site \in Seq(Events) /\ \A i \in 1..Len(site) : site[i].ip \in LogIps \cup {<<>>}
    BY <1>1, SiteIs
  <2>2. st = [i \in DOMAIN site |-> <<site[i].status>>]
    BY DEF StatusesNoted
  <2> HIDE DEF site, st
  <2>3. Len(site) \in Nat /\ DOMAIN site = 1..Len(site)
    BY <2>1
  <2>4. ASSUME NEW i \in 1..Len(site) PROVE IsValues(st[i], Int)
    <3>1. site[i] \in Events
      BY <2>1
    <3>2. site[i].status \in Int
      BY <3>1 DEF Events
    <3>3. st[i] = <<site[i].status>>
      BY <2>2, <2>3
    <3> DEFINE u == site[i].status
    <3>4. Len(<<u>>) = 1 /\ DOMAIN <<u>> = 1..1 /\ 1..1 = {1} /\ <<u>>[1] = u
      OBVIOUS
    <3> QED BY <3>2, <3>3, <3>4 DEF IsValues
  <2>5. Tallied(Breakdown(site, st), [i \in 1..Len(site) |-> ToSet(st[i])], Len(site), site, LogIps)
    BY <2>1, <2>3, <2>4, <1>2, BreakdownIs
  <2> QED BY <2>5 DEF site, st
<1> QED BY <1>4, <1>6, <1>7, <1>8, <1>9, <1>10

(* A summary that is not truncated has not seen more than MaxKeys          *)
(* addresses, for it breaks down by them.                                  *)
LEMMA IpsAreFew ==
  ASSUME TrafficInv, ~Breakdown(log, IpsNoted).truncated
  PROVE  Cardinality(LogIps) <= MaxKeys
<1> DEFINE b == Breakdown(log, IpsNoted)
           occ == [i \in 1..Len(log) |-> ToSet(IpsNoted[i])]
<1>1. log \in Seq(Events) /\ DOMAIN log = 1..Len(log)
  BY DEF TrafficInv, TrafficTypes
<1>2. /\ DOMAIN b.counters = UNION {occ[i] : i \in 1..Len(log)}
      /\ Cardinality(DOMAIN b.counters) <= MaxKeys
  BY BreakdownsAre DEF Tallied
<1>3. \A i \in 1..Len(log) : occ[i] = {log[i].ip} \ {<<>>}
  <2> SUFFICES ASSUME NEW i \in 1..Len(log) PROVE ToSet(IpsNoted[i]) = {log[i].ip} \ {<<>>}
    OBVIOUS
  <2>1. IpsNoted[i] = Unless(<<>>, log[i].ip)
    BY <1>1 DEF IpsNoted
  <2> QED BY <2>1, UnlessIs
<1> HIDE DEF occ, b
<1>4. UNION {occ[i] : i \in 1..Len(log)} = LogIps
  <2>1. ASSUME NEW x PROVE x \in UNION {occ[i] : i \in 1..Len(log)} <=> x \in LogIps
    <3>1. x \in LogIps <=> x # <<>> /\ \E i \in 1..Len(log) : log[i].ip = x
      BY <1>1 DEF LogIps
    <3> QED BY <3>1, <1>3
  <2> QED BY <2>1
<1> QED BY <1>2, <1>4

LEMMA WholeBreakdowns ==
  ASSUME TrafficInv, ~SummaryOfLog.truncated
  PROVE  LET s == SummaryOfLog IN
         /\ Whole(s.rules, log, RulesNoted) /\ Whole(s.shadows, log, ShadowsNoted)
         /\ Whole(s.hosts, log, HostsNoted) /\ Whole(s.ips, log, IpsNoted)
         /\ Whole(s.statuses, AtSite(log), StatusesNoted)
<1> DEFINE s == SummaryOfLog
<1>1. log \in Seq(Events) /\ Len(log) \in Nat /\ DOMAIN log = 1..Len(log)
  BY DEF TrafficInv, TrafficTypes
<1>2. /\ s.rules = Breakdown(log, RulesNoted) /\ s.shadows = Breakdown(log, ShadowsNoted)
      /\ s.hosts = Breakdown(log, HostsNoted) /\ s.ips = Breakdown(log, IpsNoted)
      /\ s.statuses = Breakdown(AtSite(log), StatusesNoted)
      /\ s.truncated = (\/ s.rules.truncated \/ s.shadows.truncated \/ s.hosts.truncated
                        \/ s.ips.truncated \/ s.statuses.truncated)
  BY <1>1, SummaryIs
<1> HIDE DEF s
<1>3. /\ ~s.rules.truncated /\ ~s.shadows.truncated /\ ~s.hosts.truncated
      /\ ~s.ips.truncated /\ ~s.statuses.truncated
  BY <1>2 DEF s
<1>4. Cardinality(LogIps) <= MaxKeys
  BY <1>2, <1>3, IpsAreFew
<1>5. AtSite(log) \in Seq(Events)
  BY <1>1, SiteIs
<1>6. Len(AtSite(log)) \in Nat /\ DOMAIN AtSite(log) = 1..Len(AtSite(log))
  BY <1>5
<1>7. Whole(s.rules, log, RulesNoted)
  BY <1>1, <1>2, <1>3, <1>4, BreakdownsAre, TalliedIsWhole
<1>8. Whole(s.shadows, log, ShadowsNoted)
  BY <1>1, <1>2, <1>3, <1>4, BreakdownsAre, TalliedIsWhole
<1>9. Whole(s.hosts, log, HostsNoted)
  BY <1>1, <1>2, <1>3, <1>4, BreakdownsAre, TalliedIsWhole
<1>10. Whole(s.ips, log, IpsNoted)
  BY <1>1, <1>2, <1>3, <1>4, BreakdownsAre, TalliedIsWhole
<1>11. Whole(s.statuses, AtSite(log), StatusesNoted)
  BY <1>2, <1>3, <1>4, <1>6, BreakdownsAre, TalliedIsWhole
<1> QED BY <1>7, <1>8, <1>9, <1>10, <1>11 DEF s

LEMMA SummaryHolds ==
  ASSUME TrafficInv
  PROVE  SummaryIsWhole
<1> DEFINE s == SummaryOfLog
           site == AtSite(log)
<1>1. log \in Seq(Events)
  BY DEF TrafficInv, TrafficTypes
<1>2. ~s.truncated =>
        /\ Whole(s.rules, log, [i \in DOMAIN log |-> Unless(NoRule, log[i].rule)])
        /\ Whole(s.shadows, log, [i \in DOMAIN log |-> log[i].shadow])
        /\ Whole(s.hosts, log, [i \in DOMAIN log |-> Unless(<<>>, log[i].host)])
        /\ Whole(s.ips, log, [i \in DOMAIN log |-> Unless(<<>>, log[i].ip)])
        /\ Whole(s.statuses, site, [i \in DOMAIN site |-> <<site[i].status>>])
  BY WholeBreakdowns DEF RulesNoted, ShadowsNoted, HostsNoted, IpsNoted, StatusesNoted
<1>3. ASSUME site # <<>>, NEW p \in Percents
      PROVE  CloseTo(s.latency[p], [i \in DOMAIN site |-> site[i].dur], p)
  <2>1. s.latency[p] = Percentile(DursOf(site), p)
    BY <1>1, SummaryIs
  <2>2. site \in Seq(Events)
    BY <1>1, SiteIs
  <2> HIDE DEF s, site
  <2> DEFINE durs == DursOf(site)
  <2>3. durs = [i \in DOMAIN site |-> site[i].dur]
    BY DEF DursOf
  <2>4. Len(site) \in Nat \ {0} /\ DOMAIN site = 1..Len(site)
    BY <2>2, <1>3
  <2>5. ASSUME NEW i \in 1..Len(site) PROVE site[i].dur \in Nat
    <3>1. site[i] \in Events
      BY <2>2
    <3> QED BY <3>1 DEF Events
  <2> HIDE DEF durs
  <2>6. durs \in [1..Len(site) -> Nat]
    BY <2>3, <2>4, <2>5
  <2>7. durs \in Seq(Nat) /\ durs # <<>>
    BY <2>4, <2>6
  <2>8. CloseTo(Percentile(durs, p), durs, p)
    BY <2>7, PercentileIsClose
  <2> QED BY <2>1, <2>3, <2>8 DEF durs
<1> QED BY <1>2, <1>3 DEF SummaryIsWhole, SummaryOfLog

(* What a sum is after each term.                                          *)
IsSum(f, terms, m) == f = [n \in 0..m |-> IF n = 0 THEN 0 ELSE f[n - 1] + terms[n]]

LEMMA SumSteps ==
  ASSUME NEW terms, Len(terms) \in Nat
  PROVE  \E f : IsSum(f, terms, Len(terms)) /\ SumOf(terms) = f[Len(terms)]
<1> DEFINE N == Len(terms)
           Good == {m \in 0..N : \E f : IsSum(f, terms, m)}
<1>1. 0 \in Good
  <2>1. IsSum([n \in 0..0 |-> 0], terms, 0)
    BY DEF IsSum
  <2> QED BY <2>1
<1>2. ASSUME NEW m \in 0..N, m # N, m \in Good PROVE m + 1 \in Good
  <2>1. PICK f : IsSum(f, terms, m)
    BY <1>2
  <2> DEFINE Step(v, n) == IF n = 0 THEN 0
                           ELSE v[n - 1] + terms[n]
             w == [n \in 0..m+1 |-> IF n = m + 1 THEN Step(f, n) ELSE f[n]]
  <2>2. \A n \in 0..m : f[n] = Step(f, n)
    BY <2>1 DEF IsSum
  <2>3. ASSUME NEW n \in 0..m+1 PROVE w[n] = Step(w, n)
    <3>1. CASE n = 0
      BY <3>1, <2>2
    <3>2. CASE n # 0
      <4>1. n - 1 \in 0..m /\ n - 1 \in 0..m+1 /\ n - 1 # m + 1
        BY <3>2
      <4>2. w[n - 1] = f[n - 1]
        BY <4>1
      <4>3. w[n] = Step(f, n)
        BY <2>2, <3>2
      <4> QED BY <4>2, <4>3, <3>2
    <3> QED BY <3>1, <3>2
  <2>4. IsSum(w, terms, m + 1)
    BY <2>3 DEF IsSum
  <2>5. m + 1 \in 0..N
    BY <1>2
  <2> QED BY <2>4, <2>5
<1>3. N \in Good
  <2> HIDE DEF Good
  <2> QED BY <1>1, <1>2, Upwards
<1>4. PICK h : IsSum(h, terms, N)
  BY <1>3
<1> DEFINE g == CHOOSE f : IsSum(f, terms, N)
<1>5. IsSum(g, terms, N)
  BY <1>4
<1>6. SumOf(terms) = g[N]
  BY DEF SumOf, IsSum
<1> QED BY <1>5, <1>6

(* How much At takes of some places, and of some values among them.        *)
Taken(s, P) == {i \in DOMAIN s : i \in P}
TakenOf(s, P, X) == {i \in DOMAIN s : i \in P /\ s[i] \in X}
FoundIn(s, X) == {j \in DOMAIN s : s[j] \in X}

LEMMA AtLength ==
  ASSUME NEW S, NEW s \in Seq(S), NEW P
  PROVE  At(s, P) \in Seq(S) /\ Len(At(s, P)) = Cardinality(Taken(s, P))
<1> DEFINE t == At(s, P)
           n == Len(s)
<1>1. n \in Nat /\ DOMAIN s = 1..n
  OBVIOUS
<1>2. PICK h : Takes(t, s, S, h, P \cap (1..n))
  <2> HIDE DEF t
  <2> QED BY AtTakes DEF t
<1> HIDE DEF t, n
<1>3. t \in Seq(S) /\ Enumerates(h, Len(t), P \cap (1..n)) /\ Len(t) \in Nat
  BY <1>2 DEF Takes
<1>4. P \cap (1..n) = Taken(s, P) /\ P \cap (1..n) \in SUBSET Nat
  BY <1>1 DEF Taken
<1>5. Len(t) = Cardinality(Taken(s, P))
  BY <1>4, <1>3, Counted
<1> QED BY <1>3, <1>5 DEF t

(* The counts of two ways of picking events are one.                       *)
LEMMA AtCounts ==
  ASSUME NEW S, NEW s \in Seq(S), NEW P, NEW X
  PROVE  Cardinality(FoundIn(At(s, P), X)) = Cardinality(TakenOf(s, P, X))
<1> DEFINE t == At(s, P)
           n == Len(s)
           J == {j \in DOMAIN t : t[j] \in X}
           I == {i \in DOMAIN s : i \in P /\ s[i] \in X}
<1>1. n \in Nat /\ DOMAIN s = 1..n
  OBVIOUS
<1>2. PICK h : Takes(t, s, S, h, P \cap (1..n))
  <2> HIDE DEF t
  <2> QED BY AtTakes DEF t
<1> HIDE DEF t, n
<1>3. /\ t \in Seq(S) /\ Enumerates(h, Len(t), P \cap (1..n)) /\ Len(t) \in Nat
      /\ DOMAIN t = 1..Len(t)
      /\ \A j \in 1..Len(t) : t[j] = s[h[j]]
  BY <1>2 DEF Takes
<1>4. /\ h \in [1..Len(t) -> P \cap (1..n)]
      /\ \A p \in P \cap (1..n) : \E j \in 1..Len(t) : h[j] = p
      /\ \A j, k \in 1..Len(t) : j < k => h[j] < h[k]
  BY <1>3 DEF Enumerates
<1> DEFINE f == [j \in J |-> h[j]]
<1>6. ASSUME NEW j \in J PROVE f[j] \in I /\ j \in 1..Len(t)
  BY <1>1, <1>3, <1>4
<1>7. \A j, k \in J : f[j] = f[k] => j = k
  <2> SUFFICES ASSUME NEW j \in J, NEW k \in J, h[j] = h[k] PROVE j = k
    OBVIOUS
  <2>1. j \in 1..Len(t) /\ k \in 1..Len(t)
    BY <1>3
  <2>2. h[j] \in Nat /\ h[k] \in Nat
    BY <2>1, <1>4
  <2>3. ~(j < k) /\ ~(k < j)
    <3>1. j < k => h[j] < h[k]
      BY <2>1, <1>4
    <3>2. k < j => h[k] < h[j]
      BY <2>1, <1>4
    <3> QED BY <3>1, <3>2, <2>2
  <2>4. j \in Nat /\ k \in Nat
    BY <2>1, <1>3
  <2> QED BY <2>3, <2>4
<1>8. \A i \in I : \E j \in J : f[j] = i
  <2> SUFFICES ASSUME NEW i \in I PROVE \E j \in J : h[j] = i
    OBVIOUS
  <2>1. PICK j \in 1..Len(t) : h[j] = i
    BY <1>1, <1>4
  <2>2. t[j] = s[i] /\ j \in DOMAIN t
    BY <2>1, <1>3
  <2> QED BY <2>1, <2>2
<1>9. IsFiniteSet(J)
  <2>1. J \in SUBSET (1..Len(t))
    BY <1>3
  <2>2. Len(t) \in Int
    BY <1>3
  <2>3. IsFiniteSet(1..Len(t))
    BY <2>2, FS_Interval
  <2> QED BY <2>1, <2>3, FS_Subset
<1>10. ExistsBijection(J, I)
  <2>1. f \in [J -> I]
    BY <1>6
  <2> HIDE DEF f, J, I
  <2>2. f \in Bijection(J, I)
    BY <2>1, <1>7, <1>8, Fun_IsBij
  <2> QED BY <2>2 DEF ExistsBijection
<1>11. Cardinality(J) = Cardinality(I)
  <2> HIDE DEF J, I
  <2> QED BY <1>9, <1>10, FS_Bijection
<1> QED BY <1>11 DEF t, TakenOf, FoundIn

(* Two parts of a finite set that share nothing.                           *)
LEMMA TwoParts ==
  ASSUME NEW n \in Nat, NEW A \in SUBSET (1..n), NEW B \in SUBSET (1..n), A \cap B = {}
  PROVE  /\ Cardinality(A) \in Nat /\ Cardinality(B) \in Nat
         /\ Cardinality(A \cup B) = Cardinality(A) + Cardinality(B)
<1>1. IsFiniteSet(1..n)
  BY FS_Interval
<1>2. IsFiniteSet(A) /\ IsFiniteSet(B)
  BY <1>1, FS_Subset
<1>3. Cardinality(A) \in Nat /\ Cardinality(B) \in Nat
  BY <1>2, FS_CardinalityType
<1>4. Cardinality(A \cup B) = Cardinality(A) + Cardinality(B) - Cardinality(A \cap B)
  BY <1>2, FS_Union
<1>5. Cardinality(A \cap B) = 0
  BY FS_EmptySet
<1> QED BY <1>3, <1>4, <1>5

(* The places of a log with a decision, and those with an answer.          *)
Decided(a) == {i \in DOMAIN log : log[i].decision = a}
Answered(c) == {i \in DOMAIN log : AnswerOf(log[i]) = c}

LEMMA NotBlocked ==
  ASSUME NEW n \in Int
  PROVE  ClassOf(n) # "blocked"
<1>1. ClassOf(n) \in {"5xx", "4xx", "3xx", "2xx", "none"}
  <2>1. CASE n >= 500
    BY <2>1 DEF ClassOf
  <2>2. CASE n < 500 /\ n >= 400
    BY <2>2 DEF ClassOf
  <2>3. CASE n < 400 /\ n >= 300
    BY <2>3 DEF ClassOf
  <2>4. CASE n < 300 /\ n >= 100
    BY <2>4 DEF ClassOf
  <2>5. CASE n < 100
    BY <2>5 DEF ClassOf
  <2> QED BY <2>1, <2>2, <2>3, <2>4, <2>5
<1> QED BY <1>1

(* What the node cut off is what a rule blocks or what is over a limit.    *)
LEMMA BlockedIs ==
  ASSUME TrafficInv
  PROVE  /\ Answered("blocked") = Decided("block") \cup Decided("ratelimit")
         /\ Cardinality(Decided("block")) \in Nat /\ Cardinality(Decided("ratelimit")) \in Nat
         /\ Cardinality(Answered("blocked"))
              = Cardinality(Decided("block")) + Cardinality(Decided("ratelimit"))
<1>1. Len(log) \in Nat /\ DOMAIN log = 1..Len(log) /\ \A i \in 1..Len(log) : log[i] \in Events
  BY LogSpan
<1>2. ASSUME NEW i \in 1..Len(log)
      PROVE  AnswerOf(log[i]) = "blocked" <=> log[i].decision \in Refusals
  <2>1. log[i].status \in Int
    BY <1>1 DEF Events
  <2>2. ClassOf(log[i].status) # "blocked"
    BY <2>1, NotBlocked
  <2> QED BY <2>2 DEF AnswerOf
<1>3. Answered("blocked") = Decided("block") \cup Decided("ratelimit")
  BY <1>1, <1>2 DEF Answered, Decided, Refusals
<1>4. Decided("block") \cap Decided("ratelimit") = {}
  BY DEF Decided
<1>5. Decided("block") \in SUBSET (1..Len(log)) /\ Decided("ratelimit") \in SUBSET (1..Len(log))
  BY <1>1 DEF Decided
<1>6. /\ Cardinality(Decided("block")) \in Nat /\ Cardinality(Decided("ratelimit")) \in Nat
      /\ Cardinality(Answered("blocked"))
           = Cardinality(Decided("block")) + Cardinality(Decided("ratelimit"))
  <2> DEFINE A == Decided("block")
             B == Decided("ratelimit")
             n == Len(log)
  <2>1. n \in Nat /\ A \in SUBSET (1..n) /\ B \in SUBSET (1..n) /\ A \cap B = {}
    BY <1>1, <1>4, <1>5
  <2> HIDE DEF A, B, n
  <2>2. /\ Cardinality(A) \in Nat /\ Cardinality(B) \in Nat
        /\ Cardinality(A \cup B) = Cardinality(A) + Cardinality(B)
    BY <2>1, TwoParts
  <2> QED BY <2>2, <1>3 DEF A, B
<1> QED BY <1>3, <1>6

(* A replay counts the same, and the requests passed before the rules that *)
(* the rules refuse.                                                       *)
LEMMA ReplayBlocks ==
  ASSUME ReplayInv, Settled, reloads = 0, ~overtaken,
         NEW l, Effective(l) = Effective(list),
         \A i \in DOMAIN log \ PassedBefore : CountedApart(Replay(l, log), i)
  PROVE  ReplayBlocked(Replay(l, log))
           = Cardinality(Decided("block")) + Cardinality(Decided("ratelimit"))
               + Cardinality({i \in PassedBefore : Replay(l, log)[i].action \in Refusals})
<1> DEFINE again == Replay(l, log)
           n == Len(log)
           R(a) == {i \in PassedBefore : again[i].action = a}
           D(a) == Decided(a)
<1>1. TrafficInv
  BY DEF ReplayInv
<1>2. /\ n \in Nat /\ DOMAIN log = 1..n
      /\ \A i \in 1..n : Told(list, reloads, log[i].decision, log[i].rule, log[i].shadow)
  BY <1>1, LogSpan
<1>3. DOMAIN again = 1..n
  <2>1. again = [k \in 1..n |-> again[k]]
    BY <1>2, ReplayIs
  <2> HIDE DEF again, n
  <2> QED BY <2>1
<1>4. \A i \in 1..n : i \notin PassedBefore => again[i].action = log[i].decision
  BY <1>2, WholeReplayed DEF DecidesAlike
<1>5. \A i \in 1..n : log[i].decision \in Refusals => i \notin PassedBefore
  BY <1>2 DEF Told, PassedBefore
<1>6. PassedBefore \subseteq 1..n /\ \A a : D(a) = {i \in 1..n : log[i].decision = a}
  BY <1>2 DEF PassedBefore, Decided
<1> HIDE DEF again, n
<1>7. ASSUME NEW a \in Refusals
      PROVE  /\ {k \in DOMAIN again : again[k].action = a} = D(a) \cup R(a)
             /\ D(a) \cap R(a) = {} /\ D(a) \in SUBSET (1..n) /\ R(a) \in SUBSET (1..n)
  BY <1>3, <1>4, <1>5, <1>6
<1> HIDE DEF D
<1>8. ASSUME NEW a \in Refusals
      PROVE  /\ Decisions(again, a) = Cardinality(D(a)) + Cardinality(R(a))
             /\ Cardinality(D(a)) \in Nat /\ Cardinality(R(a)) \in Nat /\ R(a) \in SUBSET (1..n)
  <2>1. Decisions(again, a) = Cardinality({k \in DOMAIN again : again[k].action = a})
    BY DEF Decisions, CountOf
  <2>2. /\ Cardinality(D(a)) \in Nat /\ Cardinality(R(a)) \in Nat
        /\ Cardinality(D(a) \cup R(a)) = Cardinality(D(a)) + Cardinality(R(a))
    <3>1. n \in Nat /\ D(a) \in SUBSET (1..n) /\ R(a) \in SUBSET (1..n) /\ D(a) \cap R(a) = {}
      BY <1>2, <1>7
    <3> HIDE DEF R
    <3> QED BY <3>1, TwoParts
  <2>3. {k \in DOMAIN again : again[k].action = a} = D(a) \cup R(a) /\ R(a) \in SUBSET (1..n)
    BY <1>7
  <2> HIDE DEF R
  <2> QED BY <2>1, <2>2, <2>3
<1>9. /\ {i \in PassedBefore : again[i].action \in Refusals} = R("block") \cup R("ratelimit")
      /\ R("block") \cap R("ratelimit") = {}
  BY DEF Refusals
<1> HIDE DEF R
<1>10. "block" \in Refusals /\ "ratelimit" \in Refusals
  BY DEF Refusals
<1> DEFINE A == R("block")
           B == R("ratelimit")
<1>11. Cardinality(A \cup B) = Cardinality(A) + Cardinality(B)
  <2>1. n \in Nat /\ A \in SUBSET (1..n) /\ B \in SUBSET (1..n) /\ A \cap B = {}
    BY <1>2, <1>8, <1>9, <1>10
  <2> HIDE DEF A, B
  <2> QED BY <2>1, TwoParts
<1>12. ReplayBlocked(again)
         = Cardinality(D("block")) + Cardinality(D("ratelimit"))
             + Cardinality({i \in PassedBefore : again[i].action \in Refusals})
  <2>1. /\ Decisions(again, "block") = Cardinality(D("block")) + Cardinality(A)
        /\ Decisions(again, "ratelimit") = Cardinality(D("ratelimit")) + Cardinality(B)
        /\ Cardinality(D("block")) \in Nat /\ Cardinality(A) \in Nat
        /\ Cardinality(D("ratelimit")) \in Nat /\ Cardinality(B) \in Nat
    BY <1>8, <1>10
  <2>2. Cardinality({i \in PassedBefore : again[i].action \in Refusals})
          = Cardinality(A) + Cardinality(B)
    BY <1>9, <1>11
  <2> HIDE DEF A, B
  <2> QED BY <2>1, <2>2 DEF ReplayBlocked
<1> QED BY <1>12 DEF again, D

(* How many events a filter finds.                                         *)
LEMMA FilterCounts ==
  ASSUME TrafficInv, NEW f
  PROVE  Len(Filtered(log, f)) = Cardinality({i \in DOMAIN log : FilterMatches(f, log[i])})
<1> DEFINE P == {i \in DOMAIN log : FilterMatches(f, log[i])}
<1>1. log \in Seq(Events)
  BY LogSpan
<1>2. Filtered(log, f) = At(log, P)
  BY DEF Filtered
<1>3. Taken(log, P) = P
  BY DEF Taken
<1> HIDE DEF P
<1>4. Len(At(log, P)) = Cardinality(Taken(log, P))
  BY <1>1, AtLength
<1>5. Len(Filtered(log, f)) = Cardinality(P)
  BY <1>2, <1>3, <1>4
<1> QED BY <1>5 DEF P

LEMMA ClickShows ==
  ASSUME TrafficInv, NEW c \in Classes
  PROVE  Len(Filtered(log, [AnyEvent EXCEPT !.class = c])) = Cardinality(Answered(c))
<1> DEFINE f == [AnyEvent EXCEPT !.class = c]
<1>1. /\ f.host = <<>> /\ f.decision = "" /\ f.rule = NoRule /\ f.ip = <<>> /\ f.class = c
      /\ f.code = 0 /\ f.search = <<>> /\ f.before = None
  BY DEF AnyEvent
<1>2. c # ""
  BY DEF Classes
<1> HIDE DEF f
<1>3. \A e : FilterMatches(f, e) <=> AnswerOf(e) = c
  BY <1>1, <1>2 DEF FilterMatches
<1>4. {i \in DOMAIN log : FilterMatches(f, log[i])} = Answered(c)
  BY <1>3 DEF Answered
<1> QED BY <1>4, FilterCounts DEF f

LEMMA RuleFinds ==
  ASSUME TrafficInv, NEW id, id # NoRule
  PROVE  Len(Filtered(log, [AnyEvent EXCEPT !.rule = id]))
           = Cardinality({i \in DOMAIN log : log[i].rule = id \/ id \in ToSet(log[i].shadow)})
<1> DEFINE f == [AnyEvent EXCEPT !.rule = id]
<1>1. /\ f.host = <<>> /\ f.decision = "" /\ f.rule = id /\ f.ip = <<>> /\ f.class = ""
      /\ f.code = 0 /\ f.search = <<>> /\ f.before = None
  BY DEF AnyEvent
<1> HIDE DEF f
<1>2. \A e : FilterMatches(f, e) <=> (e.rule = id \/ id \in ToSet(e.shadow))
  BY <1>1 DEF FilterMatches
<1>3. {i \in DOMAIN log : FilterMatches(f, log[i])}
        = {i \in DOMAIN log : log[i].rule = id \/ id \in ToSet(log[i].shadow)}
  BY <1>2
<1> QED BY <1>3, FilterCounts DEF f

(* Two periods that meet.                                                  *)
LEMMA PeriodsMeet ==
  ASSUME TrafficInv, NEW t \in Nat
  PROVE  Len(InPeriod(log, None, t)) + Len(InPeriod(log, t, None)) = Len(log)
<1> DEFINE A == {i \in DOMAIN log : Inside(log[i].time, None, t)}
           B == {i \in DOMAIN log : Inside(log[i].time, t, None)}
           N == Len(log)
<1>1. log \in Seq(Events) /\ N \in Nat /\ DOMAIN log = 1..N /\ \A i \in 1..N : log[i] \in Events
  BY LogSpan
<1>2. \A i \in 1..N : log[i].time \in Nat
  BY <1>1 DEF Events
<1>3. A \cup B = 1..N
  BY <1>1, <1>2 DEF Inside, None
<1>10. A \cap B = {}
  BY <1>1, <1>2 DEF Inside, None
<1>4. InPeriod(log, None, t) = At(log, A) /\ InPeriod(log, t, None) = At(log, B)
  BY DEF InPeriod
<1>5. Taken(log, A) = A /\ Taken(log, B) = B
  BY DEF Taken
<1> HIDE DEF A, B, N
<1>6. Len(At(log, A)) = Cardinality(A)
  BY <1>1, <1>5, AtLength
<1>7. Len(At(log, B)) = Cardinality(B)
  BY <1>1, <1>5, AtLength
<1>8. Cardinality(1..N) = N
  BY <1>1, FS_Interval
<1>9. Cardinality(1..N) = Cardinality(A) + Cardinality(B)
  <2>1. A \in SUBSET (1..N) /\ B \in SUBSET (1..N)
    BY <1>3
  <2>2. Cardinality(A \cup B) = Cardinality(A) + Cardinality(B)
    BY <2>1, <1>1, <1>10, TwoParts
  <2> QED BY <2>2, <1>3
<1> QED BY <1>4, <1>6, <1>7, <1>8, <1>9 DEF N

(* The smaller and the larger of two.                                      *)
LEMMA OfTwo ==
  ASSUME NEW a \in Int, NEW b \in Int
  PROVE  /\ Min({a, b}) = IF a <= b THEN a ELSE b
         /\ Max({a, b}) = IF a >= b THEN a ELSE b
<1> DEFINE low == IF a <= b THEN a ELSE b
           high == IF a >= b THEN a ELSE b
<1>1. low \in {a, b} /\ \A y \in {a, b} : low <= y
  OBVIOUS
<1>2. \A x \in {a, b} : (\A y \in {a, b} : x <= y) => x = low
  OBVIOUS
<1>3. high \in {a, b} /\ \A y \in {a, b} : high >= y
  OBVIOUS
<1>4. \A x \in {a, b} : (\A y \in {a, b} : x >= y) => x = high
  OBVIOUS
<1> HIDE DEF low, high
<1>5. Min({a, b}) = low
  BY <1>1, <1>2 DEF Min
<1>6. Max({a, b}) = high
  BY <1>3, <1>4 DEF Max
<1> QED BY <1>5, <1>6 DEF low, high

(* Each event lies at one point of the series.                             *)
Point(events, start, end, i) ==
  LET even == (end - start) \div Buckets
      width == IF even <= 0 THEN MinuteLength ELSE even
      minute == (events[i].time \div MinuteLength) * MinuteLength
  IN Max({1, Min({Buckets, 1 + (minute - start) \div width})})

LEMMA PointIs ==
  ASSUME NEW events, NEW start \in Int, NEW end \in Int, NEW i, events[i].time \in Nat
  PROVE  Point(events, start, end, i) \in 1..Buckets
<1> DEFINE even == (end - start) \div Buckets
           width == IF even <= 0 THEN MinuteLength ELSE even
           minute == (events[i].time \div MinuteLength) * MinuteLength
           p == 1 + (minute - start) \div width
           q == Min({Buckets, p})
<1>1. Buckets \in Nat \ {0} /\ MinuteLength \in Nat \ {0}
  BY TA DEF TrafficAssumption
<1>2. even \in Int
  BY <1>1
<1>3. width \in Int /\ width > 0
  <2> HIDE DEF even
  <2> QED BY <1>1, <1>2
<1>4. minute \in Int
  <2>1. events[i].time \div MinuteLength \in Int
    BY <1>1
  <2> QED BY <2>1, <1>1
<1>5. p \in Int
  <2> HIDE DEF width, minute
  <2>1. (minute - start) \div width \in Int
    BY <1>3, <1>4
  <2> QED BY <2>1
<1>6. Point(events, start, end, i) = Max({1, q})
  BY DEF Point
<1> HIDE DEF p
<1>7. q = IF Buckets <= p THEN Buckets ELSE p
  BY <1>1, <1>5, OfTwo
<1>8. q \in Int /\ q <= Buckets
  <2> HIDE DEF q
  <2> QED BY <1>1, <1>5, <1>7
<1> HIDE DEF q
<1>9. Max({1, q}) = IF 1 >= q THEN 1 ELSE q
  BY <1>8, OfTwo
<1> QED BY <1>1, <1>6, <1>8, <1>9

(* The events of a class at a point.                                       *)
AtPoint(p, c, n) == {i \in DOMAIN log : p[i] = n /\ AnswerOf(log[i]) = c}

LEMMA SeriesIs ==
  ASSUME TrafficInv, log # <<>>
  PROVE  \E p \in [1..Len(log) -> 1..Buckets] :
           SummaryOfLog.series = [n \in 1..Buckets |->
                                    [c \in Classes |-> Cardinality(AtPoint(p, c, n))]]
<1> DEFINE N == Len(log)
           times == {log[i].time : i \in DOMAIN log}
           start == Min(times)
           end == Max(times)
<1>1. log \in Seq(Events) /\ N \in Nat /\ DOMAIN log = 1..N /\ \A i \in 1..N : log[i] \in Events
  BY LogSpan
<1>2. \A i \in 1..N : log[i].time \in Nat
  BY <1>1 DEF Events
<1>3. N # 0
  BY <1>1
<1>4. times \in SUBSET Nat /\ times # {}
  <2>1. log[1].time \in times
    BY <1>1, <1>3
  <2> QED BY <2>1, <1>1, <1>2
<1>5. start \in Int
  <2>1. \A x \in times : x \in Int
    BY <1>4
  <2> HIDE DEF times
  <2>2. Min(times) \in times
    BY <1>4, MinIs
  <2> QED BY <2>1, <2>2
<1>6. end \in Int
  <2> DEFINE moments == [i \in 1..N |-> log[i].time]
  <2>1. moments \in Seq(Nat) /\ DOMAIN moments = 1..N /\ \A i \in 1..N : moments[i] = log[i].time
    BY <1>1, <1>2
  <2> HIDE DEF moments, N
  <2>2. PICK m \in Nat : \A i \in DOMAIN moments : moments[i] <= m
    BY <2>1, HighestOf
  <2>3. \A x \in times : x <= m
    BY <1>1, <2>1, <2>2
  <2> HIDE DEF times
  <2>4. times \in SUBSET Int /\ m \in Int
    BY <1>4
  <2>5. end \in times
    BY <1>4, <2>3, <2>4, MaxIs
  <2> QED BY <2>4, <2>5
<1>7. SummaryOfLog.series = Series(log, None, None)
  BY <1>1, SummaryIs
<1>8. Series(log, None, None)
        = [n \in 1..Buckets |-> [c \in Classes |->
             Cardinality({i \in DOMAIN log : Point(log, start, end, i) = n /\ AnswerOf(log[i]) = c})]]
  BY DEF Series, CountOf, Point
<1> HIDE DEF start, end, N
<1>9. \A i \in 1..N : Point(log, start, end, i) \in 1..Buckets
  BY <1>2, <1>5, <1>6, PointIs
<1> DEFINE p == [i \in 1..N |-> Point(log, start, end, i)]
<1>10. p \in [1..N -> 1..Buckets]
  BY <1>9
<1>11. \A i \in 1..N : p[i] = Point(log, start, end, i)
  OBVIOUS
<1> HIDE DEF p
<1>12. ASSUME NEW n, NEW c
       PROVE  {i \in DOMAIN log : Point(log, start, end, i) = n /\ AnswerOf(log[i]) = c}
                = AtPoint(p, c, n)
  BY <1>1, <1>11 DEF AtPoint
<1>13. SummaryOfLog.series
         = [n \in 1..Buckets |-> [c \in Classes |-> Cardinality(AtPoint(p, c, n))]]
  BY <1>7, <1>8, <1>12
<1> QED BY <1>10, <1>13 DEF N

(* The points of the series are the events of the class, each once.        *)
LEMMA SeriesSums ==
  ASSUME TrafficInv, log # <<>>, NEW c \in Classes
  PROVE  SumOf([n \in 1..Buckets |-> SummaryOfLog.series[n][c]]) = Cardinality(Answered(c))
<1>1. PICK p \in [1..Len(log) -> 1..Buckets] :
        SummaryOfLog.series = [n \in 1..Buckets |->
                                 [d \in Classes |-> Cardinality(AtPoint(p, d, n))]]
  BY SeriesIs
<1> DEFINE terms == [n \in 1..Buckets |-> SummaryOfLog.series[n][c]]
           N == Len(log)
           Up(n) == {i \in Answered(c) : p[i] <= n}
<1>2. log \in Seq(Events) /\ N \in Nat /\ DOMAIN log = 1..N
  BY LogSpan
<1>3. Buckets \in Nat
  BY TA DEF TrafficAssumption
<1>4. terms = [n \in 1..Buckets |-> Cardinality(AtPoint(p, c, n))]
  BY <1>1
<1> HIDE DEF terms
<1>5. ASSUME NEW n PROVE AtPoint(p, c, n) \in SUBSET (1..N) /\ IsFiniteSet(AtPoint(p, c, n))
  <2>1. AtPoint(p, c, n) \in SUBSET (1..N)
    BY <1>2 DEF AtPoint
  <2> HIDE DEF N
  <2>2. IsFiniteSet(1..N)
    BY <1>2, FS_Interval
  <2> QED BY <2>1, <2>2, FS_Subset
<1>6. \A n \in 1..Buckets : terms[n] = Cardinality(AtPoint(p, c, n))
  BY <1>4
<1>7. Len(terms) = Buckets
  <2>1. DOMAIN terms = 1..Buckets
    BY <1>4
  <2>2. \A n \in 1..Buckets : terms[n] \in Nat
    BY <1>5, <1>6, FS_CardinalityType
  <2>3. terms \in [1..Buckets -> Nat]
    BY <1>4, <2>2, <1>6
  <2> QED BY <2>1, <2>3, <1>3
<1>8. PICK f : IsSum(f, terms, Buckets) /\ SumOf(terms) = f[Buckets]
  BY <1>3, <1>7, SumSteps
<1>9. /\ \A n \in 0..Buckets : f[n] = IF n = 0 THEN 0 ELSE f[n - 1] + terms[n]
  BY <1>8 DEF IsSum
<1>10. p \in [1..N -> 1..Buckets] /\ \A i \in 1..N : p[i] \in 1..Buckets
  OBVIOUS
<1> DEFINE Good == {n \in 0..Buckets : f[n] = Cardinality(Up(n))}
<1> HIDE DEF N
<1>11. \A n \in 0..Buckets : Up(n) \in SUBSET (1..N)
  BY <1>2 DEF Answered
<1>12. 0 \in Good
  <2>1. Up(0) = {}
    BY <1>2, <1>10 DEF Answered
  <2>2. f[0] = 0 /\ 0 \in 0..Buckets
    BY <1>3, <1>9
  <2> QED BY <2>1, <2>2, FS_EmptySet
<1>13. ASSUME NEW n \in 0..Buckets, n # Buckets, n \in Good PROVE n + 1 \in Good
  <2>1. n + 1 \in 0..Buckets /\ n + 1 \in 1..Buckets /\ n + 1 # 0 /\ (n + 1) - 1 = n /\ n \in Int
    BY <1>3, <1>13
  <2>2. f[n + 1] = f[n] + terms[n + 1]
    BY <1>9, <2>1
  <2>3. Up(n + 1) = Up(n) \cup AtPoint(p, c, n + 1)
    <3>1. ASSUME NEW i \in 1..N PROVE p[i] <= n + 1 <=> p[i] <= n \/ p[i] = n + 1
      BY <1>10, <2>1
    <3> QED BY <3>1, <1>2 DEF Answered, AtPoint
  <2>4. Up(n) \cap AtPoint(p, c, n + 1) = {}
    <3>1. ASSUME NEW i \in 1..N, p[i] <= n, p[i] = n + 1 PROVE FALSE
      BY <1>10, <2>1, <3>1
    <3> QED BY <3>1, <1>2 DEF Answered, AtPoint
  <2>5. Up(n) \in SUBSET (1..N) /\ AtPoint(p, c, n + 1) \in SUBSET (1..N)
    BY <1>5, <1>11
  <2>6. f[n] = Cardinality(Up(n))
    BY <1>13
  <2> HIDE DEF Up
  <2>7. Cardinality(Up(n) \cup AtPoint(p, c, n + 1))
          = Cardinality(Up(n)) + Cardinality(AtPoint(p, c, n + 1))
    BY <1>2, <2>4, <2>5, TwoParts
  <2>8. terms[n + 1] = Cardinality(AtPoint(p, c, n + 1))
    BY <1>6, <2>1
  <2>9. f[n + 1] = Cardinality(Up(n + 1))
    BY <2>2, <2>3, <2>6, <2>7, <2>8
  <2> QED BY <2>1, <2>9
<1>14. Buckets \in Good
  <2> HIDE DEF Good
  <2> QED BY <1>3, <1>12, <1>13, Upwards
<1>15. Up(Buckets) = Answered(c)
  BY <1>2, <1>3, <1>10 DEF Answered
<1>16. f[Buckets] = Cardinality(Answered(c))
  BY <1>14, <1>15
<1> QED BY <1>8, <1>16 DEF terms

LEMMA WholeCount ==
  ASSUME NEW b, NEW events, NEW values, Whole(b, events, values), NEW v \in DOMAIN b.counters
  PROVE  b.counters[v].count = Cardinality({i \in DOMAIN events : v \in ToSet(values[i])})
<1> DEFINE its == {i \in DOMAIN events : v \in ToSet(values[i])}
<1>1. b.counters[v] = [count |-> Cardinality(its), ips |-> {events[i].ip : i \in its} \ {<<>>}]
  BY DEF Whole
<1> HIDE DEF its
<1>2. b.counters[v].count = Cardinality(its)
  BY <1>1
<1> QED BY <1>2 DEF its

(* The row of a rule counts what the filter of that rule finds: no event   *)
(* has the rule as the one that won and another one has it as a shadow.    *)
LEMMA RowCounts ==
  ASSUME TrafficInv, reloads = 0, ~SummaryOfLog.truncated, NEW m \in DOMAIN list
  PROVE  RuleRow(SummaryOfLog, list[m].id).count
           = Len(Filtered(log, [AnyEvent EXCEPT !.rule = list[m].id]))
<1> DEFINE s == SummaryOfLog
           id == list[m].id
           N == Len(log)
           Won == {i \in DOMAIN log : log[i].rule = id}
           Shadowed == {i \in DOMAIN log : id \in ToSet(log[i].shadow)}
<1>1. /\ N \in Nat /\ DOMAIN log = 1..N /\ \A i \in 1..N : log[i] \in Events
      /\ \A i \in 1..N : Told(list, reloads, log[i].decision, log[i].rule, log[i].shadow)
  BY LogSpan
<1>2. list \in Seq(Rules) /\ Builds(list)
  BY DEF TrafficInv, TrafficTypes
<1>3. id \notin {NoRule} \cup Spaced /\ id # NoRule
  BY <1>2 DEF Builds, RuleCompiles
<1>4. /\ \A n \in DOMAIN list : list[n].id = id => n = m
  BY <1>2 DEF Builds
<1>5. Won # {} => list[m].mode = "active"
  <2> SUFFICES ASSUME NEW i \in 1..N, log[i].rule = id PROVE list[m].mode = "active"
    BY <1>1
  <2>1. id \in {list[n].id : n \in {j \in DOMAIN list : list[j].mode = "active"}}
    BY <1>1, <1>3 DEF Told
  <2>2. PICK n \in DOMAIN list : list[n].mode = "active" /\ list[n].id = id
    BY <2>1
  <2> QED BY <2>2, <1>4
<1>6. Shadowed # {} => list[m].mode = "shadow"
  <2> SUFFICES ASSUME NEW i \in 1..N, id \in ToSet(log[i].shadow) PROVE list[m].mode = "shadow"
    BY <1>1
  <2>1. id \in {list[n].id : n \in {j \in DOMAIN list : list[j].mode = "shadow"}}
    BY <1>1 DEF Told
  <2>2. PICK n \in DOMAIN list : list[n].mode = "shadow" /\ list[n].id = id
    BY <2>1
  <2> QED BY <2>2, <1>4
<1>7. Whole(s.rules, log, RulesNoted) /\ Whole(s.shadows, log, ShadowsNoted)
  BY WholeBreakdowns
<1>8. \A i \in 1..N : ToSet(RulesNoted[i]) = {log[i].rule} \ {NoRule}
  <2> SUFFICES ASSUME NEW i \in 1..N PROVE ToSet(Unless(NoRule, log[i].rule)) = {log[i].rule} \ {NoRule}
    BY <1>1 DEF RulesNoted
  <2> QED BY UnlessIs
<1>9. \A i \in 1..N : ToSet(ShadowsNoted[i]) = ToSet(log[i].shadow)
  BY <1>1 DEF ShadowsNoted
<1>10. {i \in DOMAIN log : id \in ToSet(RulesNoted[i])} = Won
  BY <1>1, <1>3, <1>8
<1>11. {i \in DOMAIN log : id \in ToSet(ShadowsNoted[i])} = Shadowed
  BY <1>1, <1>9
<1>12. /\ id \in DOMAIN s.rules.counters <=> Won # {}
       /\ id \in DOMAIN s.shadows.counters <=> Shadowed # {}
  <2>1. DOMAIN s.rules.counters = UNION {ToSet(RulesNoted[i]) : i \in DOMAIN log}
    BY <1>7 DEF Whole
  <2>2. DOMAIN s.shadows.counters = UNION {ToSet(ShadowsNoted[i]) : i \in DOMAIN log}
    BY <1>7 DEF Whole
  <2>3. id \in DOMAIN s.rules.counters <=> {i \in DOMAIN log : id \in ToSet(RulesNoted[i])} # {}
    BY <2>1
  <2>4. id \in DOMAIN s.shadows.counters
          <=> {i \in DOMAIN log : id \in ToSet(ShadowsNoted[i])} # {}
    BY <2>2
  <2> QED BY <2>3, <2>4, <1>10, <1>11
<1>13. id \in DOMAIN s.rules.counters => s.rules.counters[id].count = Cardinality(Won)
  <2> SUFFICES ASSUME id \in DOMAIN s.rules.counters
               PROVE  s.rules.counters[id].count = Cardinality(Won)
    OBVIOUS
  <2> DEFINE b == s.rules
  <2> HIDE DEF b, id, Won
  <2>1. Whole(b, log, RulesNoted) /\ id \in DOMAIN b.counters
    BY <1>7 DEF b
  <2>2. b.counters[id].count = Cardinality({i \in DOMAIN log : id \in ToSet(RulesNoted[i])})
    BY <2>1, WholeCount
  <2> QED BY <2>2, <1>10 DEF b
<1>14. id \in DOMAIN s.shadows.counters => s.shadows.counters[id].count = Cardinality(Shadowed)
  <2> SUFFICES ASSUME id \in DOMAIN s.shadows.counters
               PROVE  s.shadows.counters[id].count = Cardinality(Shadowed)
    OBVIOUS
  <2> DEFINE b == s.shadows
  <2> HIDE DEF b, id, Shadowed
  <2>1. Whole(b, log, ShadowsNoted) /\ id \in DOMAIN b.counters
    BY <1>7 DEF b
  <2>2. b.counters[id].count = Cardinality({i \in DOMAIN log : id \in ToSet(ShadowsNoted[i])})
    BY <2>1, WholeCount
  <2> QED BY <2>2, <1>11 DEF b
<1>15. Len(Filtered(log, [AnyEvent EXCEPT !.rule = id])) = Cardinality(Won \cup Shadowed)
  <2>1. {i \in DOMAIN log : log[i].rule = id \/ id \in ToSet(log[i].shadow)} = Won \cup Shadowed
    OBVIOUS
  <2> HIDE DEF id, Won, Shadowed
  <2>2. Len(Filtered(log, [AnyEvent EXCEPT !.rule = id]))
          = Cardinality({i \in DOMAIN log : log[i].rule = id \/ id \in ToSet(log[i].shadow)})
    BY <1>3, RuleFinds
  <2> QED BY <2>1, <2>2
<1>16. Won = {} \/ Shadowed = {}
  BY <1>5, <1>6
<1> HIDE DEF s, id, Won, Shadowed
<1>17. CASE id \in DOMAIN s.shadows.counters
  <2>1. RuleRow(s, id) = s.shadows.counters[id]
    BY <1>17 DEF RuleRow
  <2>2. Won \cup Shadowed = Shadowed
    BY <1>12, <1>16, <1>17
  <2> QED BY <2>1, <2>2, <1>14, <1>15, <1>17 DEF s, id
<1>18. CASE id \notin DOMAIN s.shadows.counters /\ id \in DOMAIN s.rules.counters
  <2>1. RuleRow(s, id) = s.rules.counters[id]
    BY <1>18 DEF RuleRow
  <2>2. Won \cup Shadowed = Won
    BY <1>12, <1>18
  <2> QED BY <2>1, <2>2, <1>13, <1>15, <1>18 DEF s, id
<1>19. CASE id \notin DOMAIN s.shadows.counters /\ id \notin DOMAIN s.rules.counters
  <2>1. RuleRow(s, id).count = 0
    BY <1>19 DEF RuleRow, NoCounter
  <2>2. Won \cup Shadowed = {}
    BY <1>12, <1>19
  <2> QED BY <2>1, <2>2, <1>15, FS_EmptySet DEF s, id
<1> QED BY <1>17, <1>18, <1>19

LEMMA NumbersHold ==
  ASSUME ReplayInv
  PROVE  NumbersAgree
<1> DEFINE s == SummaryOfLog
<1>1. TrafficInv
  BY DEF ReplayInv
<1>2. log \in Seq(Events)
  BY <1>1, LogSpan
<1>3. s.decisions = [d \in {"pass", "allow", "block", "ratelimit"} |-> Cardinality(Decided(d))]
  BY <1>2, SummaryIs DEF Decided
<1>4. s.answers = [c \in Classes |-> Cardinality(Answered(c))]
  BY <1>2, SummaryIs DEF Answered
<1> HIDE DEF s
<1>5. /\ s.decisions["block"] = Cardinality(Decided("block"))
      /\ s.decisions["ratelimit"] = Cardinality(Decided("ratelimit"))
  BY <1>3
<1>6. \A c \in Classes : s.answers[c] = Cardinality(Answered(c))
  BY <1>4
<1>7. s.answers["blocked"] = Cardinality(Answered("blocked"))
  BY <1>6 DEF Classes
<1>8. s.answers["blocked"] = s.decisions["block"] + s.decisions["ratelimit"]
  BY <1>1, <1>5, <1>7, BlockedIs
<1>9. Settled /\ reloads = 0 /\ ~overtaken =>
        \A again \in Replays :
          (\A i \in DOMAIN log \ PassedBefore : CountedApart(again, i)) =>
            ReplayBlocked(again)
              = s.answers["blocked"]
                  + Cardinality({i \in PassedBefore : again[i].action \in Refusals})
  <2> SUFFICES ASSUME Settled, reloads = 0, ~overtaken, NEW again \in Replays,
                      \A i \in DOMAIN log \ PassedBefore : CountedApart(again, i)
               PROVE  ReplayBlocked(again)
                        = s.answers["blocked"]
                            + Cardinality({i \in PassedBefore : again[i].action \in Refusals})
    OBVIOUS
  <2>1. PICK l : Effective(l) = Effective(list) /\ again = Replay(l, log)
    BY ReplaysAre
  <2>2. ReplayBlocked(Replay(l, log))
          = Cardinality(Decided("block")) + Cardinality(Decided("ratelimit"))
              + Cardinality({i \in PassedBefore : Replay(l, log)[i].action \in Refusals})
    BY <2>1, ReplayBlocks
  <2> QED BY <2>1, <2>2, <1>5, <1>8
<1>10. \A c \in Classes : Len(Filtered(log, [AnyEvent EXCEPT !.class = c])) = s.answers[c]
  BY <1>1, <1>6, ClickShows
<1>11. \A c \in Classes : log # <<>> => SumOf([n \in 1..Buckets |-> s.series[n][c]]) = s.answers[c]
  BY <1>1, <1>6, SeriesSums DEF s
<1>12. reloads = 0 /\ ~s.truncated =>
         \A i \in DOMAIN list :
           RuleRow(s, list[i].id).count = Len(Filtered(log, [AnyEvent EXCEPT !.rule = list[i].id]))
  BY <1>1, RowCounts DEF s
<1>13. \A t \in 0..MaxTime : Len(InPeriod(log, None, t)) + Len(InPeriod(log, t, None)) = Len(log)
  <2>1. \A t \in 0..MaxTime : t \in Nat
    BY TA DEF TrafficAssumption
  <2> QED BY <1>1, <2>1, PeriodsMeet
<1>14. s = Summary(log, None, None, AnyEvent)
  BY DEF s, SummaryOfLog
<1> QED BY <1>8, <1>9, <1>10, <1>11, <1>12, <1>13, <1>14 DEF NumbersAgree

-----------------------------------------------------------------------------
(* Sketches. What a sketch is depends on the hashes it was given alone.    *)
NoZeros == [i \in Registers |-> 0]
IsHashes(H) == IsFiniteSet(H) /\ \A h \in H : h.zeros \in 0..255
SketchOf(H) == AddAll(NoSketch, H)

(* A register is the largest of the zeros it was raised by: whatever their *)
(* order, and whether they come one by one or together.                    *)
LEMMA RaisedIs ==
  ASSUME NEW regs \in [Registers -> 0..255], NEW H, IsHashes(H)
  PROVE  /\ Raised(regs, H) \in [Registers -> 0..255]
         /\ \A i \in Registers :
              /\ regs[i] <= Raised(regs, H)[i]
              /\ \A h \in H : h.register = i => h.zeros <= Raised(regs, H)[i]
              /\ \/ Raised(regs, H)[i] = regs[i]
                 \/ \E h \in H : h.register = i /\ h.zeros = Raised(regs, H)[i]
<1> DEFINE S(i) == {regs[i]} \cup {h.zeros : h \in {g \in H : g.register = i}}
           r == Raised(regs, H)
<1>1. r = [i \in Registers |-> Max(S(i))]
  BY DEF Raised
<1>2. ASSUME NEW i \in Registers
      PROVE  /\ Max(S(i)) \in 0..255
             /\ regs[i] <= Max(S(i))
             /\ \A h \in H : h.register = i => h.zeros <= Max(S(i))
             /\ \/ Max(S(i)) = regs[i]
                \/ \E h \in H : h.register = i /\ h.zeros = Max(S(i))
  <2> DEFINE T == S(i)
  <2>1. T \subseteq 0..255
    BY DEF IsHashes
  <2>2. regs[i] \in T /\ \A h \in H : h.register = i => h.zeros \in T
    OBVIOUS
  <2>3. \A x \in T : x = regs[i] \/ \E h \in H : h.register = i /\ h.zeros = x
    OBVIOUS
  <2> HIDE DEF T
  <2>4. T \in SUBSET Int /\ T # {} /\ 255 \in Int /\ \A x \in T : x <= 255
    BY <2>1, <2>2
  <2>5. Max(T) \in T /\ \A x \in T : x <= Max(T)
    BY <2>4, MaxIs
  <2>6. /\ Max(T) \in 0..255 /\ regs[i] <= Max(T)
        /\ \A h \in H : h.register = i => h.zeros <= Max(T)
        /\ Max(T) = regs[i] \/ \E h \in H : h.register = i /\ h.zeros = Max(T)
    BY <2>1, <2>2, <2>3, <2>5
  <2> QED BY <2>6 DEF T
<1> HIDE DEF S, r
<1>3. r \in [Registers -> 0..255] /\ \A i \in Registers : r[i] = Max(S(i))
  BY <1>1, <1>2
<1>4. \A i \in Registers :
        /\ regs[i] <= r[i]
        /\ \A h \in H : h.register = i => h.zeros <= r[i]
        /\ \/ r[i] = regs[i]
           \/ \E h \in H : h.register = i /\ h.zeros = r[i]
  BY <1>2, <1>3
<1> QED BY <1>3, <1>4 DEF r

LEMMA HashesJoin ==
  ASSUME NEW H, IsHashes(H), NEW G, IsHashes(G)
  PROVE  /\ IsHashes(H \cup G)
         /\ Cardinality(H) \in Nat /\ Cardinality(G) \in Nat /\ Cardinality(H \cup G) \in Nat
         /\ Cardinality(H) <= Cardinality(H \cup G) /\ Cardinality(G) <= Cardinality(H \cup G)
<1>1. IsFiniteSet(H) /\ IsFiniteSet(G)
  BY DEF IsHashes
<1>2. IsFiniteSet(H \cup G)
  BY <1>1, FS_Union
<1>3. Cardinality(H) \in Nat /\ Cardinality(G) \in Nat /\ Cardinality(H \cup G) \in Nat
  BY <1>1, <1>2, FS_CardinalityType
<1>4. H \in SUBSET (H \cup G) /\ G \in SUBSET (H \cup G)
  OBVIOUS
<1>5. Cardinality(H) <= Cardinality(H \cup G)
  BY <1>2, <1>4, FS_Subset
<1>6. Cardinality(G) <= Cardinality(H \cup G)
  BY <1>2, <1>4, FS_Subset
<1> QED BY <1>2, <1>3, <1>5, <1>6 DEF IsHashes

LEMMA RaisedTwice ==
  ASSUME NEW regs \in [Registers -> 0..255], NEW H, IsHashes(H), NEW G, IsHashes(G)
  PROVE  Raised(Raised(regs, H), G) = Raised(regs, H \cup G)
<1> DEFINE a == Raised(regs, H)
           b == Raised(a, G)
           c == Raised(regs, H \cup G)
<1>1. /\ a \in [Registers -> 0..255]
      /\ \A i \in Registers :
           /\ regs[i] <= a[i]
           /\ \A h \in H : h.register = i => h.zeros <= a[i]
           /\ a[i] = regs[i] \/ \E h \in H : h.register = i /\ h.zeros = a[i]
  BY RaisedIs
<1> HIDE DEF a
<1>2. /\ b \in [Registers -> 0..255]
      /\ \A i \in Registers :
           /\ a[i] <= b[i]
           /\ \A h \in G : h.register = i => h.zeros <= b[i]
           /\ b[i] = a[i] \/ \E h \in G : h.register = i /\ h.zeros = b[i]
  BY <1>1, RaisedIs
<1>3. /\ c \in [Registers -> 0..255]
      /\ \A i \in Registers :
           /\ regs[i] <= c[i]
           /\ \A h \in H \cup G : h.register = i => h.zeros <= c[i]
           /\ c[i] = regs[i] \/ \E h \in H \cup G : h.register = i /\ h.zeros = c[i]
  <2>1. IsHashes(H \cup G)
    BY HashesJoin
  <2> QED BY <2>1, RaisedIs
<1> HIDE DEF b, c
<1>4. ASSUME NEW i \in Registers PROVE b[i] = c[i]
  <2>1. a[i] \in Int /\ b[i] \in Int /\ c[i] \in Int /\ regs[i] \in Int
    <3>1. a[i] \in 0..255 /\ b[i] \in 0..255 /\ c[i] \in 0..255 /\ regs[i] \in 0..255
      BY <1>1, <1>2, <1>3
    <3> QED BY <3>1
  <2>2. a[i] <= c[i]
    <3>1. CASE a[i] = regs[i]
      BY <3>1, <1>3
    <3>2. CASE \E h \in H : h.register = i /\ h.zeros = a[i]
      BY <3>2, <1>3
    <3> QED BY <3>1, <3>2, <1>1
  <2>3. b[i] <= c[i]
    <3>1. CASE b[i] = a[i]
      BY <3>1, <2>2
    <3>2. CASE \E h \in G : h.register = i /\ h.zeros = b[i]
      BY <3>2, <1>3
    <3> QED BY <3>1, <3>2, <1>2
  <2>4. c[i] <= b[i]
    <3>1. CASE c[i] = regs[i]
      <4>1. regs[i] <= a[i] /\ a[i] <= b[i]
        BY <1>1, <1>2
      <4> QED BY <4>1, <3>1, <2>1
    <3>2. ASSUME NEW h \in H \cup G, h.register = i, h.zeros = c[i] PROVE c[i] <= b[i]
      <4>1. CASE h \in H
        <5>1. c[i] <= a[i] /\ a[i] <= b[i]
          BY <4>1, <3>2, <1>1, <1>2
        <5> QED BY <5>1, <2>1
      <4>2. CASE h \in G
        BY <4>2, <3>2, <1>2
      <4> QED BY <4>1, <4>2
    <3> QED BY <3>1, <3>2, <1>3
  <2> QED BY <2>1, <2>3, <2>4
<1>5. b = c
  BY <1>2, <1>3, <1>4
<1> QED BY <1>5 DEF a, b, c

LEMMA RaisedFromNothing ==
  ASSUME NEW H, IsHashes(H)
  PROVE  /\ NoZeros \in [Registers -> 0..255]
         /\ Raised(NoZeros, H) \in [Registers -> 0..255]
         /\ \A i \in Registers :
              /\ \A h \in H : h.register = i => h.zeros <= Raised(NoZeros, H)[i]
              /\ \/ Raised(NoZeros, H)[i] = 0
                 \/ \E h \in H : h.register = i /\ h.zeros = Raised(NoZeros, H)[i]
<1>1. NoZeros \in [Registers -> 0..255] /\ \A i \in Registers : NoZeros[i] = 0
  BY DEF NoZeros
<1> DEFINE a == Raised(NoZeros, H)
<1>2. /\ a \in [Registers -> 0..255]
      /\ \A i \in Registers :
           /\ \A h \in H : h.register = i => h.zeros <= a[i]
           /\ a[i] = NoZeros[i] \/ \E h \in H : h.register = i /\ h.zeros = a[i]
  BY <1>1, RaisedIs
<1> HIDE DEF a
<1>3. \A i \in Registers : a[i] = 0 \/ \E h \in H : h.register = i /\ h.zeros = a[i]
  BY <1>1, <1>2
<1> QED BY <1>1, <1>2, <1>3 DEF a

LEMMA RaisedMerge ==
  ASSUME NEW H, IsHashes(H), NEW G, IsHashes(G)
  PROVE  /\ NoZeros \in [Registers -> 0..255]
         /\ [i \in Registers |-> Max({Raised(NoZeros, H)[i], Raised(NoZeros, G)[i]})]
              = Raised(NoZeros, H \cup G)
<1> DEFINE a == Raised(NoZeros, H)
           b == Raised(NoZeros, G)
           c == Raised(NoZeros, H \cup G)
<1>0. NoZeros \in [Registers -> 0..255]
  BY RaisedFromNothing
<1>1. /\ a \in [Registers -> 0..255]
      /\ \A i \in Registers :
           /\ \A h \in H : h.register = i => h.zeros <= a[i]
           /\ a[i] = 0 \/ \E h \in H : h.register = i /\ h.zeros = a[i]
  BY RaisedFromNothing
<1>2. /\ b \in [Registers -> 0..255]
      /\ \A i \in Registers :
           /\ \A h \in G : h.register = i => h.zeros <= b[i]
           /\ b[i] = 0 \/ \E h \in G : h.register = i /\ h.zeros = b[i]
  BY RaisedFromNothing
<1>3. /\ c \in [Registers -> 0..255]
      /\ \A i \in Registers :
           /\ \A h \in H \cup G : h.register = i => h.zeros <= c[i]
           /\ c[i] = 0 \/ \E h \in H \cup G : h.register = i /\ h.zeros = c[i]
  <2>1. IsHashes(H \cup G)
    BY HashesJoin
  <2> QED BY <2>1, RaisedFromNothing
<1> HIDE DEF a, b, c
<1>4. ASSUME NEW i \in Registers PROVE Max({a[i], b[i]}) = c[i]
  <2>0. a[i] \in 0..255 /\ b[i] \in 0..255 /\ c[i] \in 0..255
    BY <1>1, <1>2, <1>3
  <2>1. a[i] \in Int /\ b[i] \in Int /\ c[i] \in Int /\ 0 <= c[i]
    BY <2>0
  <2>2. Max({a[i], b[i]}) = IF a[i] >= b[i] THEN a[i] ELSE b[i]
    BY <2>1, OfTwo
  <2>3. a[i] <= c[i]
    BY <1>1, <1>3, <2>1
  <2>4. b[i] <= c[i]
    BY <1>2, <1>3, <2>1
  <2>5. c[i] <= a[i] \/ c[i] <= b[i]
    BY <1>1, <1>2, <1>3, <2>1
  <2> QED BY <2>1, <2>2, <2>3, <2>4, <2>5
<1>5. c = [i \in Registers |-> c[i]]
  BY <1>3
<1>6. [i \in Registers |-> Max({a[i], b[i]})] = c
  BY <1>4, <1>5
<1> QED BY <1>0, <1>6 DEF a, b, c

Dense(H) == [dense |-> TRUE, hashes |-> {}, regs |-> Raised(NoZeros, H)]
Sparse(H) == [dense |-> FALSE, hashes |-> H, regs |-> NoZeros]

LEMMA SketchWith ==
  ASSUME NEW H, NEW x
  PROVE  /\ [Sparse(H) EXCEPT !.hashes = x] = Sparse(x)
         /\ [Dense(H) EXCEPT !.regs = x] = [dense |-> TRUE, hashes |-> {}, regs |-> x]
<1>1. PICK d : d = FALSE
  OBVIOUS
<1>2. PICK e : e = TRUE
  OBVIOUS
<1>3. Sparse(H) = [dense |-> d, hashes |-> H, regs |-> NoZeros]
  BY <1>1 DEF Sparse
<1>4. Sparse(x) = [dense |-> d, hashes |-> x, regs |-> NoZeros]
  BY <1>1 DEF Sparse
<1>5. Dense(H) = [dense |-> e, hashes |-> {}, regs |-> Raised(NoZeros, H)]
  BY <1>2 DEF Dense
<1>6. [dense |-> TRUE, hashes |-> {}, regs |-> x] = [dense |-> e, hashes |-> {}, regs |-> x]
  BY <1>2
<1>7. [Sparse(H) EXCEPT !.hashes = x] = [dense |-> d, hashes |-> x, regs |-> NoZeros]
  BY <1>3
<1>8. [Dense(H) EXCEPT !.regs = x] = [dense |-> e, hashes |-> {}, regs |-> x]
  BY <1>5
<1> QED BY <1>4, <1>6, <1>7, <1>8

LEMMA AddedIs ==
  ASSUME NEW H, NEW G
  PROVE  /\ AddAll(Sparse(H), G) = IF Cardinality(H \cup G) > SparseLimit THEN Dense(H \cup G)
                                  ELSE Sparse(H \cup G)
         /\ AddAll(Dense(H), G)
              = [dense |-> TRUE, hashes |-> {}, regs |-> Raised(Raised(NoZeros, H), G)]
         /\ Densified(Sparse(H)) = Dense(H)
<1>1. Densified(Sparse(H)) = Dense(H)
  BY DEF Densified, Sparse, Dense
<1>2. Densified(Sparse(H \cup G)) = Dense(H \cup G)
  BY DEF Densified, Sparse, Dense
<1>3. [Sparse(H) EXCEPT !.hashes = @ \cup G] = Sparse(H \cup G)
  <2>1. Sparse(H).hashes = H
    BY DEF Sparse
  <2>2. [Sparse(H) EXCEPT !.hashes = H \cup G] = Sparse(H \cup G)
    BY SketchWith
  <2> QED BY <2>1, <2>2
<1>4. Sparse(H).dense = FALSE /\ Sparse(H \cup G).hashes = H \cup G
  BY DEF Sparse
<1>5. AddAll(Sparse(H), G) = IF Cardinality(H \cup G) > SparseLimit THEN Dense(H \cup G)
                             ELSE Sparse(H \cup G)
  BY <1>2, <1>3, <1>4 DEF AddAll
<1>6. AddAll(Dense(H), G)
        = [dense |-> TRUE, hashes |-> {}, regs |-> Raised(Raised(NoZeros, H), G)]
  BY DEF AddAll, Dense
<1> QED BY <1>1, <1>5, <1>6

LEMMA SketchIs ==
  ASSUME NEW H
  PROVE  SketchOf(H) = IF Cardinality(H) > SparseLimit THEN Dense(H) ELSE Sparse(H)
<1>1. NoSketch = Sparse({})
  BY DEF NoSketch, Sparse, NoZeros
<1>2. {} \cup H = H
  OBVIOUS
<1> QED BY <1>1, <1>2, AddedIs DEF SketchOf

LEMMA SketchAdds ==
  ASSUME NEW H, IsHashes(H), NEW G, IsHashes(G)
  PROVE  AddAll(SketchOf(H), G) = SketchOf(H \cup G)
<1>1. SketchOf(H) = IF Cardinality(H) > SparseLimit THEN Dense(H) ELSE Sparse(H)
  BY SketchIs
<1>2. SketchOf(H \cup G) = IF Cardinality(H \cup G) > SparseLimit THEN Dense(H \cup G)
                           ELSE Sparse(H \cup G)
  BY SketchIs
<1>3. /\ Cardinality(H) \in Nat /\ Cardinality(H \cup G) \in Nat
      /\ Cardinality(H) <= Cardinality(H \cup G) /\ SparseLimit \in Nat
  BY HashesJoin, TA DEF TrafficAssumption
<1>4. CASE Cardinality(H) > SparseLimit
  <2>1. Cardinality(H \cup G) > SparseLimit
    BY <1>3, <1>4
  <2>2. Raised(Raised(NoZeros, H), G) = Raised(NoZeros, H \cup G)
    <3>1. NoZeros \in [Registers -> 0..255]
      BY DEF NoZeros
    <3> QED BY <3>1, RaisedTwice
  <2>3. AddAll(Dense(H), G) = Dense(H \cup G)
    BY <2>2, AddedIs DEF Dense
  <2> QED BY <1>1, <1>2, <1>4, <2>1, <2>3
<1>5. CASE ~(Cardinality(H) > SparseLimit)
  BY <1>1, <1>2, <1>5, AddedIs
<1> QED BY <1>4, <1>5

LEMMA SketchMerges ==
  ASSUME NEW H, IsHashes(H), NEW G, IsHashes(G)
  PROVE  MergeSketch(SketchOf(H), SketchOf(G)) = SketchOf(H \cup G)
<1> DEFINE s == SketchOf(H)
           o == SketchOf(G)
           m == [i \in Registers |-> Max({Raised(NoZeros, H)[i], Raised(NoZeros, G)[i]})]
<1>1. s = IF Cardinality(H) > SparseLimit THEN Dense(H) ELSE Sparse(H)
  BY SketchIs
<1>2. o = IF Cardinality(G) > SparseLimit THEN Dense(G) ELSE Sparse(G)
  BY SketchIs
<1>3. SketchOf(H \cup G) = IF Cardinality(H \cup G) > SparseLimit THEN Dense(H \cup G)
                           ELSE Sparse(H \cup G)
  BY SketchIs
<1>4. /\ Cardinality(G) \in Nat /\ Cardinality(H \cup G) \in Nat
      /\ Cardinality(G) <= Cardinality(H \cup G) /\ SparseLimit \in Nat
  BY HashesJoin, TA DEF TrafficAssumption
<1>5. m = Raised(NoZeros, H \cup G)
  BY RaisedMerge
<1>6. AddAll(s, G) = SketchOf(H \cup G)
  BY SketchAdds
<1> HIDE DEF s, o
<1>7. CASE Cardinality(G) > SparseLimit
  <2>1. o = Dense(G) /\ SketchOf(H \cup G) = Dense(H \cup G)
    BY <1>2, <1>3, <1>4, <1>7
  <2>2. Densified(Sparse(H)) = Dense(H)
    BY AddedIs
  <2>3. (IF o.dense /\ ~s.dense THEN Densified(s) ELSE s) = Dense(H)
    <3>1. o.dense = TRUE /\ Dense(H).dense = TRUE /\ Sparse(H).dense = FALSE
      BY <2>1 DEF Dense, Sparse
    <3> QED BY <3>1, <2>2, <1>1
  <2>4. o.dense = TRUE /\ o.regs = Raised(NoZeros, G) /\ Dense(H).regs = Raised(NoZeros, H)
    BY <2>1 DEF Dense
  <2>5. MergeSketch(s, o) = [Dense(H) EXCEPT !.regs = m]
    BY <2>3, <2>4 DEF MergeSketch
  <2>6. [Dense(H) EXCEPT !.regs = m] = Dense(H \cup G)
    <3>1. [Dense(H) EXCEPT !.regs = m] = [dense |-> TRUE, hashes |-> {}, regs |-> m]
      BY SketchWith
    <3> QED BY <3>1, <1>5 DEF Dense
  <2> QED BY <2>1, <2>5, <2>6 DEF s, o
<1>8. CASE ~(Cardinality(G) > SparseLimit)
  <2>1. o.dense = FALSE /\ o.hashes = G
    BY <1>2, <1>8 DEF Sparse
  <2>2. MergeSketch(s, o) = AddAll(s, G)
    BY <2>1 DEF MergeSketch
  <2> QED BY <2>2, <1>6 DEF s, o
<1> QED BY <1>7, <1>8

-----------------------------------------------------------------------------
(* What a row says of the events at some places of the log.                *)
CookieAt == {i \in DOMAIN log : log[i].cookie}
ShadowedAt == {i \in DOMAIN log : log[i].shadow # <<>>}
AddressedAt(P) == {i \in P : log[i].ip # <<>>}
HashesOf(P) == {Hash[log[i].ip] : i \in AddressedAt(P)}
Part(P, X) == Cardinality(P \cap X)

Tally(P) ==
  [requests |-> Cardinality(P), cookies |-> Part(P, CookieAt),
   blocked |-> Part(P, Decided("block")), limited |-> Part(P, Decided("ratelimit")),
   shadowed |-> Part(P, ShadowedAt), addrs |-> SketchOf(HashesOf(P))]

LEMMA AddressHashed ==
  ASSUME TrafficInv, NEW i \in DOMAIN log, log[i].ip # <<>>
  PROVE  Hash[log[i].ip].zeros \in 0..255
<1> DEFINE v == log[i].visit
<1>1. log[i] \in Events /\ Asked(log[i]) = Collected(log[i].visit, log[i].time)
  BY LogSpan DEF TrafficInv, LogTold
<1>2. v \in Visits
  BY <1>1 DEF Events
<1> HIDE DEF v
<1>3. v.peer \in Addresses /\ v.chain \in Seq(Addresses)
  BY <1>2, VisitIs
<1>4. log[i].ip = ClientAddr(v.peer, v.chain)
  <2>1. Asked(log[i]).ip = Collected(log[i].visit, log[i].time).ip
    BY <1>1
  <2>2. Asked(log[i]).ip = log[i].ip
    BY DEF Asked
  <2>3. Collected(log[i].visit, log[i].time).ip = ClientAddr(v.peer, v.chain)
    BY DEF Collected, v
  <2> QED BY <2>1, <2>2, <2>3
<1>5. ClientAddr(v.peer, v.chain) \in {v.peer} \cup ToSet(v.chain)
  <2>1. Strangers(v.chain) # {} => Max(Strangers(v.chain)) \in DOMAIN v.chain
    <3>1. Strangers(v.chain) # {} => Max(Strangers(v.chain)) \in Strangers(v.chain)
      BY <1>3, StrangersAre
    <3> QED BY <3>1 DEF Strangers
  <2>2. Strangers(v.chain) # {} => v.chain[Max(Strangers(v.chain))] \in ToSet(v.chain)
    BY <2>1 DEF ToSet
  <2> QED BY <2>2 DEF ClientAddr
<1>6. ({v.peer} \cup ToSet(v.chain)) \ {<<>>} \subseteq DOMAIN Hash
  BY <1>2, TA DEF TrafficAssumption
<1>7. log[i].ip \in DOMAIN Hash
  BY <1>4, <1>5, <1>6
<1>8. Hash[log[i].ip] \in [register: Nat, zeros: 0..255]
  BY <1>7, TA DEF TrafficAssumption
<1> QED BY <1>8

(* The hashes of the events at some places are finitely many.              *)
LEMMA HashesAre ==
  ASSUME TrafficInv, NEW P \in SUBSET DOMAIN log
  PROVE  IsFiniteSet(P) /\ IsHashes(HashesOf(P))
<1> DEFINE Q == AddressedAt(P)
           H == HashesOf(P)
           f == [i \in Q |-> Hash[log[i].ip]]
<1>1. IsFiniteSet(DOMAIN log)
  BY LogSpan, FS_Interval
<1>2. IsFiniteSet(P) /\ Q \in SUBSET DOMAIN log
  BY <1>1, FS_Subset DEF AddressedAt
<1>3. IsFiniteSet(Q)
  BY <1>1, <1>2, FS_Subset
<1>4. f \in [Q -> H] /\ \A h \in H : \E i \in Q : f[i] = h
  BY DEF HashesOf
<1>5. \A h \in H : h.zeros \in 0..255
  <2> SUFFICES ASSUME NEW i \in Q PROVE Hash[log[i].ip].zeros \in 0..255
    BY DEF HashesOf
  <2>1. i \in DOMAIN log /\ log[i].ip # <<>>
    BY DEF AddressedAt
  <2> QED BY <2>1, AddressHashed
<1> HIDE DEF Q, H, f
<1>6. f \in Surjection(Q, H)
  BY <1>4 DEF Surjection
<1>7. IsFiniteSet(H)
  BY <1>3, <1>6, FS_Surjection
<1> QED BY <1>2, <1>5, <1>7 DEF IsHashes, H

LEMMA OnePart ==
  ASSUME NEW n \in Nat, NEW P \in SUBSET (1..n), NEW i \in 1..n, i \notin P, NEW X
  PROVE  /\ Cardinality(P \cup {i}) = Cardinality(P) + 1
         /\ Part(P \cup {i}, X) = Part(P, X) + If(i \in X)
<1>1. IsFiniteSet(1..n)
  BY FS_Interval
<1>2. IsFiniteSet(P)
  BY <1>1, FS_Subset
<1>3. P \cap X \in SUBSET (1..n)
  OBVIOUS
<1>4. IsFiniteSet(P \cap X)
  BY <1>1, <1>3, FS_Subset
<1>5. Cardinality(P \cap X) \in Nat
  BY <1>4, FS_CardinalityType
<1>6. Cardinality(P \cup {i}) = Cardinality(P) + 1
  BY <1>2, FS_AddElement
<1>7. CASE i \in X
  <2>1. (P \cup {i}) \cap X = (P \cap X) \cup {i} /\ i \notin P \cap X
    BY <1>7
  <2>2. Cardinality((P \cap X) \cup {i}) = Cardinality(P \cap X) + 1
    BY <1>4, <2>1, FS_AddElement
  <2>3. Part(P \cup {i}, X) = Part(P, X) + 1
    BY <2>1, <2>2 DEF Part
  <2> QED BY <2>3, <1>6, <1>7 DEF If
<1>8. CASE i \notin X
  <2>1. (P \cup {i}) \cap X = P \cap X
    BY <1>8
  <2>2. Part(P \cup {i}, X) = Part(P, X)
    BY <2>1 DEF Part
  <2>3. Part(P, X) \in Nat
    BY <1>5 DEF Part
  <2>4. If(i \in X) = 0
    BY <1>8 DEF If
  <2> QED BY <2>2, <2>3, <2>4, <1>6
<1> QED BY <1>7, <1>8

(* One event more.                                                         *)
LEMMA TallyAdds ==
  ASSUME TrafficInv, NEW P \in SUBSET DOMAIN log, NEW i \in DOMAIN log, i \notin P
  PROVE  CountIn(Tally(P), log[i]) = Tally(P \cup {i})
<1> DEFINE N == Len(log)
           Q == P \cup {i}
           e == log[i]
<1>1. N \in Nat /\ DOMAIN log = 1..N /\ e \in Events
  BY LogSpan
<1>2. /\ Cardinality(Q) = Cardinality(P) + 1
      /\ \A X : Part(Q, X) = Part(P, X) + If(i \in X)
  <2>1. P \in SUBSET (1..N) /\ i \in 1..N
    BY <1>1
  <2> QED BY <2>1, <1>1, OnePart
<1>3. (i \in CookieAt) = e.cookie
  BY <1>1 DEF CookieAt, Events
<1>4. \A a : (i \in Decided(a)) = (e.decision = a)
  BY <1>1 DEF Decided
<1>5. (i \in ShadowedAt) = (e.shadow # <<>>)
  BY <1>1 DEF ShadowedAt
<1>6. (IF e.ip = <<>> THEN SketchOf(HashesOf(P)) ELSE AddAll(SketchOf(HashesOf(P)), {Hash[e.ip]}))
        = SketchOf(HashesOf(Q))
  <2>1. CASE e.ip = <<>>
    <3>1. AddressedAt(Q) = AddressedAt(P)
      BY <2>1 DEF AddressedAt
    <3>2. HashesOf(Q) = HashesOf(P)
      BY <3>1 DEF HashesOf
    <3> QED BY <2>1, <3>2
  <2>2. CASE e.ip # <<>>
    <3>1. AddressedAt(Q) = AddressedAt(P) \cup {i}
      BY <2>2 DEF AddressedAt
    <3>2. HashesOf(Q) = HashesOf(P) \cup {Hash[e.ip]}
      BY <3>1 DEF HashesOf
    <3>3. IsHashes(HashesOf(P))
      BY HashesAre
    <3>4. Hash[e.ip].zeros \in 0..255
      BY <2>2, AddressHashed
    <3>5. IsFiniteSet({Hash[e.ip]})
      BY FS_Singleton
    <3>6. IsHashes({Hash[e.ip]})
      BY <3>4, <3>5 DEF IsHashes
    <3>7. AddAll(SketchOf(HashesOf(P)), {Hash[e.ip]}) = SketchOf(HashesOf(P) \cup {Hash[e.ip]})
      BY <3>3, <3>6, SketchAdds
    <3> QED BY <2>2, <3>2, <3>7
  <2> QED BY <2>1, <2>2
<1> HIDE DEF N, Q, e
<1> DEFINE c == Tally(P)
<1>7. /\ c.requests = Cardinality(P) /\ c.cookies = Part(P, CookieAt)
      /\ c.blocked = Part(P, Decided("block")) /\ c.limited = Part(P, Decided("ratelimit"))
      /\ c.shadowed = Part(P, ShadowedAt) /\ c.addrs = SketchOf(HashesOf(P))
  BY DEF Tally
<1> HIDE DEF c
<1>8. /\ c.requests + 1 = Cardinality(Q)
      /\ c.cookies + If(e.cookie) = Part(Q, CookieAt)
      /\ c.blocked + If(e.decision = "block") = Part(Q, Decided("block"))
      /\ c.limited + If(e.decision = "ratelimit") = Part(Q, Decided("ratelimit"))
      /\ c.shadowed + If(e.shadow # <<>>) = Part(Q, ShadowedAt)
      /\ (IF e.ip = <<>> THEN c.addrs ELSE AddAll(c.addrs, {Hash[e.ip]})) = SketchOf(HashesOf(Q))
  <2>1. c.requests + 1 = Cardinality(Q)
    BY <1>2, <1>7
  <2>2. c.cookies + If(e.cookie) = Part(Q, CookieAt)
    BY <1>2, <1>3, <1>7
  <2>3. /\ c.blocked + If(e.decision = "block") = Part(Q, Decided("block"))
        /\ c.limited + If(e.decision = "ratelimit") = Part(Q, Decided("ratelimit"))
    BY <1>2, <1>4, <1>7
  <2>4. c.shadowed + If(e.shadow # <<>>) = Part(Q, ShadowedAt)
    BY <1>2, <1>5, <1>7
  <2>5. (IF e.ip = <<>> THEN c.addrs ELSE AddAll(c.addrs, {Hash[e.ip]}))
          = SketchOf(HashesOf(Q))
    BY <1>6, <1>7
  <2> QED BY <2>1, <2>2, <2>3, <2>4, <2>5
<1>9. CountIn(c, e) = Tally(Q)
  BY <1>8 DEF CountIn, Tally
<1> QED BY <1>9 DEF c, e, Q

(* The events of two rows, none of them in both.                           *)
LEMMA TallyJoins ==
  ASSUME TrafficInv, NEW P \in SUBSET DOMAIN log, NEW Q \in SUBSET DOMAIN log, P \cap Q = {}
  PROVE  MergeCounts(Tally(P), Tally(Q)) = Tally(P \cup Q)
<1> DEFINE N == Len(log)
           R == P \cup Q
           c == Tally(P)
           o == Tally(Q)
<1>1. N \in Nat /\ DOMAIN log = 1..N
  BY LogSpan
<1>2. Cardinality(R) = Cardinality(P) + Cardinality(Q)
  BY <1>1, TwoParts
<1>3. ASSUME NEW X PROVE Part(R, X) = Part(P, X) + Part(Q, X)
  <2> DEFINE A == P \cap X
             B == Q \cap X
  <2>1. A \in SUBSET (1..N) /\ B \in SUBSET (1..N) /\ A \cap B = {} /\ R \cap X = A \cup B
    BY <1>1
  <2> HIDE DEF A, B, N
  <2>2. Cardinality(A \cup B) = Cardinality(A) + Cardinality(B)
    <3>1. N \in Nat
      BY <1>1
    <3>2. A \in SUBSET (1..N)
      BY <2>1
    <3>3. B \in SUBSET (1..N)
      BY <2>1
    <3>4. A \cap B = {}
      BY <2>1
    <3> QED BY <3>1, <3>2, <3>3, <3>4, TwoParts
  <2> QED BY <2>1, <2>2 DEF Part, A, B
<1>4. MergeSketch(SketchOf(HashesOf(P)), SketchOf(HashesOf(Q))) = SketchOf(HashesOf(R))
  <2>1. AddressedAt(R) = AddressedAt(P) \cup AddressedAt(Q)
    BY DEF AddressedAt
  <2>2. HashesOf(R) = HashesOf(P) \cup HashesOf(Q)
    BY <2>1 DEF HashesOf
  <2>3. IsHashes(HashesOf(P)) /\ IsHashes(HashesOf(Q))
    BY HashesAre
  <2>4. MergeSketch(SketchOf(HashesOf(P)), SketchOf(HashesOf(Q)))
          = SketchOf(HashesOf(P) \cup HashesOf(Q))
    BY <2>3, SketchMerges
  <2> QED BY <2>2, <2>4
<1>5. /\ c.requests = Cardinality(P) /\ c.cookies = Part(P, CookieAt)
      /\ c.blocked = Part(P, Decided("block")) /\ c.limited = Part(P, Decided("ratelimit"))
      /\ c.shadowed = Part(P, ShadowedAt) /\ c.addrs = SketchOf(HashesOf(P))
  BY DEF Tally
<1>6. /\ o.requests = Cardinality(Q) /\ o.cookies = Part(Q, CookieAt)
      /\ o.blocked = Part(Q, Decided("block")) /\ o.limited = Part(Q, Decided("ratelimit"))
      /\ o.shadowed = Part(Q, ShadowedAt) /\ o.addrs = SketchOf(HashesOf(Q))
  BY DEF Tally
<1> HIDE DEF N, R, c, o
<1>7. /\ c.requests + o.requests = Cardinality(R)
      /\ c.cookies + o.cookies = Part(R, CookieAt)
      /\ c.blocked + o.blocked = Part(R, Decided("block"))
      /\ c.limited + o.limited = Part(R, Decided("ratelimit"))
      /\ c.shadowed + o.shadowed = Part(R, ShadowedAt)
  BY <1>2, <1>3, <1>5, <1>6
<1>8. MergeSketch(c.addrs, o.addrs) = SketchOf(HashesOf(R))
  BY <1>4, <1>5, <1>6
<1>9. MergeCounts(c, o) = Tally(R)
  BY <1>7, <1>8 DEF MergeCounts, Tally
<1> QED BY <1>9 DEF c, o, R

LEMMA TallyNone ==
  ASSUME TrafficInv, NEW P \in SUBSET DOMAIN log
  PROVE  /\ Tally({}) = NoCounts
         /\ Tally(P) = NoCounts => P = {}
         /\ Tally(P).requests = Cardinality(P) /\ Cardinality(P) \in Nat
<1>1. Cardinality({}) = 0
  BY FS_EmptySet
<1>2. IsFiniteSet(P)
  BY HashesAre
<1>3. Cardinality(P) \in Nat /\ (Cardinality(P) = 0 => P = {})
  BY <1>2, FS_CardinalityType, FS_EmptySet
<1>4. Tally(P).requests = Cardinality(P)
  BY DEF Tally
<1>5. NoCounts.requests = 0
  BY DEF NoCounts
<1>6. HashesOf({}) = {}
  BY DEF HashesOf, AddressedAt
<1>7. SketchOf({}) = NoSketch
  <2>1. 0 > SparseLimit => FALSE
    BY TA DEF TrafficAssumption
  <2>2. SketchOf({}) = Sparse({})
    BY <1>1, <2>1, SketchIs
  <2> QED BY <2>2 DEF Sparse, NoSketch, NoZeros
<1>8. \A X : Part({}, X) = 0
  <2> SUFFICES ASSUME NEW X PROVE Part({}, X) = 0
    OBVIOUS
  <2>1. {} \cap X = {}
    OBVIOUS
  <2> QED BY <2>1, <1>1 DEF Part
<1>9. Tally({}) = NoCounts
  BY <1>1, <1>6, <1>7, <1>8 DEF Tally, NoCounts
<1> QED BY <1>3, <1>4, <1>5, <1>9

(* Counts, of the events at some places, is what the row says of them.     *)
LEMMA CountsIs ==
  ASSUME TrafficInv, NEW P \in SUBSET DOMAIN log
  PROVE  /\ Counts(At(log, P)) = Tally(P)
         /\ At(log, P) = <<>> <=> P = {}
<1> DEFINE t == At(log, P)
           N == Len(log)
<1>1. log \in Seq(Events) /\ N \in Nat /\ DOMAIN log = 1..N /\ \A i \in 1..N : log[i] \in Events
  BY LogSpan
<1>2. t \in Seq(Events) /\ Len(t) = Cardinality(Taken(log, P))
  BY <1>1, AtLength
<1>3. Taken(log, P) = P
  BY DEF Taken
<1>4. ASSUME NEW X PROVE Cardinality(FoundIn(t, X)) = Cardinality({i \in P : log[i] \in X})
  <2>1. Cardinality(FoundIn(t, X)) = Cardinality(TakenOf(log, P, X))
    BY <1>1, AtCounts
  <2>2. TakenOf(log, P, X) = {i \in P : log[i] \in X}
    BY DEF TakenOf
  <2> QED BY <2>1, <2>2
<1>5. PICK h : Takes(t, log, Events, h, P \cap (1..N))
  BY <1>1, AtTakes
<1>6. /\ h \in [1..Len(t) -> P] /\ \A p \in P : \E j \in 1..Len(t) : h[j] = p
      /\ \A j \in 1..Len(t) : t[j] = log[h[j]]
  <2>1. P \cap (1..N) = P
    BY <1>1
  <2> HIDE DEF t
  <2> QED BY <2>1, <1>5 DEF Takes, Enumerates
<1> HIDE DEF t, N
<1>7. DOMAIN t = 1..Len(t) /\ \A j \in DOMAIN t : t[j] \in Events
  BY <1>2
<1>8. {Hash[t[i].ip] : i \in {j \in DOMAIN t : t[j].ip # <<>>}} = HashesOf(P)
  <2>1. ASSUME NEW j \in DOMAIN t, t[j].ip # <<>> PROVE Hash[t[j].ip] \in HashesOf(P)
    BY <2>1, <1>6, <1>7 DEF HashesOf, AddressedAt
  <2>2. ASSUME NEW p \in P, log[p].ip # <<>>
        PROVE  \E j \in DOMAIN t : t[j].ip # <<>> /\ Hash[t[j].ip] = Hash[log[p].ip]
    BY <2>2, <1>6, <1>7
  <2>3. \A x \in HashesOf(P) : \E p \in P : log[p].ip # <<>> /\ x = Hash[log[p].ip]
    BY DEF HashesOf, AddressedAt
  <2> QED BY <2>1, <2>2, <2>3
<1>9. CountOf(t, LAMBDA e : e.cookie) = Part(P, CookieAt)
  <2> DEFINE X == {e \in Events : e.cookie}
  <2>1. {i \in DOMAIN t : t[i].cookie} = FoundIn(t, X)
    BY <1>7 DEF FoundIn
  <2>2. {i \in P : log[i] \in X} = P \cap CookieAt
    BY <1>1 DEF CookieAt
  <2> HIDE DEF X
  <2> QED BY <2>1, <2>2, <1>4 DEF CountOf, Part
<1>10. CountOf(t, LAMBDA e : e.decision = "block") = Part(P, Decided("block"))
  <2> DEFINE X == {e \in Events : e.decision = "block"}
  <2>1. {i \in DOMAIN t : t[i].decision = "block"} = FoundIn(t, X)
    BY <1>7 DEF FoundIn
  <2>2. {i \in P : log[i] \in X} = P \cap Decided("block")
    BY <1>1 DEF Decided
  <2> HIDE DEF X
  <2> QED BY <2>1, <2>2, <1>4 DEF CountOf, Part
<1>11. CountOf(t, LAMBDA e : e.decision = "ratelimit") = Part(P, Decided("ratelimit"))
  <2> DEFINE X == {e \in Events : e.decision = "ratelimit"}
  <2>1. {i \in DOMAIN t : t[i].decision = "ratelimit"} = FoundIn(t, X)
    BY <1>7 DEF FoundIn
  <2>2. {i \in P : log[i] \in X} = P \cap Decided("ratelimit")
    BY <1>1 DEF Decided
  <2> HIDE DEF X
  <2> QED BY <2>1, <2>2, <1>4 DEF CountOf, Part
<1>12. CountOf(t, LAMBDA e : e.shadow # <<>>) = Part(P, ShadowedAt)
  <2> DEFINE X == {e \in Events : e.shadow # <<>>}
  <2>1. {i \in DOMAIN t : t[i].shadow # <<>>} = FoundIn(t, X)
    BY <1>7 DEF FoundIn
  <2>2. {i \in P : log[i] \in X} = P \cap ShadowedAt
    BY <1>1 DEF ShadowedAt
  <2> HIDE DEF X
  <2> QED BY <2>1, <2>2, <1>4 DEF CountOf, Part
<1>13. Counts(t) = Tally(P)
  BY <1>2, <1>3, <1>8, <1>9, <1>10, <1>11, <1>12 DEF Counts, Tally, SketchOf
<1>14. t = <<>> <=> P = {}
  <2>1. Cardinality(P) \in Nat /\ (Cardinality(P) = 0 <=> P = {})
    BY HashesAre, FS_CardinalityType, FS_EmptySet
  <2>2. t = <<>> <=> Len(t) = 0
    BY <1>2
  <2> QED BY <2>1, <2>2, <1>2, <1>3
<1> QED BY <1>13, <1>14 DEF t

-----------------------------------------------------------------------------
(* The window of the log, event after event.                               *)
IsGathered(f, events, m) ==
  f = [n \in 0..m |-> IF n = 0 THEN EmptyWindow ELSE AddEvent(f[n - 1], events[n])]

LEMMA GatheredSteps ==
  ASSUME NEW events, Len(events) \in Nat
  PROVE  \E f : IsGathered(f, events, Len(events)) /\ Gathered(events) = f[Len(events)]
<1> DEFINE N == Len(events)
           Good == {m \in 0..N : \E f : IsGathered(f, events, m)}
<1>1. 0 \in Good
  <2>1. IsGathered([n \in 0..0 |-> EmptyWindow], events, 0)
    BY DEF IsGathered
  <2> QED BY <2>1
<1>2. ASSUME NEW m \in 0..N, m # N, m \in Good PROVE m + 1 \in Good
  <2>1. PICK f : IsGathered(f, events, m)
    BY <1>2
  <2> DEFINE Step(v, n) == IF n = 0 THEN EmptyWindow
                           ELSE AddEvent(v[n - 1], events[n])
             w == [n \in 0..m+1 |-> IF n = m + 1 THEN Step(f, n) ELSE f[n]]
  <2>2. \A n \in 0..m : f[n] = Step(f, n)
    BY <2>1 DEF IsGathered
  <2>3. ASSUME NEW n \in 0..m+1 PROVE w[n] = Step(w, n)
    <3>1. CASE n = 0
      BY <3>1, <2>2
    <3>2. CASE n # 0
      <4>1. n - 1 \in 0..m /\ n - 1 \in 0..m+1 /\ n - 1 # m + 1
        BY <3>2
      <4>2. w[n - 1] = f[n - 1]
        BY <4>1
      <4>3. w[n] = Step(f, n)
        BY <2>2, <3>2
      <4> QED BY <4>2, <4>3, <3>2
    <3> QED BY <3>1, <3>2
  <2>4. IsGathered(w, events, m + 1)
    BY <2>3 DEF IsGathered
  <2>5. m + 1 \in 0..N
    BY <1>2
  <2> QED BY <2>4, <2>5
<1>3. N \in Good
  <2> HIDE DEF Good
  <2> QED BY <1>1, <1>2, Upwards
<1>4. PICK h : IsGathered(h, events, N)
  BY <1>3
<1> DEFINE g == CHOOSE f : IsGathered(f, events, N)
<1>5. IsGathered(g, events, N)
  BY <1>4
<1>6. Gathered(events) = g[N]
  BY DEF Gathered, IsGathered
<1> QED BY <1>5, <1>6

Keyed(n, k) == {i \in 1..n : KeyOf(log[i]) = k}
OutOf(n, ks) == {i \in 1..n : KeyOf(log[i]) \notin ks}

(* A row has the events of its key, the overflow all those that have no    *)
(* row; as long as there is room there are none.                           *)
Gathers(w, n) ==
  /\ w = [rows |-> w.rows, overflow |-> w.overflow]
  /\ IsFiniteSet(DOMAIN w.rows)
  /\ \A k \in DOMAIN w.rows : Keyed(n, k) # {} /\ w.rows[k] = Tally(Keyed(n, k))
  /\ w.overflow = Tally(OutOf(n, DOMAIN w.rows))
  /\ Cardinality(DOMAIN w.rows) < LiveLimit => OutOf(n, DOMAIN w.rows) = {}

(* The window of no event, and of one event more.                          *)
LEMMA GatherStarts ==
  ASSUME TrafficInv
  PROVE  Gathers(EmptyWindow, 0)
<1> DEFINE w == EmptyWindow
<1>1. w.rows = [k \in {} |-> NoCounts] /\ w.overflow = NoCounts
      /\ w = [rows |-> w.rows, overflow |-> w.overflow]
  BY DEF EmptyWindow
<1> HIDE DEF w
<1>2. DOMAIN w.rows = {}
  BY <1>1
<1>3. IsFiniteSet(DOMAIN w.rows)
  BY <1>2, FS_EmptySet
<1>4. OutOf(0, DOMAIN w.rows) = {}
  BY DEF OutOf
<1>5. Tally({}) = NoCounts
  <2>1. {} \in SUBSET DOMAIN log
    OBVIOUS
  <2> QED BY <2>1, TallyNone
<1>6. Gathers(w, 0)
  BY <1>1, <1>2, <1>3, <1>4, <1>5 DEF Gathers
<1> QED BY <1>6 DEF w

LEMMA KeyedGrows ==
  ASSUME NEW n \in Nat, NEW k
  PROVE  Keyed(n + 1, k) = IF KeyOf(log[n + 1]) = k THEN Keyed(n, k) \cup {n + 1} ELSE Keyed(n, k)
<1>1. 1..(n + 1) = (1..n) \cup {n + 1}
  OBVIOUS
<1> QED BY <1>1 DEF Keyed

LEMMA OutOfGrows ==
  ASSUME NEW n \in Nat, NEW D
  PROVE  OutOf(n + 1, D) = IF KeyOf(log[n + 1]) \in D THEN OutOf(n, D) ELSE OutOf(n, D) \cup {n + 1}
<1>1. 1..(n + 1) = (1..n) \cup {n + 1}
  OBVIOUS
<1> QED BY <1>1 DEF OutOf

LEMMA GatherAdds ==
  ASSUME TrafficInv, NEW n \in Nat, n + 1 <= Len(log), NEW w, Gathers(w, n)
  PROVE  Gathers(AddEvent(w, log[n + 1]), n + 1)
<1> DEFINE D == DOMAIN w.rows
           rs == w.rows
           ov == w.overflow
           e == log[n + 1]
           k == KeyOf(e)
           x == AddEvent(w, e)
<1>1. /\ n + 1 \in DOMAIN log /\ n + 1 \notin 1..n
      /\ \A j : Keyed(n, j) \in SUBSET DOMAIN log /\ n + 1 \notin Keyed(n, j)
      /\ \A ks : OutOf(n, ks) \in SUBSET DOMAIN log /\ n + 1 \notin OutOf(n, ks)
  BY LogSpan DEF Keyed, OutOf
<1>2. /\ w = [rows |-> rs, overflow |-> ov]
      /\ IsFiniteSet(D)
      /\ ov = Tally(OutOf(n, D))
      /\ Cardinality(D) < LiveLimit => OutOf(n, D) = {}
  BY DEF Gathers
<1>3. \A j \in D : Keyed(n, j) # {} /\ rs[j] = Tally(Keyed(n, j))
  BY DEF Gathers
<1>4. Cardinality(D) \in Nat /\ LiveLimit \in Nat
  BY <1>2, FS_CardinalityType, TA DEF TrafficAssumption
<1>5. CASE k \notin D /\ Cardinality(D) >= LiveLimit
  <2>1. x = [w EXCEPT !.overflow = CountIn(@, e)]
    BY <1>5 DEF AddEvent
  <2>2. x.rows = rs /\ x.overflow = CountIn(ov, e) /\ x = [rows |-> x.rows, overflow |-> x.overflow]
    <3> HIDE DEF x, rs, ov, e
    <3>1. w.overflow = ov
      BY DEF ov
    <3>2. x = [w EXCEPT !.overflow = CountIn(ov, e)]
      BY <2>1, <3>1
    <3>3. x = [rows |-> rs, overflow |-> CountIn(ov, e)]
      BY <3>2, <1>2
    <3> QED BY <3>3
  <2>3. OutOf(n + 1, D) = OutOf(n, D) \cup {n + 1}
    BY <1>5, OutOfGrows
  <2>4. CountIn(ov, e) = Tally(OutOf(n + 1, D))
    BY <1>1, <1>2, <2>3, TallyAdds
  <2>5. \A j \in D : Keyed(n + 1, j) = Keyed(n, j)
    BY <1>5, KeyedGrows
  <2> HIDE DEF x, e, k
  <2>6. ~(Cardinality(D) < LiveLimit)
    BY <1>4, <1>5
  <2>7. DOMAIN x.rows = D
    BY <2>2
  <2> HIDE DEF D
  <2>8. \A j \in D : Keyed(n + 1, j) # {} /\ x.rows[j] = Tally(Keyed(n + 1, j))
    BY <1>3, <2>2, <2>5
  <2>9. x.overflow = Tally(OutOf(n + 1, D))
    BY <2>2, <2>4
  <2>10. Gathers(x, n + 1)
    BY <2>2, <2>6, <2>7, <2>8, <2>9, <1>2 DEF Gathers
  <2> QED BY <2>10 DEF x, e
<1>6. CASE ~(k \notin D /\ Cardinality(D) >= LiveLimit)
  <2> DEFINE wider == D \cup {k}
             new == [j \in wider |-> IF j # k THEN rs[j]
                                 ELSE CountIn(IF k \in D THEN rs[k] ELSE NoCounts, e)]
  <2>1. x = [w EXCEPT !.rows = [j \in DOMAIN @ \cup {k} |->
               IF j # k THEN @[j] ELSE CountIn(IF k \in DOMAIN @ THEN @[k] ELSE NoCounts, e)]]
    BY <1>6 DEF AddEvent
  <2>2. x = [w EXCEPT !.rows = new]
    BY <2>1
  <2>3. x.rows = new /\ x.overflow = ov /\ x = [rows |-> x.rows, overflow |-> x.overflow]
    <3> HIDE DEF x, rs, ov, e, new
    <3>1. x = [rows |-> new, overflow |-> ov]
      BY <2>2, <1>2
    <3> QED BY <3>1
  <2>4. k \notin D => OutOf(n, D) = {}
    BY <1>2, <1>4, <1>6
  <2>5. k \notin D => Keyed(n, k) = {}
    BY <2>4 DEF Keyed, OutOf
  <2>6. OutOf(n + 1, wider) = OutOf(n, D)
    <3>1. OutOf(n + 1, wider) = OutOf(n, wider)
      BY OutOfGrows
    <3>2. CASE k \in D
      <4>1. wider = D
        BY <3>2
      <4> QED BY <4>1, <3>1
    <3>3. CASE k \notin D
      <4>1. OutOf(n, wider) \subseteq OutOf(n, D)
        BY DEF OutOf
      <4> QED BY <4>1, <3>1, <3>3, <2>4
    <3> QED BY <3>2, <3>3
  <2>7. Keyed(n + 1, k) = Keyed(n, k) \cup {n + 1}
    BY KeyedGrows
  <2>8. \A j \in D : j # k => Keyed(n + 1, j) = Keyed(n, j)
    BY KeyedGrows
  <2>9. new[k] = Tally(Keyed(n + 1, k))
    <3>1. CountIn(Tally(Keyed(n, k)), e) = Tally(Keyed(n + 1, k))
      BY <1>1, <2>7, TallyAdds
    <3>2. (IF k \in D THEN rs[k] ELSE NoCounts) = Tally(Keyed(n, k))
      <4>1. CASE k \in D
        BY <4>1, <1>3
      <4>2. CASE k \notin D
        <5>1. {} \in SUBSET DOMAIN log
          OBVIOUS
        <5>2. Tally({}) = NoCounts
          BY <5>1, TallyNone
        <5> QED BY <4>2, <5>2, <2>5
      <4> QED BY <4>1, <4>2
    <3>3. new[k] = CountIn(IF k \in D THEN rs[k] ELSE NoCounts, e)
      OBVIOUS
    <3> QED BY <3>1, <3>2, <3>3
  <2>10. \A j \in wider : j # k => new[j] = rs[j] /\ j \in D
    OBVIOUS
  <2>11. DOMAIN new = wider
    OBVIOUS
  <2> HIDE DEF new, x, e, k
  <2>12. \A j \in wider : Keyed(n + 1, j) # {} /\ new[j] = Tally(Keyed(n + 1, j))
    BY <1>3, <2>7, <2>8, <2>9, <2>10
  <2>13. IsFiniteSet(wider) /\ (Cardinality(wider) < LiveLimit => Cardinality(D) < LiveLimit)
    <3>1. IsFiniteSet(wider) /\ Cardinality(wider) = IF k \in D THEN Cardinality(D) ELSE Cardinality(D) + 1
      BY <1>2, FS_AddElement
    <3> QED BY <3>1, <1>4
  <2> HIDE DEF wider, D
  <2>14. DOMAIN x.rows = wider
    BY <2>3, <2>11
  <2>15. Gathers(x, n + 1)
    BY <2>3, <2>6, <2>12, <2>13, <2>14, <1>2 DEF Gathers
  <2> QED BY <2>15 DEF x, e
<1> QED BY <1>5, <1>6

LEMMA LogGathered ==
  ASSUME TrafficInv
  PROVE  Gathers(Gathered(log), Len(log))
<1> DEFINE N == Len(log)
           Good(f) == {n \in 0..N : Gathers(f[n], n)}
<1>1. N \in Nat
  BY LogSpan
<1>2. PICK f : IsGathered(f, log, N) /\ Gathered(log) = f[N]
  BY <1>1, GatheredSteps
<1> HIDE DEF N
<1>3. f[0] = EmptyWindow
  BY <1>1, <1>2 DEF IsGathered
<1>4. 0 \in Good(f)
  BY <1>1, <1>3, GatherStarts
<1>5. ASSUME NEW n \in 0..N, n # N, n \in Good(f) PROVE n + 1 \in Good(f)
  <2>1. n \in Nat /\ n + 1 \in 0..N /\ n + 1 <= N /\ (n + 1) - 1 = n /\ n + 1 # 0
    BY <1>1, <1>5
  <2>2. f[n + 1] = AddEvent(f[n], log[n + 1])
    BY <1>2, <2>1 DEF IsGathered
  <2>3. Gathers(f[n], n)
    BY <1>5
  <2>4. n + 1 <= Len(log)
    BY <2>1 DEF N
  <2>5. Gathers(AddEvent(f[n], log[n + 1]), n + 1)
    BY <2>1, <2>3, <2>4, GatherAdds
  <2> QED BY <2>1, <2>2, <2>5
<1>6. N \in Good(f)
  <2> DEFINE G == Good(f)
  <2>1. 0 \in G
    BY <1>4
  <2>2. \A n \in 0..N : n # N /\ n \in G => n + 1 \in G
    BY <1>5
  <2> HIDE DEF G
  <2> QED BY <1>1, <2>1, <2>2, Upwards DEF G
<1> QED BY <1>2, <1>6 DEF N

-----------------------------------------------------------------------------
(* The rows that stay.                                                     *)
AreLargest(ks, rs, m) ==
  /\ ks \in SUBSET DOMAIN rs /\ Cardinality(ks) = m
  /\ \A k \in ks, j \in DOMAIN rs \ ks : rs[k].requests >= rs[j].requests

LEMMA OneIsLargest ==
  ASSUME NEW rs, NEW J \in SUBSET DOMAIN rs, J # {}, NEW b \in Nat,
         \A k \in DOMAIN rs : rs[k].requests \in Nat /\ rs[k].requests <= b
  PROVE  \E k \in J : \A j \in J : rs[k].requests >= rs[j].requests
<1> DEFINE S == {rs[j].requests : j \in J}
<1>1. S \in SUBSET Int /\ S # {} /\ b \in Int /\ \A x \in S : x <= b
  OBVIOUS
<1>2. \A j \in J : rs[j].requests \in S
  OBVIOUS
<1>3. \A x \in S : \E j \in J : x = rs[j].requests
  OBVIOUS
<1> HIDE DEF S
<1>4. Max(S) \in S /\ \A x \in S : x <= Max(S)
  BY <1>1, MaxIs
<1>5. PICK k \in J : Max(S) = rs[k].requests
  BY <1>3, <1>4
<1>6. \A j \in J : rs[j].requests <= rs[k].requests
  BY <1>2, <1>4, <1>5
<1>7. \A j \in J : rs[j].requests \in Nat
  OBVIOUS
<1> QED BY <1>5, <1>6, <1>7

(* There are as many largest rows as are kept, since the rows are finitely *)
(* many.                                                                   *)
LEMMA LargestExist ==
  ASSUME NEW rs, IsFiniteSet(DOMAIN rs), NEW b \in Nat,
         \A k \in DOMAIN rs : rs[k].requests \in Nat /\ rs[k].requests <= b,
         NEW m \in 0..Cardinality(DOMAIN rs)
  PROVE  \E ks : AreLargest(ks, rs, m)
<1> DEFINE D == DOMAIN rs
           Good == {n \in 0..m : \E ks : AreLargest(ks, rs, n)}
<1>0. Cardinality(D) \in Nat /\ m \in Nat /\ m <= Cardinality(D)
  BY FS_CardinalityType
<1>1. 0 \in Good
  <2>1. AreLargest({}, rs, 0)
    BY FS_EmptySet DEF AreLargest
  <2> QED BY <2>1, <1>0
<1>2. ASSUME NEW n \in 0..m, n # m, n \in Good PROVE n + 1 \in Good
  <2>1. PICK ks : AreLargest(ks, rs, n)
    BY <1>2
  <2>2. ks \in SUBSET D /\ Cardinality(ks) = n
    BY <2>1 DEF AreLargest
  <2>3. IsFiniteSet(ks)
    BY <2>2, FS_Subset
  <2>4. D \ ks # {}
    BY <2>2, <1>0, <1>2
  <2>5. PICK k \in D \ ks : \A j \in D \ ks : rs[k].requests >= rs[j].requests
    <3>1. D \ ks \in SUBSET DOMAIN rs
      OBVIOUS
    <3> QED BY <2>4, <3>1, OneIsLargest
  <2>6. Cardinality(ks \cup {k}) = n + 1
    BY <2>2, <2>3, FS_AddElement
  <2>7. ks \cup {k} \in SUBSET DOMAIN rs
    BY <2>2
  <2>8. ASSUME NEW i \in ks \cup {k}, NEW j \in DOMAIN rs \ (ks \cup {k})
        PROVE  rs[i].requests >= rs[j].requests
    <3>1. CASE i = k
      BY <3>1, <2>5
    <3>2. CASE i \in ks
      BY <3>2, <2>1 DEF AreLargest
    <3> QED BY <3>1, <3>2
  <2>9. AreLargest(ks \cup {k}, rs, n + 1)
    BY <2>6, <2>7, <2>8 DEF AreLargest
  <2>10. n + 1 \in 0..m
    BY <1>0, <1>2
  <2> QED BY <2>9, <2>10
<1>3. m \in Good
  <2> HIDE DEF Good
  <2> QED BY <1>0, <1>1, <1>2, Upwards
<1> QED BY <1>3

LEMMA LogRows ==
  ASSUME TrafficInv, NEW w, Gathers(w, Len(log)), NEW k \in DOMAIN w.rows
  PROVE  /\ w.rows[k].requests \in Nat /\ w.rows[k].requests <= Len(log)
         /\ k # RestKey
<1> DEFINE N == Len(log)
           P == Keyed(N, k)
<1>1. /\ N \in Nat /\ DOMAIN log = 1..N /\ IsFiniteSet(1..N) /\ Cardinality(1..N) = N
      /\ P \in SUBSET (1..N)
  <2>1. N \in Nat /\ DOMAIN log = 1..N
    BY LogSpan
  <2> HIDE DEF N
  <2>2. IsFiniteSet(1..N) /\ Cardinality(1..N) = N
    BY <2>1, FS_Interval
  <2> QED BY <2>1, <2>2 DEF Keyed
<1>2. P # {} /\ w.rows[k] = Tally(P)
  BY DEF Gathers
<1>3. w.rows[k].requests = Cardinality(P) /\ Cardinality(P) \in Nat
  BY <1>1, <1>2, TallyNone
<1>4. Cardinality(P) <= N
  BY <1>1, FS_Subset
<1>5. PICK i \in 1..N : KeyOf(log[i]) = k
  BY <1>2 DEF Keyed
<1>6. log[i].rule \in Nat
  BY <1>5, LogSpan DEF Events
<1>7. k.rule \in Nat
  BY <1>5, <1>6 DEF KeyOf
<1>8. RestKey.rule = -1
  BY DEF RestKey
<1> QED BY <1>3, <1>4, <1>7, <1>8

LEMMA KeepIs ==
  ASSUME TrafficInv, NEW w, Gathers(w, Len(log))
  PROVE  /\ Keep(w) \in 0..Cardinality(DOMAIN w.rows)
         /\ \/ Keep(w) + 1 <= MaxRows
            \/ /\ Keep(w) = Cardinality(DOMAIN w.rows) /\ Keep(w) <= MaxRows
               /\ w.overflow = NoCounts
<1> DEFINE n == Cardinality(DOMAIN w.rows)
<1>1. n \in Nat /\ MaxRows \in Nat \ {0}
  <2>1. IsFiniteSet(DOMAIN w.rows)
    BY DEF Gathers
  <2> QED BY <2>1, FS_CardinalityType, TA DEF TrafficAssumption
<1>2. Keep(w) = IF n > MaxRows \/ (n = MaxRows /\ w.overflow # NoCounts) THEN MaxRows - 1 ELSE n
  BY DEF Keep
<1> HIDE DEF n
<1>3. Keep(w) \in 0..n
  BY <1>1, <1>2
<1>4. \/ Keep(w) + 1 <= MaxRows
      \/ Keep(w) = n /\ Keep(w) <= MaxRows /\ w.overflow = NoCounts
  BY <1>1, <1>2
<1> QED BY <1>3, <1>4 DEF n

LEMMA LargestIs ==
  ASSUME TrafficInv, NEW w, Gathers(w, Len(log))
  PROVE  AreLargest(Largest(w), w.rows, Keep(w))
<1> DEFINE rs == w.rows
           m == Keep(w)
<1>1. IsFiniteSet(DOMAIN rs)
  BY DEF Gathers
<1>2. m \in 0..Cardinality(DOMAIN rs)
  BY KeepIs
<1>3. Len(log) \in Nat
  BY LogSpan
<1>4. \A k \in DOMAIN rs : rs[k].requests \in Nat /\ rs[k].requests <= Len(log)
  BY LogRows
<1>5. PICK ks : AreLargest(ks, rs, m)
  <2> HIDE DEF rs, m
  <2> QED BY <1>1, <1>2, <1>3, <1>4, LargestExist
<1>6. ks \in kSubset(m, DOMAIN rs)
      /\ \A k \in ks, j \in DOMAIN rs \ ks : rs[k].requests >= rs[j].requests
  BY <1>5 DEF AreLargest, kSubset
<1> HIDE DEF m
<1>7. /\ Largest(w) \in kSubset(m, DOMAIN rs)
      /\ \A k \in Largest(w), j \in DOMAIN rs \ Largest(w) : rs[k].requests >= rs[j].requests
  BY <1>6 DEF Largest, m
<1>8. AreLargest(Largest(w), rs, m)
  BY <1>7 DEF AreLargest, kSubset
<1> QED BY <1>8 DEF rs, m

(* The other rows, one after another, go into the one of the rest.         *)
Leftover(w) == SetToSeq(DOMAIN w.rows \ Largest(w))
IsFolding(f, w, m) ==
  f = [n \in 0..m |-> IF n = 0 THEN w.overflow ELSE MergeCounts(f[n - 1], w.rows[Leftover(w)[n]])]

LEMMA FoldedSteps ==
  ASSUME NEW w, Len(Leftover(w)) \in Nat
  PROVE  \E f : IsFolding(f, w, Len(Leftover(w))) /\ Folded(w) = f[Len(Leftover(w))]
<1> DEFINE N == Len(Leftover(w))
           Good == {m \in 0..N : \E f : IsFolding(f, w, m)}
<1>1. 0 \in Good
  <2>1. IsFolding([n \in 0..0 |-> w.overflow], w, 0)
    BY DEF IsFolding
  <2> QED BY <2>1
<1>2. ASSUME NEW m \in 0..N, m # N, m \in Good PROVE m + 1 \in Good
  <2>1. PICK f : IsFolding(f, w, m)
    BY <1>2
  <2> DEFINE Step(v, n) == IF n = 0 THEN w.overflow
                           ELSE MergeCounts(v[n - 1], w.rows[Leftover(w)[n]])
             u == [n \in 0..m+1 |-> IF n = m + 1 THEN Step(f, n) ELSE f[n]]
  <2>2. \A n \in 0..m : f[n] = Step(f, n)
    BY <2>1 DEF IsFolding
  <2>3. ASSUME NEW n \in 0..m+1 PROVE u[n] = Step(u, n)
    <3>1. CASE n = 0
      BY <3>1, <2>2
    <3>2. CASE n # 0
      <4>1. n - 1 \in 0..m /\ n - 1 \in 0..m+1 /\ n - 1 # m + 1
        BY <3>2
      <4>2. u[n - 1] = f[n - 1]
        BY <4>1
      <4>3. u[n] = Step(f, n)
        BY <2>2, <3>2
      <4> QED BY <4>2, <4>3, <3>2
    <3> QED BY <3>1, <3>2
  <2>4. IsFolding(u, w, m + 1)
    BY <2>3 DEF IsFolding
  <2>5. m + 1 \in 0..N
    BY <1>2
  <2> QED BY <2>4, <2>5
<1>3. N \in Good
  <2> HIDE DEF Good
  <2> QED BY <1>1, <1>2, Upwards
<1>4. PICK h : IsFolding(h, w, N)
  BY <1>3
<1> DEFINE g == CHOOSE f : IsFolding(f, w, N)
<1>5. IsFolding(g, w, N)
  BY <1>4
<1>6. Folded(w) = g[N]
  BY DEF Folded, Leftover, IsFolding
<1> QED BY <1>5, <1>6

(* The other rows have an order, each once.                                *)
LEMMA SetInOrder ==
  ASSUME NEW S, IsFiniteSet(S)
  PROVE  LET s == SetToSeq(S) IN
         /\ Len(s) \in Nat /\ s \in [1..Len(s) -> S]
         /\ \A i, j \in 1..Len(s) : s[i] = s[j] => i = j
         /\ \A x \in S : \E i \in 1..Len(s) : s[i] = x
<1> DEFINE c == Cardinality(S)
           s == SetToSeq(S)
<1>1. c \in Nat /\ ExistsBijection(1..c, S)
  BY FS_CardinalityType
<1>2. PICK f : f \in Bijection(1..c, S)
  BY <1>1 DEF ExistsBijection
<1>3. f \in [1..c -> S] /\ IsInjective(f)
  BY <1>2 DEF Bijection, Injection, IsInjective
<1>4. s \in [1..c -> S] /\ IsInjective(s)
  BY <1>3 DEF SetToSeq
<1> HIDE DEF s, c
<1>5. Len(s) = c
  BY <1>1, <1>4
<1>6. s \in Injection(1..c, S)
  BY <1>4 DEF Injection, IsInjective
<1>7. Cardinality(1..c) = c
  BY <1>1, FS_Interval
<1>8. s \in Surjection(1..c, S)
  BY <1>6, <1>7, FS_Injection DEF c
<1>9. \A x \in S : \E i \in 1..c : s[i] = x
  BY <1>8 DEF Surjection
<1>10. \A i, j \in 1..c : s[i] = s[j] => i = j
  BY <1>4 DEF IsInjective
<1> QED BY <1>1, <1>4, <1>5, <1>9, <1>10 DEF s

LEMMA FoldedIs ==
  ASSUME TrafficInv, NEW w, Gathers(w, Len(log))
  PROVE  Folded(w) = Tally(OutOf(Len(log), Largest(w)))
<1> DEFINE N == Len(log)
           rs == w.rows
           D == DOMAIN w.rows
           R == D \ Largest(w)
           s == Leftover(w)
           c == Len(Leftover(w))
           Q(n) == OutOf(N, D) \cup {i \in 1..N : \E j \in 1..n : KeyOf(log[i]) = s[j]}
<1>1. N \in Nat /\ DOMAIN log = 1..N
  BY LogSpan
<1>2. IsFiniteSet(D) /\ w.overflow = Tally(OutOf(N, D))
  BY DEF Gathers
<1>3. \A k \in D : rs[k] = Tally(Keyed(N, k))
  BY DEF Gathers
<1>4. /\ c \in Nat /\ s \in [1..c -> R]
      /\ \A i, j \in 1..c : s[i] = s[j] => i = j
      /\ \A x \in R : \E i \in 1..c : s[i] = x
  <2>1. IsFiniteSet(R)
    BY <1>2, FS_Subset
  <2> HIDE DEF R
  <2>2. s = SetToSeq(R)
    BY DEF Leftover, R
  <2> HIDE DEF s
  <2>3. LET t == SetToSeq(R) IN
         /\ Len(t) \in Nat /\ t \in [1..Len(t) -> R]
         /\ \A i, j \in 1..Len(t) : t[i] = t[j] => i = j
         /\ \A x \in R : \E i \in 1..Len(t) : t[i] = x
    BY <2>1, SetInOrder
  <2>4. c = Len(s)
    BY DEF s
  <2> QED BY <2>2, <2>3, <2>4
<1>5. PICK f : IsFolding(f, w, c) /\ Folded(w) = f[c]
  BY <1>4, FoldedSteps
<1>6. f[0] = w.overflow
  BY <1>4, <1>5 DEF IsFolding
<1>7. \A n \in 1..c : f[n] = MergeCounts(f[n - 1], rs[s[n]])
  BY <1>4, <1>5 DEF IsFolding
<1>8. \A i \in 1..N : i \notin OutOf(N, D) => KeyOf(log[i]) \in D
  BY DEF OutOf
<1>9. OutOf(N, D) \in SUBSET DOMAIN log
  BY <1>1 DEF OutOf
<1>10. \A k \in D : OutOf(N, D) \cap Keyed(N, k) = {} /\ Keyed(N, k) \in SUBSET DOMAIN log
  BY <1>1 DEF OutOf, Keyed
<1>11. \A k : \A i \in 1..N : i \in Keyed(N, k) <=> KeyOf(log[i]) = k
  BY DEF Keyed
<1>12. Q(c) = OutOf(N, Largest(w))
  <2>1. Largest(w) \in SUBSET D
    BY LargestIs DEF AreLargest
  <2>2. ASSUME NEW i \in 1..N
        PROVE  i \in Q(c) <=> KeyOf(log[i]) \notin Largest(w)
    <3>1. KeyOf(log[i]) \notin D => i \in OutOf(N, D)
      BY DEF OutOf
    <3>2. i \in OutOf(N, D) => KeyOf(log[i]) \notin D
      BY DEF OutOf
    <3>3. KeyOf(log[i]) \in R => \E j \in 1..c : KeyOf(log[i]) = s[j]
      BY <1>4
    <3>4. (\E j \in 1..c : KeyOf(log[i]) = s[j]) => KeyOf(log[i]) \in R
      BY <1>4
    <3> QED BY <3>1, <3>2, <3>3, <3>4, <2>1
  <2>3. Q(c) \subseteq 1..N
    BY DEF OutOf
  <2>4. OutOf(N, Largest(w)) = {i \in 1..N : KeyOf(log[i]) \notin Largest(w)}
    BY DEF OutOf
  <2> HIDE DEF Q
  <2> QED BY <2>2, <2>3, <2>4
<1> DEFINE Good == {n \in 0..c : f[n] = Tally(Q(n))}
<1>13. 0 \in Good
  <2>1. Q(0) = OutOf(N, D)
    OBVIOUS
  <2> HIDE DEF Q
  <2> QED BY <2>1, <1>2, <1>4, <1>6
<1>14. ASSUME NEW n \in 0..c, n # c, n \in Good PROVE n + 1 \in Good
  <2> DEFINE k == s[n + 1]
  <2>1. n \in Nat /\ n + 1 \in 1..c /\ n + 1 \in 0..c /\ (n + 1) - 1 = n
    <3>1. c \in Nat /\ n \in 0..c /\ n # c
      BY <1>4, <1>14
    <3> HIDE DEF c
    <3> QED BY <3>1
  <2>2. k \in R /\ k \in D
    BY <1>4, <2>1
  <2>3. f[n + 1] = MergeCounts(f[n], rs[k])
    BY <1>7, <2>1
  <2>4. f[n] = Tally(Q(n))
    BY <1>14
  <2>5. rs[k] = Tally(Keyed(N, k))
    BY <1>3, <2>2
  <2>6. \A j \in 1..n : s[j] # k
    <3> SUFFICES ASSUME NEW j \in 1..n PROVE s[j] # k
      OBVIOUS
    <3>1. j \in 1..c /\ j # n + 1
      BY <2>1, <1>4
    <3> QED BY <3>1, <2>1, <1>4
  <2>7. Q(n) \in SUBSET DOMAIN log
    BY <1>1, <1>9
  <2>8. Q(n) \cap Keyed(N, k) = {}
    <3>1. ASSUME NEW i \in Q(n) PROVE i \notin Keyed(N, k)
      <4>1. CASE i \in OutOf(N, D)
        BY <4>1, <1>10, <2>2
      <4>2. CASE i \in 1..N /\ \E j \in 1..n : KeyOf(log[i]) = s[j]
        BY <4>2, <2>6, <1>11
      <4> QED BY <4>1, <4>2
    <3> HIDE DEF Q
    <3> QED BY <3>1
  <2>9. Q(n + 1) = Q(n) \cup Keyed(N, k)
    <3>1. 1..(n + 1) = (1..n) \cup {n + 1}
      BY <2>1
    <3>2. {i \in 1..N : \E j \in 1..(n + 1) : KeyOf(log[i]) = s[j]}
            = {i \in 1..N : \E j \in 1..n : KeyOf(log[i]) = s[j]} \cup Keyed(N, k)
      BY <3>1 DEF Keyed
    <3> QED BY <3>2
  <2> HIDE DEF Q, k
  <2>10. MergeCounts(Tally(Q(n)), Tally(Keyed(N, k))) = Tally(Q(n) \cup Keyed(N, k))
    <3>1. Keyed(N, k) \in SUBSET DOMAIN log
      BY <1>10, <2>2
    <3> DEFINE A == Q(n)
               B == Keyed(N, k)
    <3>2. A \in SUBSET DOMAIN log /\ B \in SUBSET DOMAIN log /\ A \cap B = {}
      BY <3>1, <2>7, <2>8
    <3> HIDE DEF A, B
    <3>3. MergeCounts(Tally(A), Tally(B)) = Tally(A \cup B)
      BY <3>2, TallyJoins
    <3> QED BY <3>3 DEF A, B
  <2>11. f[n + 1] = Tally(Q(n + 1))
    BY <2>3, <2>4, <2>5, <2>9, <2>10
  <2> QED BY <2>1, <2>11
<1>15. c \in Good
  <2> HIDE DEF Good, c
  <2> QED BY <1>4, <1>13, <1>14, Upwards
<1>16. f[c] = Tally(Q(c))
  BY <1>15
<1> HIDE DEF Q, c
<1> QED BY <1>5, <1>12, <1>16

(* A closed window says what is true of the log.                           *)
LEMMA AggregateHolds ==
  ASSUME TrafficInv
  PROVE  AggregateAgrees
<1> DEFINE w == Gathered(log)
           N == Len(log)
           L == Largest(w)
           folded == Folded(w)
           rows == Close(w)
           kept == DOMAIN rows \ {RestKey}
           O == OutOf(N, L)
<1>1. Gathers(w, N) /\ N \in Nat /\ DOMAIN log = 1..N
  BY LogGathered, LogSpan
<1>2. AreLargest(L, w.rows, Keep(w)) /\ folded = Tally(O)
  BY <1>1, LargestIs, FoldedIs
<1>3. rows = [k \in L \cup (IF folded = NoCounts THEN {} ELSE {RestKey}) |->
                IF k = RestKey THEN folded ELSE w.rows[k]]
  BY DEF Close
<1>4. O \in SUBSET DOMAIN log
  BY <1>1 DEF OutOf
<1>5. folded = NoCounts <=> O = {}
  BY <1>2, <1>4, TallyNone
<1>6. \A k \in L : k \in DOMAIN w.rows /\ k # RestKey
  <2>1. \A k \in L : k \in DOMAIN w.rows
    BY <1>2 DEF AreLargest
  <2> QED BY <2>1, <1>1, LogRows
<1>7. \A k \in DOMAIN w.rows : w.rows[k] = Tally(Keyed(N, k))
  BY <1>1 DEF Gathers
<1>8. w.overflow = Tally(OutOf(N, DOMAIN w.rows)) /\ IsFiniteSet(DOMAIN w.rows)
  BY <1>1 DEF Gathers
<1>9. /\ Keep(w) \in 0..Cardinality(DOMAIN w.rows)
      /\ \/ Keep(w) + 1 <= MaxRows
         \/ /\ Keep(w) = Cardinality(DOMAIN w.rows) /\ Keep(w) <= MaxRows
            /\ w.overflow = NoCounts
  BY <1>1, KeepIs
<1>10. /\ L \in SUBSET DOMAIN w.rows /\ Cardinality(L) = Keep(w) /\ IsFiniteSet(L)
  <2>1. L \in SUBSET DOMAIN w.rows /\ Cardinality(L) = Keep(w)
    BY <1>2 DEF AreLargest
  <2> QED BY <2>1, <1>8, FS_Subset
<1>11. Keep(w) \in Nat /\ MaxRows \in Nat
  BY <1>9, TA DEF TrafficAssumption
<1> HIDE DEF w, N, L, folded
<1>12. DOMAIN rows = L \cup (IF folded = NoCounts THEN {} ELSE {RestKey})
  BY <1>3
<1>13. kept = L
  BY <1>6, <1>12
<1>14. Cardinality(DOMAIN rows) <= MaxRows
  <2>1. CASE folded = NoCounts
    <3>1. DOMAIN rows = L
      BY <2>1, <1>12
    <3> HIDE DEF rows
    <3> QED BY <3>1, <1>9, <1>10, <1>11
  <2>2. CASE folded # NoCounts
    <3>1. DOMAIN rows = L \cup {RestKey} /\ RestKey \notin L
      BY <2>2, <1>6, <1>12
    <3>2. Cardinality(L \cup {RestKey}) = Keep(w) + 1
      BY <3>1, <1>10, FS_AddElement
    <3>3. CASE Keep(w) + 1 <= MaxRows
      BY <3>1, <3>2, <3>3
    <3>4. CASE Keep(w) = Cardinality(DOMAIN w.rows) /\ w.overflow = NoCounts
      <4>1. L = DOMAIN w.rows
        <5> DEFINE D == DOMAIN w.rows
        <5>1. IsFiniteSet(D) /\ L \in SUBSET D /\ Cardinality(D) = Cardinality(L)
          BY <3>4, <1>8, <1>10
        <5> HIDE DEF D
        <5>2. D = L
          BY <5>1, FS_Subset
        <5> QED BY <5>2 DEF D
      <4>2. Tally(O) = NoCounts
        BY <4>1, <3>4, <1>8
      <4> QED BY <4>2, <2>2, <1>2
    <3> QED BY <3>3, <3>4, <1>9
  <2> QED BY <2>1, <2>2
<1>15. ASSUME NEW k \in L
       PROVE  rows[k] = Counts(At(log, {i \in DOMAIN log : KeyOf(log[i]) \in {k}}))
  <2>1. {i \in DOMAIN log : KeyOf(log[i]) \in {k}} = Keyed(N, k)
    BY <1>1 DEF Keyed
  <2>2. Keyed(N, k) \in SUBSET DOMAIN log
    BY <1>1 DEF Keyed
  <2>3. Counts(At(log, Keyed(N, k))) = Tally(Keyed(N, k))
    BY <2>2, CountsIs
  <2>4. rows[k] = w.rows[k]
    BY <1>3, <1>6
  <2>5. w.rows[k] = Tally(Keyed(N, k))
    BY <1>6, <1>7
  <2> QED BY <2>1, <2>3, <2>4, <2>5
<1>16. {i \in DOMAIN log : KeyOf(log[i]) \notin kept} = O
  BY <1>1, <1>13 DEF OutOf
<1>17. Counts(At(log, O)) = Tally(O) /\ (At(log, O) = <<>> <=> O = {})
  BY <1>4, CountsIs
<1>18. At(log, O) = <<>> => RestKey \notin DOMAIN rows
  BY <1>5, <1>6, <1>12, <1>17
<1>19. At(log, O) # <<>> => RestKey \in DOMAIN rows /\ rows[RestKey] = folded
  <2>1. At(log, O) # <<>> => folded # NoCounts
    BY <1>5, <1>17
  <2> QED BY <2>1, <1>3
<1>20. At(log, O) # <<>> => RestKey \in DOMAIN rows /\ rows[RestKey] = Counts(At(log, O))
  BY <1>2, <1>17, <1>19
<1> HIDE DEF O
<1>21. LET r == Close(Gathered(log))
           ks == DOMAIN r \ {RestKey}
           others == At(log, {i \in DOMAIN log : KeyOf(log[i]) \notin ks})
       IN /\ Cardinality(DOMAIN r) <= MaxRows
          /\ \A k \in ks : r[k] = Counts(At(log, {i \in DOMAIN log : KeyOf(log[i]) \in {k}}))
          /\ IF others = <<>> THEN RestKey \notin DOMAIN r
             ELSE RestKey \in DOMAIN r /\ r[RestKey] = Counts(others)
  <2> HIDE DEF rows
  <2>1. rows = Close(Gathered(log))
    BY DEF rows, w
  <2>2. \A k \in kept : rows[k] = Counts(At(log, {i \in DOMAIN log : KeyOf(log[i]) \in {k}}))
    BY <1>13, <1>15
  <2> QED BY <2>1, <2>2, <1>14, <1>16, <1>18, <1>20
<1> QED BY <1>21 DEF AggregateAgrees

-----------------------------------------------------------------------------
(* Each of the invariants, of a behaviour of Traffic in NodeRecords.       *)
TrafficPartInv == part = "traffic" => ReplayInv

LEMMA TrafficPartStarts ==
  ASSUME NodeInit
  PROVE  TrafficPartInv
<1> SUFFICES ASSUME part = "traffic" PROVE ReplayInv
  BY DEF TrafficPartInv
<1>1. Init
  BY DEF NodeInit
<1> QED BY <1>1, InvStarts, QueuedStarts DEF ReplayInv

LEMMA TrafficPartSteps ==
  ASSUME TrafficPartInv, [NodeNext]_all
  PROVE  TrafficPartInv'
<1> SUFFICES ASSUME part' = "traffic" PROVE ReplayInv'
  BY DEF TrafficPartInv
<1>1. part = "traffic"
  BY DEF NodeNext, FactsStep, EventsStep, TrafficStep, Over, all
<1>2. ReplayInv
  BY <1>1 DEF TrafficPartInv
<1>3. [Next]_vars
  <2>1. CASE TrafficStep
    BY <2>1 DEF TrafficStep
  <2>2. CASE UNCHANGED all
    BY <2>2 DEF all, ofTraffic, vars, order
  <2>3. CASE FactsStep \/ EventsStep
    BY <2>3, <1>1 DEF FactsStep, EventsStep
  <2>4. CASE Over
    BY <2>4, <2>2 DEF Over
  <2> QED BY <2>1, <2>2, <2>3, <2>4 DEF NodeNext
<1> QED BY <1>2, <1>3, StepPlays

LEMMA TrafficPartAlways == NodeSpec => []TrafficPartInv
<1>1. NodeInit => TrafficPartInv
  BY TrafficPartStarts
<1>2. TrafficPartInv /\ [NodeNext]_all => TrafficPartInv'
  BY TrafficPartSteps
<1> QED BY <1>1, <1>2, PTL DEF NodeSpec

(* replay.Run: a replay of the whole log with the rules in force, their    *)
(* lines in either of two orders, finds the rule and the shadows of every  *)
(* request the node put through the rules, and the node's decision; except *)
(* where a request that passed before the rules, of the own networks or a  *)
(* verified crawler, which a replay decides too, was counted under the     *)
(* same key. This is as long as no other list was in force and the         *)
(* requests were written in the order they were decided.                   *)
THEOREM ReplayAlwaysAgreesHolds == NodeSpec => []ReplayAlwaysAgrees
<1>1. TrafficPartInv => ReplayAlwaysAgrees
  BY ReplayHolds DEF TrafficPartInv, ReplayAlwaysAgrees
<1> QED BY <1>1, TrafficPartAlways, PTL

(* replay.Run: what a replay counts for a rule in shadow mode is what it   *)
(* would count for the rule turned on, and the other way round, whatever   *)
(* else is in the list.                                                    *)
THEOREM ShadowsForetellHolds == NodeSpec => []ShadowsForetell
<1>1. TrafficPartInv => ShadowsForetell
  BY ShadowsHold DEF TrafficPartInv, ShadowsForetell, ReplayInv
<1> QED BY <1>1, TrafficPartAlways, PTL

(* The summary, the filter of events and the series, which count the same  *)
(* log with different code, come to the same numbers; a replay of the      *)
(* whole log refuses as many requests as the node did, and those the rules *)
(* refuse of the requests that passed before them.                         *)
THEOREM AllNumbersAgreeHolds == NodeSpec => []AllNumbersAgree
<1>1. TrafficPartInv => AllNumbersAgree
  BY NumbersHold DEF TrafficPartInv, AllNumbersAgree
<1> QED BY <1>1, TrafficPartAlways, PTL

(* summary.go: a summary that does not say it is truncated counts in each  *)
(* breakdown every event and every address of every value, and a           *)
(* percentile is off by no more than a slot.                               *)
THEOREM SummariesAreWholeHolds == NodeSpec => []SummariesAreWhole
<1>1. TrafficPartInv => SummariesAreWhole
  BY SummaryHolds DEF TrafficPartInv, SummariesAreWhole, ReplayInv
<1> QED BY <1>1, TrafficPartAlways, PTL

(* window.close: what goes out has MaxRows rows or fewer, a row says what  *)
(* is true of the events of its key, and the row of the rest what is true  *)
(* of all the others.                                                      *)
THEOREM AggregatesAgreeHolds == NodeSpec => []AggregatesAgree
<1>1. TrafficPartInv => AggregatesAgree
  BY AggregateHolds DEF TrafficPartInv, AggregatesAgree, ReplayInv
<1> QED BY <1>1, TrafficPartAlways, PTL

(* ClientAddr: what a client puts in front of the chain of addresses does  *)
(* not change the address the log has, unless all that wrote the rest of   *)
(* the chain are trusted.                                                  *)
THEOREM ChainsAreNotForgedHolds == NodeSpec => []ChainsAreNotForged
<1>1. TrafficPartInv => ChainsAreNotForged
  BY ChainHolds DEF TrafficPartInv, ChainsAreNotForged, ReplayInv
<1> QED BY <1>1, TrafficPartAlways, PTL

(* The pages of a filter, asked for by next_before one after another, have *)
(* every event that matches once, the newest first, when the events were   *)
(* written in the order they came and no two at one moment.                *)
THEOREM NoPageMissesHolds == NodeSpec => []NoPageMisses
<1>1. TrafficPartInv => NoPageMisses
  BY PagesHold DEF TrafficPartInv, NoPageMisses, ReplayInv
<1> QED BY <1>1, TrafficPartAlways, PTL

(* Of the orders of the lines the run has two, and of the pages two sizes. *)
ReplayInAnyOrder ==
  part = "traffic" /\ Settled /\ reloads = 0 /\ ~overtaken =>
    \A g \in Bijection(DOMAIN list, DOMAIN list) :
      DecidesAlike(Replay([i \in DOMAIN list |-> list[g[i]]], log))

LEMMA OrderedLinesReplay ==
  ASSUME ReplayInv, Settled, reloads = 0, ~overtaken, NEW g \in Bijection(DOMAIN list, DOMAIN list)
  PROVE  DecidesAlike(Replay([i \in DOMAIN list |-> list[g[i]]], log))
<1> DEFINE N == Len(list)
           l == [i \in DOMAIN list |-> list[g[i]]]
<1>1. list \in Seq(Rules) /\ Builds(list)
  BY DEF ReplayInv, TrafficInv, TrafficTypes
<1>2. Numbered(list) /\ DOMAIN list = 1..N /\ N \in Nat
  BY <1>1, BuiltIsNumbered
<1>3. g \in [1..N -> 1..N] /\ (\A i, j \in 1..N : g[i] = g[j] => i = j)
      /\ \A j \in 1..N : \E i \in 1..N : g[i] = j
  BY <1>2 DEF Bijection, Injection, Surjection, IsInjective
<1> DEFINE h == [j \in 1..N |-> CHOOSE i \in 1..N : g[i] = j]
<1>4. \A j \in 1..N : h[j] \in 1..N /\ g[h[j]] = j
  BY <1>3
<1>5. \A i \in 1..N : g[i] \in 1..N /\ h[g[i]] = i
  BY <1>3, <1>4
<1>6. h \in [1..N -> 1..N]
  BY <1>4
<1>7. l \in Seq(Rules) /\ Len(l) = N /\ DOMAIN l = 1..N /\ \A i \in 1..N : l[i] = list[g[i]]
  <2>1. l \in [1..N -> Rules] /\ \A i \in 1..N : l[i] = list[g[i]]
    BY <1>1, <1>2, <1>3
  <2> HIDE DEF l
  <2> QED BY <2>1, <1>2
<1> HIDE DEF h, l
<1>8. Effective(l) = Effective(list)
  <2>1. Reorders(l, list, g, h)
    BY <1>3, <1>4, <1>5, <1>6, <1>7 DEF Reorders
  <2> QED BY <2>1, <1>2, EffectivePermuted
<1>9. DecidesAlike(Replay(l, log))
  BY <1>8, WholeReplayed
<1> QED BY <1>9 DEF l

(* replay.Run: whatever order the lines of the rules in force are in, a    *)
(* replay of them over the whole log finds the rule and the shadows of     *)
(* every request the node put through the rules; and the node's decision,  *)
(* when no request that passed before the rules, which a replay decides    *)
(* too, was counted under the key of that one.                             *)
THEOREM ReplayInAnyOrderHolds == NodeSpec => []ReplayInAnyOrder
<1>1. TrafficPartInv => ReplayInAnyOrder
  BY OrderedLinesReplay DEF TrafficPartInv, ReplayInAnyOrder
<1> QED BY <1>1, TrafficPartAlways, PTL

NoPageOfAnySizeMisses ==
  part = "traffic" /\ Ascends(log) =>
    \A n \in Nat \ {0} : \A decision :
      LET f == [AnyEvent EXCEPT !.decision = decision]
      IN Pages(log, f, n) = Reverse(Filtered(log, f))

(* The pages of any one size, asked for by next_before one after another,  *)
(* have every event of a decision once, the newest first, when the events  *)
(* were written in the order they came and no two at one moment.           *)
THEOREM NoPageOfAnySizeMissesHolds == NodeSpec => []NoPageOfAnySizeMisses
<1>1. TrafficPartInv => NoPageOfAnySizeMisses
  BY PagesOfAnySize DEF TrafficPartInv, NoPageOfAnySizeMisses, ReplayInv
<1> QED BY <1>1, TrafficPartAlways, PTL
=============================================================================
