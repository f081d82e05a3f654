----------------------------- MODULE RateLimiter -----------------------------
(***************************************************************************)
(* rules.Windows, the limiter behind a ratelimit rule: one shard of it,    *)
(* the handlers that ask it and the cleanup. A handler takes the time of   *)
(* its request when the request arrives and asks later, so two requests    *)
(* may reach the limiter in the other order. Time is counted in steps, and *)
(* the window of the rule is Window steps long.                            *)
(***************************************************************************)
EXTENDS Integers, Sequences, FiniteSets

CONSTANTS
  Keys,        (* the clients that fall into one shard                     *)
  Workers,     (* requests served at the same time                         *)
  Limits,      (* the limits the rule may be given                         *)
  Window,      (* the window of the rule                                   *)
  MaxTime,     (* bound: the last moment                                   *)
  MaxDelay,    (* how long a request may take to its decision              *)
  Initial,     (* initialCapacity: what a ring starts with, 8 in the code  *)
  MaxKeys      (* maxKeysPerShard                                          *)

ASSUME RateLimiterAssumption ==
  /\ IsFiniteSet(Keys)
  /\ Limits \subseteq Nat \ {0} /\ Limits # {}
  /\ Window \in Nat \ {0}
  /\ MaxTime \in Nat
  /\ MaxDelay \in Nat
  /\ Initial \in Nat \ {0}
  /\ MaxKeys \in Nat \ {0}

Time == 0..MaxTime
Request == [key: Keys, at: Time, limit: Limits]
Idle == [key |-> "none", at |-> 0, limit |-> 0]

VARIABLES
  now,        \* the wall clock
  limit,      \* the limit of the rule in force
  serving,    \* the request each handler is about to decide
  entries,    \* shard.entries, a map
  verdict,    \* the last answer
  passed,     \* history: per key, what was let through since a limit changed
  decided,    \* history: per key, the latest time decided
  overtaken   \* history: the keys a request of which was overtaken, by one
              \* that came later or by the cleanup

order == <<decided, overtaken>>
vars == <<now, limit, serving, entries, verdict, passed, order>>

-----------------------------------------------------------------------------
(* The ring of an entry.                                                   *)

Lesser(a, b) == IF a < b THEN a ELSE b

Fresh(l) ==
  [stamps |-> [i \in 1..Lesser(l, Initial) |-> 0], start |-> 0, length |-> 0,
   limit |-> l, last |-> 0]

(* Where the i-th stamp from the start lies; 0 is the first.               *)
Slot(e, i) == ((e.start + i) % Len(e.stamps)) + 1
At(e, i) == e.stamps[Slot(e, i)]

(* How many stamps lie in front of the first one inside the window.        *)
Expired(e, boundary) ==
  Cardinality({i \in 0..(e.length - 1) : \A j \in 0..i : At(e, j) <= boundary})

(* Mutant of Evicted: the start stays where it was.                        *)
EvictedInPlace(e, boundary) ==
  [e EXCEPT !.length = e.length - Expired(e, boundary)]

(* "Throw away everything that fell out of the window."                    *)
Evicted(e, boundary) ==
  [e EXCEPT !.start = (e.start + Expired(e, boundary)) % Len(e.stamps),
            !.length = e.length - Expired(e, boundary)]

(* Mutant of Grown: the ring is copied from its first slot.                *)
GrownFromFirst(e) ==
  IF e.length < Len(e.stamps) THEN e
  ELSE [e EXCEPT !.stamps = [i \in 1..Lesser(2 * Len(e.stamps), e.limit) |->
                               IF i <= e.length THEN e.stamps[i] ELSE 0],
                 !.start = 0]

(* Mutant of Grown: doubled past the limit.                                *)
GrownUnbounded(e) ==
  IF e.length < Len(e.stamps) THEN e
  ELSE [e EXCEPT !.stamps = [i \in 1..(2 * Len(e.stamps)) |->
                               IF i <= e.length THEN At(e, i - 1) ELSE 0],
                 !.start = 0]

(* grow: a full ring is doubled, up to the limit, its stamps in order.     *)
Grown(e) ==
  IF e.length < Len(e.stamps) THEN e
  ELSE [e EXCEPT !.stamps = [i \in 1..Lesser(2 * Len(e.stamps), e.limit) |->
                               IF i <= e.length THEN At(e, i - 1) ELSE 0],
                 !.start = 0]

(* The stamp of a request that was let through.                            *)
Push(e, t) ==
  LET g == Grown(e)
  IN [g EXCEPT !.stamps[Slot(g, g.length)] = t, !.length = @ + 1]

-----------------------------------------------------------------------------
Init ==
  /\ now = 0
  /\ limit \in Limits
  /\ serving = [w \in Workers |-> Idle]
  /\ entries = <<>>
  /\ verdict = [key |-> "none", at |-> 0, exceeded |-> FALSE]
  /\ passed = [k \in Keys |-> [limit |-> 0, times |-> <<>>]]
  /\ decided = [k \in Keys |-> 0]
  /\ overtaken = {}

(* A handler has only the facts and the rules to look up in between.       *)
Tick ==
  /\ now < MaxTime
  /\ \A w \in Workers : serving[w] # Idle => now < serving[w].at + MaxDelay
  /\ now' = now + 1
  /\ UNCHANGED <<limit, serving, entries, verdict, passed, order>>

(* The rule is edited.                                                     *)
ChangeLimit ==
  /\ \E l \in Limits : l # limit /\ limit' = l
  /\ UNCHANGED <<now, serving, entries, verdict, passed, order>>

(* A request arrives: its time is taken, and the rule set that decides it. *)
Arrive(w, k) ==
  /\ serving[w] = Idle
  /\ serving' = [serving EXCEPT ![w] = [key |-> k, at |-> now, limit |-> limit]]
  /\ UNCHANGED <<now, limit, entries, verdict, passed, order>>

Store(k, e) == entries' = [x \in DOMAIN entries \cup {k} |-> IF x = k THEN e ELSE entries[x]]

Answered(w, exceeded) ==
  /\ verdict' = [key |-> serving[w].key, at |-> serving[w].at, exceeded |-> exceeded]
  /\ serving' = [serving EXCEPT ![w] = Idle]
  /\ LET q == serving[w] IN
       /\ overtaken' = IF q.at < decided[q.key] THEN overtaken \cup {q.key} ELSE overtaken
       /\ decided' = [decided EXCEPT ![q.key] = IF q.at < @ THEN @ ELSE q.at]

(* The entry of a request's key, emptied when the limit is another one.    *)
EntryFor(q) ==
  LET e == IF q.key \in DOMAIN entries /\ entries[q.key].limit = q.limit
           THEN entries[q.key] ELSE Fresh(q.limit)
  IN Evicted([e EXCEPT !.last = q.at], q.at - Window)

(* Mutant of Full: one key more than the shard may have.                   *)
FullTooLate(q) == q.key \notin DOMAIN entries /\ Cardinality(DOMAIN entries) > MaxKeys

(* "An overflow is no reason to refuse service."                           *)
Full(q) == q.key \notin DOMAIN entries /\ Cardinality(DOMAIN entries) >= MaxKeys

PassedSoFar(q) == IF passed[q.key].limit = q.limit THEN passed[q.key].times ELSE <<>>
Record(q, times) == passed' = [passed EXCEPT ![q.key] = [limit |-> q.limit, times |-> times]]

(* Mutant of Exceeded: a refused request is counted too.                   *)
ExceededCountingAll(w) ==
  LET q == serving[w]
      e == EntryFor(q)
  IN /\ q # Idle
     /\ ~Full(q)
     /\ Store(q.key, IF e.length >= q.limit THEN Push(Evicted(e, At(e, 0)), q.at)
                                            ELSE Push(e, q.at))
     /\ Record(q, IF e.length >= q.limit THEN PassedSoFar(q)
                                         ELSE Append(PassedSoFar(q), q.at))
     /\ Answered(w, e.length >= q.limit)
     /\ UNCHANGED <<now, limit>>

(* Windows.Exceeded, under the lock of the shard.                          *)
Exceeded(w) ==
  LET q == serving[w]
      e == EntryFor(q)
  IN /\ q # Idle
     /\ \/ /\ Full(q)
           /\ Answered(w, FALSE)
           /\ UNCHANGED <<entries, passed>>
        \/ /\ ~Full(q) /\ e.length >= q.limit
           /\ Store(q.key, e)
           /\ Record(q, PassedSoFar(q))
           /\ Answered(w, TRUE)
        \/ /\ ~Full(q) /\ e.length < q.limit
           /\ Store(q.key, Push(e, q.at))
           /\ Record(q, Append(PassedSoFar(q), q.at))
           /\ Answered(w, FALSE)
     /\ UNCHANGED <<now, limit>>

(* Nothing was asked of the entry for longer than its window.              *)
Stale(e) == now - e.last > Window

(* A request under way came when the last one of its key still counted.    *)
Misses(q, k) == q # Idle /\ q.key = k /\ q.at - Window < entries[k].last

(* One tick of Cleanup over the shard.                                     *)
Sweep ==
  LET stale == {k \in DOMAIN entries : Stale(entries[k])}
  IN /\ stale # {}
     /\ entries' = [k \in DOMAIN entries \ stale |-> entries[k]]
     /\ overtaken' = overtaken \cup {k \in stale : \E w \in Workers : Misses(serving[w], k)}
     /\ UNCHANGED <<now, limit, serving, verdict, passed, decided>>

Next ==
  \/ Tick \/ ChangeLimit \/ Sweep
  \/ \E w \in Workers : Exceeded(w) \/ \E k \in Keys : Arrive(w, k)

Spec == Init /\ [][Next]_vars

-----------------------------------------------------------------------------
(* Properties.                                                             *)

Entry == [stamps: Seq(Time), start: Nat, length: Nat, limit: Limits, last: Time]

(* A ring is never longer than the limit, and start and length stay inside *)
(* it: an index the code computes is one of the ring.                      *)
RingOK(e) ==
  /\ e \in Entry
  /\ Len(e.stamps) \in 1..e.limit
  /\ e.start < Len(e.stamps)
  /\ e.length <= Len(e.stamps)

(* The type of every variable the code keeps, and of the rings.            *)
TypeOK ==
  /\ now \in Time
  /\ limit \in Limits
  /\ serving \in [Workers -> Request \cup {Idle}]
  /\ DOMAIN entries \subseteq Keys
  /\ \A k \in DOMAIN entries : RingOK(entries[k])

(* "MaxKeys bounds the memory": no more entries than the shard may have.   *)
MemoryBounded == Cardinality(DOMAIN entries) <= MaxKeys

(* The times of key k let through in the window that ends at t.            *)
InWindow(k, t) ==
  {i \in DOMAIN passed[k].times :
     t - Window < passed[k].times[i] /\ passed[k].times[i] <= t}

(* A limit of L a minute: no minute, whenever it begins, has let more than *)
(* L requests of one key through that were counted, as long as they were   *)
(* decided in the order they came and none while the cleanup forgot what   *)
(* it was to be counted with.                                              *)
RateHolds ==
  \A k \in Keys \ overtaken, t \in Time :
    InWindow(k, t) # {} => Cardinality(InWindow(k, t)) <= passed[k].limit

(* limit.go:86: a client must not "stay under the ban even after it        *)
(* stopped being frequent": a refused request always has one before it     *)
(* that was let through within the window, however requests overtake.      *)
BanEnds ==
  [][\A w \in Workers :
       serving[w] # Idle /\ serving'[w] = Idle /\ verdict'.exceeded =>
         \E i \in DOMAIN PassedSoFar(serving[w]) :
           PassedSoFar(serving[w])[i] > serving[w].at - Window]_vars

(* Decided in the order they came, the requests of a key are answered as a *)
(* sliding window answers them.                                            *)
Abstract == INSTANCE SlidingWindow WITH taken <- passed, Times <- Time
ImplementsSlidingWindow ==
  /\ Abstract!Init
  /\ [][Abstract!Next \/ verdict'.key \in overtaken']_<<passed, verdict>>
=============================================================================
