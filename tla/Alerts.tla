-------------------------------- MODULE Alerts --------------------------------
(***************************************************************************)
(* alerts.Watcher counts finished requests by the minute in a ring, checks *)
(* its triggers once a minute, and hands what fires or is over to the      *)
(* owner's command. One of the triggers is that the event log loses        *)
(* events. The counts, the triggers and the messages live in memory only:  *)
(* what is modelled is one life of the process, which starts at any time.  *)
(*                                                                         *)
(* A slot of the ring is the set of the requests counted in it.            *)
(***************************************************************************)
EXTENDS Integers, Sequences, FiniteSets, SequencesExt

CONSTANTS
  Requests,          (* requests that come in                              *)
  MaxTime,           (* bound: the last minute of the clock                *)
  MaxDrops,          (* bound: the events the log drops                    *)
  Rules,             (* the rules a request may be blocked by              *)
  Answers,           (* a rule, "failed", "reached" or "none"              *)
  Window,            (* Options.Window, in minutes                         *)
  RingMinutes,       (* ringMinutes                                        *)
  BaselineMinutes,   (* baselineMinutes                                    *)
  BaselineNeeded,    (* baselineNeeded                                     *)
  SiteMinRequests,   (* the thresholds of Options                          *)
  SiteErrorPercent,
  SpikeFactor,
  SpikeMinRequests,
  SpikeMinBlocked,
  RuleMinMatches,
  QueueSize          (* queueSize, of messages to deliver                  *)

Traffic == {"site_down", "requests_spike", "blocked_spike"}
Ids == Traffic \cup {"events_dropped"} \cup Rules
Never == -1

ASSUME AlertsAssumption ==
  /\ IsFiniteSet(Requests) /\ IsFiniteSet(Rules)
  /\ MaxTime \in Nat /\ MaxDrops \in Nat
  /\ Answers \subseteq Rules \cup {"failed", "reached", "none"}
  /\ Window \in Nat \ {0} /\ RingMinutes \in Nat
  /\ Window < RingMinutes   (* an hour at most, of the two the ring holds   *)
  /\ BaselineMinutes \in Nat \ {0} /\ BaselineNeeded \in Nat \ {0}
  /\ QueueSize \in Nat \ {0}

VARIABLES
  now,         \* the minute of the wall clock
  dropped,     \* events.Log.Dropped
  at,          \* the minute each request came in
  stage,       \* where each request is: "out", "served", "done"
  answer,      \* what it was answered with
  ring,        \* Watcher.ring: a minute and the requests counted in it
  started,     \* Watcher.started
  checked,     \* the minute of the last check
  states,      \* Watcher.states: since when each firing trigger is clear
  told,        \* Watcher.dropped
  toldAt,      \* Watcher.droppedAt
  out,         \* messages the check under way has yet to enqueue
  jobs,        \* Watcher.queue
  delivering,  \* the message the command is run with
  waiting,     \* the messages whose Delivery is "waiting"
  found        \* history: when a check last found what a firing trigger is about

requests == <<at, stage, answer>>
watcher == <<ring, started, checked, states, told, toldAt, out, jobs, delivering,
             waiting, found>>
vars == <<now, dropped, requests, watcher>>

-----------------------------------------------------------------------------
(* Mutant of CountedIn: the slot is taken over with what it held.          *)
CountedOnTop(slot, r) ==
  IF slot.stamp > at[r] THEN slot
  ELSE [stamp |-> at[r], seen |-> slot.seen \cup {r}]

(* Watcher.Write, on the slot of the request's minute: "an event older     *)
(* than the ring remembers" is not counted.                                *)
CountedIn(slot, r) ==
  IF slot.stamp > at[r] THEN slot
  ELSE IF slot.stamp = at[r] THEN [slot EXCEPT !.seen = @ \cup {r}]
  ELSE [stamp |-> at[r], seen |-> {r}]

(* sum.                                                                    *)
Sum(from, to) ==
  UNION {ring[m % RingMinutes].seen :
           m \in {k \in from..(to - 1) : ring[k % RingMinutes].stamp = k}}

Blocked(s) == {r \in s : answer[r] \in Rules}
BlockedBy(s, rule) == {r \in s : answer[r] = rule}
Failed(s) == {r \in s : answer[r] = "failed"}
Reached(s) == {r \in s : answer[r] \in {"failed", "reached"}}

(* The window is the minutes before the one under way.                     *)
Current == Sum(now - Window, now)

Covered == LET past == now - started - Window
           IN IF past > BaselineMinutes THEN BaselineMinutes ELSE past
Usual == Sum(now - Window - Covered, now - Window)

SiteDown(current) ==
  LET reached == Cardinality(Reached(current)) IN
    /\ reached >= SiteMinRequests /\ reached > 0
    /\ 100 * Cardinality(Failed(current)) >= SiteErrorPercent * reached

(* spike: many, and many times what a window of the baseline holds.        *)
Spike(current, usual, least) ==
  /\ Covered >= BaselineNeeded
  /\ Cardinality(current) >= least
  /\ Cardinality(current) * Covered >= SpikeFactor * Cardinality(usual) * Window

(* traffic.                                                                *)
TrafficFinds(current, usual) ==
  {id \in Traffic \cup Rules :
     \/ id = "site_down" /\ SiteDown(current)
     \/ id = "requests_spike" /\ Spike(current, usual, SpikeMinRequests)
     \/ id = "blocked_spike" /\ Spike(Blocked(current), Blocked(usual), SpikeMinBlocked)
     \/ /\ BlockedBy(current, id) # {}
        /\ Spike(BlockedBy(current, id), BlockedBy(usual, id), RuleMinMatches)}

(* Mutant of LastDrop: the first loss is remembered.                       *)
LastDropFirst == IF toldAt = Never /\ dropped > told THEN now ELSE toldAt

(* The probe of the log's Dropped.                                         *)
LastDrop == IF dropped > told THEN now ELSE toldAt

LogLoses == LastDrop # Never /\ now - LastDrop < Window

(* traffic and node. The other probes of the node, of its certificates,    *)
(* its disk, its fact set and the outbox, are found or not found alike.    *)
Finds ==
  TrafficFinds(Current, Usual) \cup (IF LogLoses THEN {"events_dropped"} ELSE {})

(* Mutant of ClearSince: a condition that comes back does not start the    *)
(* quiet anew.                                                             *)
ClearSinceFirst(id, finds) ==
  IF id \notin DOMAIN states THEN Never
  ELSE IF states[id] = Never /\ id \notin finds THEN now ELSE states[id]

ClearSince(id, finds) ==
  IF id \in finds THEN Never ELSE IF states[id] = Never THEN now ELSE states[id]

Over(finds) ==
  {id \in DOMAIN states \ finds : states[id] # Never /\ now - states[id] >= Window}

(* The code sorts them by their ids; it is the order of the queue alone.   *)
Messages(ids, state) ==
  LET those == SetToSeq(ids)
  IN [i \in DOMAIN those |-> [id |-> those[i], state |-> state, time |-> now]]

(* Check: traffic, node, transition. The ticker goes on when the clock has *)
(* reached its bound.                                                      *)
Check ==
  /\ out = <<>>
  /\ checked < now \/ now = MaxTime
  /\ checked' = now
  /\ LET finds == Finds
         left == (DOMAIN states \cup finds) \ Over(finds)
     IN /\ states' = [id \in left |-> ClearSince(id, finds)]
        /\ out' = Messages(finds \ DOMAIN states, "firing")
                    \o Messages(Over(finds), "resolved")
        /\ found' = [id \in left |-> IF id \in finds THEN now ELSE found[id]]
  /\ waiting' = waiting \cup ToSet(out')
  /\ told' = IF dropped > told THEN dropped ELSE told
  /\ toldAt' = LastDrop
  /\ UNCHANGED <<now, dropped, requests, ring, started, jobs, delivering>>

(* enqueue: the select on the queue.                                       *)
HasRoom == Len(jobs) < QueueSize

(* Mutant of Enqueue: nobody is told that there was no room.               *)
EnqueueOrForget ==
  /\ out # <<>>
  /\ out' = Tail(out)
  /\ jobs' = IF HasRoom THEN Append(jobs, Head(out)) ELSE jobs
  /\ UNCHANGED <<now, dropped, requests, ring, started, checked, states, told, toldAt,
                 delivering, waiting, found>>

(* enqueue: "too many at once" is a result of the delivery.                *)
Enqueue ==
  /\ out # <<>>
  /\ out' = Tail(out)
  /\ \/ /\ HasRoom
        /\ jobs' = Append(jobs, Head(out))
        /\ UNCHANGED waiting
     \/ /\ ~HasRoom
        /\ waiting' = waiting \ {Head(out)}
        /\ UNCHANGED jobs
  /\ UNCHANGED <<now, dropped, requests, ring, started, checked, states, told, toldAt,
                 delivering, found>>

(* deliverAll: the command is run, and ends by itself or by its timeout.   *)
Deliver ==
  /\ delivering = <<>> /\ jobs # <<>>
  /\ delivering' = <<Head(jobs)>>
  /\ jobs' = Tail(jobs)
  /\ UNCHANGED <<now, dropped, requests, ring, started, checked, states, told, toldAt,
                 out, waiting, found>>

Delivered ==
  /\ delivering # <<>>
  /\ waiting' = waiting \ ToSet(delivering)
  /\ delivering' = <<>>
  /\ UNCHANGED <<now, dropped, requests, ring, started, checked, states, told, toldAt,
                 out, jobs, found>>

-----------------------------------------------------------------------------
Tick ==
  /\ now < MaxTime
  /\ now' = now + 1
  /\ UNCHANGED <<dropped, requests, watcher>>

Arrive(r) ==
  /\ stage[r] = "out" /\ now < MaxTime
  /\ stage' = [stage EXCEPT ![r] = "served"]
  /\ at' = [at EXCEPT ![r] = now]
  /\ UNCHANGED <<now, dropped, answer, watcher>>

(* The end of ServeHTTP: a request may have taken any time.                *)
Write(r) ==
  /\ stage[r] = "served"
  /\ stage' = [stage EXCEPT ![r] = "done"]
  /\ \E a \in Answers : answer' = [answer EXCEPT ![r] = a]
  /\ ring' = [ring EXCEPT ![at[r] % RingMinutes] = CountedIn(@, r)]
  /\ UNCHANGED <<now, dropped, at, started, checked, states, told, toldAt, out, jobs,
                 delivering, waiting, found>>

(* The queue of the event log is full.                                     *)
LogDrops ==
  /\ dropped < MaxDrops /\ now < MaxTime
  /\ dropped' = dropped + 1
  /\ UNCHANGED <<now, requests, watcher>>

EmptySlot == [stamp |-> Never, seen |-> {}]

Init ==
  /\ now = 0 /\ dropped = 0
  /\ at = [r \in Requests |-> 0]
  /\ stage = [r \in Requests |-> "out"]
  /\ answer = [r \in Requests |-> "none"]
  /\ ring = [i \in 0..(RingMinutes - 1) |-> EmptySlot]
  /\ started = 0 /\ checked = 0
  /\ states = <<>>
  /\ told = 0 /\ toldAt = Never
  /\ out = <<>> /\ jobs = <<>> /\ delivering = <<>>
  /\ waiting = {}
  /\ found = <<>>

Next ==
  \/ Tick \/ Check \/ Enqueue \/ Deliver \/ Delivered
  \/ \E r \in Requests : Arrive(r) \/ Write(r)
  \/ LogDrops

Spec == Init /\ [][Next]_vars

(* The clock and the ticker of Run go on, so does deliverAll, and the      *)
(* command comes to an end. Nothing is assumed of the requests or the log. *)
FairSpec ==
  /\ Spec
  /\ WF_vars(Tick) /\ WF_vars(Check)
  /\ WF_vars(Enqueue) /\ WF_vars(Deliver) /\ WF_vars(Delivered)

-----------------------------------------------------------------------------
Message == [id: Ids, state: {"firing", "resolved"}, time: 0..MaxTime]

TypeOK ==
  /\ now \in 0..MaxTime
  /\ dropped \in 0..MaxDrops
  /\ at \in [Requests -> 0..MaxTime]
  /\ stage \in [Requests -> {"out", "served", "done"}]
  /\ answer \in [Requests -> Answers \cup {"none"}]
  /\ ring \in [0..(RingMinutes - 1) -> [stamp: -1..MaxTime, seen: SUBSET Requests]]
  /\ started \in 0..MaxTime /\ checked \in 0..MaxTime
  /\ DOMAIN states \subseteq Ids /\ \A id \in DOMAIN states : states[id] \in -1..MaxTime
  /\ told \in 0..MaxDrops /\ toldAt \in -1..MaxTime
  /\ out \in Seq(Message) /\ jobs \in Seq(Message) /\ Len(jobs) <= QueueSize
  /\ delivering \in {<<>>} \cup {<<m>> : m \in Message}
  /\ waiting \subseteq Message
  /\ found \in [DOMAIN states -> 0..MaxTime]

InMinutes(from, to) == {r \in Requests : stage[r] = "done" /\ from <= at[r] /\ at[r] < to}

(* The sums of the window and of what it is compared with.                 *)
CountsAreExact ==
  /\ Current = InMinutes(now - Window, now)
  /\ Window + BaselineMinutes < RingMinutes /\ Covered > 0 =>
       Usual = InMinutes(now - Window - Covered, now - Window)

(* Every variable has its type, and what a check sums up is the requests   *)
(* of those minutes, no other and all of them, while the ring is used over *)
(* and over and requests end in an order other than they came in.          *)
CountsAreSound == TypeOK /\ CountsAreExact

(* docs/en/alerts.md:34: "back to normal" comes "when things have stayed   *)
(* fine for a whole window", so that "a flapping trigger does not send a   *)
(* message a minute".                                                      *)
ResolvedIsQuiet ==
  [][\A id \in DOMAIN states \ DOMAIN states' : now - found[id] > Window]_vars

(* docs/en/configuration.md:216: "a silently dropping log is worse than    *)
(* none". Events the log drops end up in a trigger that fires, whatever    *)
(* was told before.                                                        *)
DropsAreTold == dropped > told ~> "events_dropped" \in DOMAIN states

(* What became of the delivery of each message is known in the end, though *)
(* more fire at once than the command takes.                               *)
MessagesSettle == []<>(waiting = {})
===============================================================================
