------------------------------ MODULE Traffic ------------------------------
(***************************************************************************)
(* Requests through a node: the handlers of proxy.Handler that serve them  *)
(* at once, the rules in force, which may be replaced meanwhile, and the   *)
(* log of what became of them; with what Reports reads off that log, and   *)
(* what WindowRows makes of it for the cloud. EventLog and Aggregator have *)
(* what is between, and their losses.                                      *)
(***************************************************************************)
EXTENDS Reports, WindowRows

CONSTANTS
  Workers,      \* handlers at work at once
  Visits,       \* the requests that come: [peer, chain, host, ua, cookie, age, crawler]
  Trusted,      \* TrustedProxies
  OwnNetworks,  \* OwnNetworks
  Answers,      \* what a site answers with, 502 for none
  Lists,        \* the lists of rules the owner may write
  MaxEvents,    \* bound: requests
  MaxTime,      \* bound: the last step of the clock
  MaxReloads    \* bound: lists of rules put in force

Addresses == Seq(Nat)
Texts == Seq(STRING)

TrafficAssumption ==
  /\ MaxEvents \in Nat /\ MaxTime \in Nat /\ MaxReloads \in Nat
  /\ MaxKeys \in Nat /\ Buckets \in Nat \ {0} /\ MinuteLength \in Nat \ {0}
  /\ Bounds \in Seq(Nat) /\ \A i, j \in DOMAIN Bounds : i < j => Bounds[i] < Bounds[j]
  /\ Visits \subseteq [peer: Addresses, chain: Seq(Addresses), host: Texts, ua: Texts,
                       cookie: BOOLEAN, age: Nat, crawler: BOOLEAN]
  /\ Answers \subseteq Nat
  /\ Lists \subseteq Seq(Rules) /\ \E l \in Lists : Builds(l)
  /\ MaxRows \in Nat \ {0} /\ LiveLimit \in Nat /\ SparseLimit \in Nat
  /\ \A a \in DOMAIN Hash : Hash[a] \in [register: Nat, zeros: 0..255]
  /\ \A v \in Visits : ({v.peer} \cup ToSet(v.chain)) \ {<<>>} \subseteq DOMAIN Hash

Idle == [at |-> None]
NotYet == Outcome("none", NoRule, 0)

VARIABLES
  now,      \* the clock
  list,     \* the rules in force, as the file has them
  counted,  \* what the limiter has counted
  serving,  \* what each handler is at
  log,      \* the events, in the order they were written
  reloads,  \* how many lists were put in force
  decided,  \* history: the handlers whose request is decided, in that order, until
            \* one overtakes another
  overtaken \* history: whether one was written before another decided earlier

order == <<decided, overtaken>>
vars == <<now, list, counted, serving, log, reloads, order>>

(***************************************************************************)
(* ClientAddr: the chain is believed from the right, as far as those that  *)
(* wrote it are trusted. An address that does not parse is the empty one.  *)
(***************************************************************************)
InNetworks(a, networks) == a # <<>> /\ Within(a, networks)

Strangers(chain) == {i \in DOMAIN chain : ~InNetworks(chain[i], Trusted)}

\* Mutant of ClientAddr: the chain is read from the left.
FirstOfChain(peer, chain) ==
  IF ~InNetworks(peer, Trusted) \/ Strangers(chain) = {} THEN peer
  ELSE LET link == chain[Min(Strangers(chain))] IN IF link = <<>> THEN peer ELSE link

ClientAddr(peer, chain) ==
  IF ~InNetworks(peer, Trusted) \/ Strangers(chain) = {} THEN peer
  ELSE LET link == chain[Max(Strangers(chain))] IN IF link = <<>> THEN peer ELSE link

Collected(v, at) ==
  [ip |-> ClientAddr(v.peer, v.chain), host |-> v.host, ua |-> v.ua, cookie |-> v.cookie,
   age |-> v.age, time |-> at]

\* A request comes: the handler takes the time first.
Arrive(w, v) ==
  /\ serving[w] = Idle
  /\ Len(log) + Cardinality({x \in Workers : serving[x] # Idle}) < MaxEvents
  /\ serving' = [serving EXCEPT ![w] =
       [at |-> now, visit |-> v, outcome |-> NotYet, shadow |-> <<>>]]
  /\ UNCHANGED <<now, list, counted, log, reloads, order>>

\* Mutant of Moment: a request is counted at the time it is decided.
MomentNow(s) == now

\* The limiter counts by the time of the request.
Moment(s) == s.at

\* Own networks and verified crawlers pass before the rules.
Judged(s) ==
  LET req == Collected(s.visit, s.at)
      Passed(action, rule) ==
        [outcome |-> Outcome(action, rule, 0), shadow |-> <<>>, counted |-> counted]
  IN CASE InNetworks(req.ip, OwnNetworks) -> Passed("pass", OwnNetwork)
       [] ~InNetworks(req.ip, OwnNetworks) /\ s.visit.crawler ->
            Passed("allow", VerifiedCrawler)
       [] OTHER -> Decide(Effective(list), counted, req, Moment(s))

DecideRequest(w) ==
  /\ serving[w] # Idle /\ serving[w].outcome = NotYet
  /\ LET d == Judged(serving[w]) IN
       /\ serving' = [serving EXCEPT ![w].outcome = d.outcome, ![w].shadow = d.shadow]
       /\ counted' = d.counted
  /\ decided' = Append(decided, w)
  /\ UNCHANGED <<now, list, log, reloads, overtaken>>

\* The status of the answer: the rule's, the node's own or the site's.
StatusOf(outcome, host) ==
  CASE outcome.action \in Refusals /\ outcome.status # 0 -> {outcome.status}
    [] outcome.action = "block" /\ outcome.status = 0 -> {403}
    [] outcome.action = "ratelimit" /\ outcome.status = 0 -> {429}
    [] OTHER -> IF host \in Served THEN Answers ELSE {404}

\* The event of a request, which has the fields of the request.
Event(s, status) ==
  LET req == Collected(s.visit, s.at)
  IN [ip |-> req.ip, host |-> req.host, ua |-> req.ua, cookie |-> req.cookie, age |-> req.age,
      time |-> req.time, decision |-> s.outcome.action, rule |-> s.outcome.rule,
      shadow |-> s.shadow, status |-> status, dur |-> now - s.at, visit |-> s.visit]

\* The answer is given, and the event written.
Finish(w) ==
  /\ serving[w] # Idle /\ serving[w].outcome # NotYet
  /\ \E status \in StatusOf(serving[w].outcome, serving[w].visit.host) :
       log' = Append(log, Event(serving[w], status))
  /\ serving' = [serving EXCEPT ![w] = Idle]
  /\ overtaken' = (overtaken \/ Head(decided) # w)
  /\ decided' = Tail(decided)
  /\ UNCHANGED <<now, list, counted, reloads>>

\* The bound of a behaviour: nothing comes after the last request.
Goes == Len(log) < MaxEvents

\* A list that does not build leaves the one in force there.
Reload(l) ==
  /\ Goes /\ reloads < MaxReloads
  /\ Builds(l) /\ l # list
  /\ list' = l
  /\ reloads' = reloads + 1
  /\ UNCHANGED <<now, counted, serving, log, order>>

Tick ==
  /\ Goes /\ now < MaxTime
  /\ now' = now + 1
  /\ UNCHANGED <<list, counted, serving, log, reloads, order>>

Init ==
  /\ now = 0
  /\ list \in {l \in Lists : Builds(l)}
  /\ counted = NothingCounted
  /\ serving = [w \in Workers |-> Idle]
  /\ log = <<>> /\ reloads = 0 /\ decided = <<>> /\ overtaken = FALSE

Next ==
  \/ \E w \in Workers :
       \/ \E v \in Visits : Arrive(w, v)
       \/ DecideRequest(w)
       \/ Finish(w)
  \/ \E l \in Lists : Reload(l)
  \/ Tick

Spec == Init /\ [][Next]_vars

(***************************************************************************)
(* What must hold of the log once it is quiet.                             *)
(***************************************************************************)
Settled == \A w \in Workers : serving[w] = Idle

\* The requests that passed before the rules, which a replay puts through them.
PassedBefore == {i \in DOMAIN log : log[i].rule \in Spaced}

\* A replay counted line i and line j under one key of one rule.
CountedTogether(again, i, j) ==
  \E r \in ToSet(list) :
    /\ r.action.type = "ratelimit" /\ again[i].rule = r.id /\ again[j].rule = r.id
    /\ log[i][r.action.key] = log[j][r.action.key]

\* None of them is counted before line i where line i is.
CountedApart(again, i) == \A j \in PassedBefore : j < i => ~CountedTogether(again, i, j)

\* What a replay of the rules in force comes to, their lines in either order.
Replays == {Replay(l, log) : l \in {list, Reverse(list)}}

DecidesAlike(again) ==
  \A i \in DOMAIN log \ PassedBefore :
    /\ again[i].rule = log[i].rule /\ again[i].shadow = log[i].shadow
    /\ CountedApart(again, i) => again[i].action = log[i].decision

(* set.go:60: "swapping two rules around must not change the decisions,    *)
(* otherwise the replay over history and the hot path diverge". A replay   *)
(* of the whole log with the rules that were in force, their lines in any  *)
(* order, finds for every request the node put through the rules the same  *)
(* rule and shadows, and the node's decision: unless a request the node    *)
(* passed before the rules was counted under its key, and when requests    *)
(* were written in the order they were decided.                            *)
ReplayAgrees ==
  Settled /\ reloads = 0 /\ ~overtaken => \A again \in Replays : DecidesAlike(again)

(* docs/en/rules.md:205: "it showed one thing on history and did another   *)
(* in production" is impossible: a replay of the rules that were in force  *)
(* decides every request of the log as the node did. It does not: those    *)
(* passed before the rules (PassedBefore) it may block.                    *)
ReplayIsTheHotPath ==
  Settled /\ reloads = 0 /\ ~overtaken =>
    \A i \in DOMAIN log : Replay(list, log)[i].action = log[i].decision

Turned(rule) == [rule EXCEPT !.mode = IF @ = "shadow" THEN "active" ELSE "shadow"]

(* replay.go: "a watcher is set up precisely to be looked at before it is  *)
(* turned on". What a replay counts for a rule in shadow mode is what it   *)
(* would count for the rule turned on, and the other way round, whatever   *)
(* else is in the list.                                                    *)
ShadowForetells ==
  Settled =>
    LET asItIs == Replay(list, log) IN
      \A i \in DOMAIN list :
        Matched(Replay([list EXCEPT ![i] = Turned(@)], log), list[i].id)
          = Matched(asItIs, list[i].id)

SumOf(f) == LET sum[n \in 0..Len(f)] == IF n = 0 THEN 0 ELSE sum[n - 1] + f[n] IN sum[Len(f)]

(* summary.go:3: "the numbers in the admin UI and the numbers in a replay  *)
(* must agree". What the node cut off is one number by the decisions, by   *)
(* the answers and in the series; a replay of the log has that number and  *)
(* the requests passed before the rules that the rules refuse, with the    *)
(* exception of ReplayAgrees; a click on a class of answers shows as many  *)
(* events as the overview counts (summary.go:574); the row of a rule       *)
(* counts the events the filter of that rule finds, when no other list was *)
(* in force; two periods that meet share no event and miss none.           *)
NumbersAgree ==
  Settled =>
    LET s == Summary(log, None, None, AnyEvent)
        blocked == s.answers["blocked"]
    IN /\ blocked = s.decisions["block"] + s.decisions["ratelimit"]
       /\ reloads = 0 /\ ~overtaken =>
            \A again \in Replays :
              (\A i \in DOMAIN log \ PassedBefore : CountedApart(again, i)) =>
                ReplayBlocked(again)
                  = blocked + Cardinality({i \in PassedBefore : again[i].action \in Refusals})
       /\ \A c \in Classes :
            /\ Len(Filtered(log, [AnyEvent EXCEPT !.class = c])) = s.answers[c]
            /\ log # <<>> => SumOf([n \in 1..Buckets |-> s.series[n][c]]) = s.answers[c]
       /\ reloads = 0 /\ ~s.truncated =>
            \A i \in DOMAIN list :
              RuleRow(s, list[i].id).count
                = Len(Filtered(log, [AnyEvent EXCEPT !.rule = list[i].id]))
       /\ \A t \in 0..MaxTime : Len(InPeriod(log, None, t)) + Len(InPeriod(log, t, None)) = Len(log)

\* A breakdown counts every event of every value, and its addresses.
Whole(b, lines, values) ==
  /\ DOMAIN b.counters = UNION {ToSet(values[i]) : i \in DOMAIN lines}
  /\ \A v \in DOMAIN b.counters :
       LET its == {i \in DOMAIN lines : v \in ToSet(values[i])}
       IN b.counters[v] = [count |-> Cardinality(its), ips |-> {lines[i].ip : i \in its} \ {<<>>}]

\* As many answers as the rank are no longer, and no edge is in between.
CloseTo(shown, durs, percent) ==
  \E d \in ToSet(durs) :
    /\ CountOf(durs, LAMBDA x : x <= d) * 100 >= percent * Len(durs)
    /\ CountOf(durs, LAMBDA x : x < d) * 100 < percent * Len(durs)
    /\ shown >= d /\ \A i \in DOMAIN Bounds : Bounds[i] < shown => Bounds[i] < d

(* summary.go: "Keeping quiet about that is not allowed: the numbers in    *)
(* such a breakdown are incomplete". A summary that does not say it is     *)
(* truncated counts in each breakdown every event and every address of     *)
(* every value, in a breakdown of few values that come from many addresses *)
(* as well; and a percentile is off by no more than a slot.                *)
SummaryIsWhole ==
  Settled =>
    LET s == Summary(log, None, None, AnyEvent)
        site == AtSite(log)
    IN /\ ~s.truncated =>
            /\ Whole(s.rules, log, [i \in DOMAIN log |-> Unless(NoRule, log[i].rule)])
            /\ Whole(s.shadows, log, [i \in DOMAIN log |-> log[i].shadow])
            /\ Whole(s.hosts, log, [i \in DOMAIN log |-> Unless(<<>>, log[i].host)])
            /\ Whole(s.ips, log, [i \in DOMAIN log |-> Unless(<<>>, log[i].ip)])
            /\ Whole(s.statuses, site, [i \in DOMAIN site |-> <<site[i].status>>])
       /\ site # <<>> =>
            \A p \in Percents : CloseTo(s.latency[p], [i \in DOMAIN site |-> site[i].dur], p)

\* What a row is to say of the events it stands for.
Counts(lines) ==
  [requests |-> Len(lines),
   cookies |-> CountOf(lines, LAMBDA e : e.cookie),
   blocked |-> CountOf(lines, LAMBDA e : e.decision = "block"),
   limited |-> CountOf(lines, LAMBDA e : e.decision = "ratelimit"),
   shadowed |-> CountOf(lines, LAMBDA e : e.shadow # <<>>),
   addrs |-> AddAll(NoSketch, {Hash[lines[i].ip] : i \in {j \in DOMAIN lines : lines[j].ip # <<>>}})]

(* window.go: "past MaxRows the smallest folded into one ~rest row with    *)
(* the sum of their counters", the addresses "merged, not summed, because  *)
(* the same path seen by two rows is still one". What goes out has MaxRows *)
(* rows or fewer, every row says what is true of its events, and the row   *)
(* of the rest what is true of all the others.                             *)
AggregateAgrees ==
  Settled =>
    LET rows == Close(Gathered(log))
        kept == DOMAIN rows \ {RestKey}
        Those(ks) == At(log, {i \in DOMAIN log : KeyOf(log[i]) \in ks})
        others == At(log, {i \in DOMAIN log : KeyOf(log[i]) \notin kept})
    IN /\ Cardinality(DOMAIN rows) <= MaxRows
       /\ \A k \in kept : rows[k] = Counts(Those({k}))
       /\ IF others = <<>> THEN RestKey \notin DOMAIN rows
          ELSE RestKey \in DOMAIN rows /\ rows[RestKey] = Counts(others)

(* address.go: "Everything to the left of it was written by the client     *)
(* itself". What a client puts in front of the chain does not change the   *)
(* address it gets, in the log and to the rules, unless all that wrote the *)
(* rest are trusted.                                                       *)
ChainIsNotForged ==
  \A i \in DOMAIN log :
    LET v == log[i].visit IN
      ~InNetworks(v.peer, Trusted) \/ Strangers(v.chain) # {} =>
        \A forged \in DOMAIN Hash \cup {<<>>} :
          ClientAddr(v.peer, <<forged>> \o v.chain) = log[i].ip

(* docs/en/api.md: "A full page carries next_before — the moment of its    *)
(* oldest event". Who follows the pages has every event once, of any one   *)
(* decision too, when the events were written in the order they came and   *)
(* no two at one moment.                                                   *)
PagesMissNothing ==
  Settled /\ (\A i, j \in DOMAIN log : i < j => log[i].time < log[j].time) =>
    \A n \in 1..2, decision \in {"", "pass"} :
      LET f == [AnyEvent EXCEPT !.decision = decision]
      IN Pages(log, f, n) = Reverse(Filtered(log, f))
=============================================================================
