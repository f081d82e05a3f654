------------------------------ MODULE Reports ------------------------------
(***************************************************************************)
(* What is read off the event log: the replay of a list of rules           *)
(* (internal/replay), the summary the admin UI and the API show            *)
(* (internal/summary), the table of rules and the pages of events          *)
(* (internal/admin). The lines are those of events.Read, in the order of   *)
(* the log; EventLog has how they got there.                               *)
(*                                                                         *)
(* An event has the fields of a request of RuleSet, and its time, status,  *)
(* dur, decision, rule and shadow. None is the zero time.                  *)
(***************************************************************************)
EXTENDS RuleSet

CONSTANTS
  MaxKeys,     \* summary.MaxKeys, the values of a breakdown
  Bounds,      \* latencyBounds, ascending
  Buckets,     \* Options.Buckets, the points of a series
  MinuteLength \* the steps of the clock in a minute

None == -1

\* events.Filter: the end is not in the period.
Inside(time, from, to) == time >= from /\ (to # None => time < to)
InPeriod(lines, from, to) == At(lines, {i \in DOMAIN lines : Inside(lines[i].time, from, to)})

CountOf(lines, Is(_)) == Cardinality({i \in DOMAIN lines : Is(lines[i])})

(***************************************************************************)
(* replay.Run: a list of rules decides every event again, with a limiter   *)
(* of its own, at the time the event has.                                  *)
(***************************************************************************)
\* The request of an event: what was decided of it is erased.
Asked(e) == [ip |-> e.ip, host |-> e.host, ua |-> e.ua, cookie |-> e.cookie,
             age |-> e.age, time |-> e.time]

Answer(d) == [action |-> d.outcome.action, rule |-> d.outcome.rule, shadow |-> d.shadow]

\* Of a run so far and the next event.
Replayed(set, run, e) ==
  LET d == Decide(set, run.counted, Asked(e), e.time)
  IN [counted |-> d.counted, answers |-> Append(run.answers, Answer(d))]

Replay(list, lines) ==
  LET set == Effective(list)
      run[n \in 0..Len(lines)] ==
        IF n = 0 THEN [counted |-> NothingCounted, answers |-> <<>>]
        ELSE Replayed(set, run[n - 1], lines[n])
  IN run[Len(lines)].answers

\* RuleStats.Matched: by the rule that decided, and every shadow.
Matched(outcomes, id) == CountOf(outcomes, LAMBDA o : o.rule = id \/ id \in ToSet(o.shadow))

\* Result.Decisions and Result.Blocked.
Decisions(outcomes, action) == CountOf(outcomes, LAMBDA o : o.action = action)
ReplayBlocked(outcomes) == Decisions(outcomes, "block") + Decisions(outcomes, "ratelimit")

(***************************************************************************)
(* Classes of answers and the filter of events.                            *)
(***************************************************************************)
Classes == {"2xx", "3xx", "4xx", "5xx", "blocked", "none"}
Refusals == {"block", "ratelimit"}

ClassOf(status) ==
  CASE status >= 500         -> "5xx"
    [] status \in 400..499   -> "4xx"
    [] status \in 300..399   -> "3xx"
    [] status \in 100..299   -> "2xx"
    [] OTHER                 -> "none"

\* Mutant of AnswerOf: what the node cut off is among the site's 4xx.
AnswerByStatus(e) == ClassOf(e.status)

AnswerOf(e) == IF e.decision \in Refusals THEN "blocked" ELSE ClassOf(e.status)

\* A filter with nothing set; what is set is combined by "and". Class and
\* code are the two forms of Status.
AnyEvent == [host |-> <<>>, decision |-> "", rule |-> NoRule, ip |-> <<>>,
             class |-> "", code |-> 0, search |-> <<>>, before |-> None]

FilterMatches(f, e) ==
  /\ f.before # None => e.time < f.before
  /\ f.host # <<>> => e.host = f.host
  /\ f.decision # "" => e.decision = f.decision
  /\ f.rule # NoRule => e.rule = f.rule \/ f.rule \in ToSet(e.shadow)
  /\ f.ip # <<>> => e.ip = f.ip
  /\ f.code # 0 => e.status = f.code
  /\ f.class # "" => AnswerOf(e) = f.class
  /\ f.search # <<>> => Compares(e.ua, "contains", f.search)

Filtered(lines, f) == At(lines, {i \in DOMAIN lines : FilterMatches(f, lines[i])})

(***************************************************************************)
(* A breakdown: a counter for every value, while there is room for one.    *)
(***************************************************************************)
EmptyBreakdown == [counters |-> [v \in {} |-> 0], truncated |-> FALSE]
NoCounter == [count |-> 0, ips |-> {}]

Room(b, value) == value \in DOMAIN b.counters \/ Cardinality(DOMAIN b.counters) < MaxKeys

AddIp(ips, ip) == IF ip # <<>> /\ Cardinality(ips) < MaxKeys THEN ips \cup {ip} ELSE ips

Added(b, value, ip) ==
  LET c == IF value \in DOMAIN b.counters THEN b.counters[value] ELSE NoCounter
  IN [b EXCEPT !.counters = [v \in DOMAIN @ \cup {value} |->
        IF v = value THEN [count |-> c.count + 1, ips |-> AddIp(c.ips, ip)] ELSE @[v]]]

\* Mutant of AddTo: a value too many is left out, and no word of it.
AddQuietly(b, value, ip) == IF Room(b, value) THEN Added(b, value, ip) ELSE b

AddTo(b, value, ip) ==
  IF Room(b, value) THEN Added(b, value, ip) ELSE [b EXCEPT !.truncated = TRUE]

\* The values of one event, one after the other.
AddEach(b, values, ip) ==
  LET added[n \in 0..Len(values)] ==
        IF n = 0 THEN b ELSE AddTo(added[n - 1], values[n], ip)
  IN added[Len(values)]

\* Values has what each event adds, which leaves empty values out.
Breakdown(lines, values) ==
  LET after[n \in 0..Len(lines)] ==
        IF n = 0 THEN EmptyBreakdown ELSE AddEach(after[n - 1], values[n], lines[n].ip)
  IN after[Len(lines)]

Unless(empty, value) == IF value = empty THEN <<>> ELSE <<value>>

(***************************************************************************)
(* Latency, of what reached the site.                                      *)
(***************************************************************************)
Percents == {50, 95, 99}

ReachedSite(e) == AnswerOf(e) \notin {"blocked", "none"}
AtSite(lines) == At(lines, {i \in DOMAIN lines : ReachedSite(lines[i])})

Slot(d) == Min({i \in DOMAIN Bounds : Bounds[i] >= d} \cup {Len(Bounds) + 1})

Rank(percent, n) == (percent * n + 99) \div 100

\* The edge of the slot the rank falls into, or the longest answer seen.
Percentile(durs, percent) ==
  IF durs = <<>> THEN 0
  ELSE LET rank == Rank(percent, Len(durs))
           longest == Max(ToSet(durs))
           i == Min({s \in 1..(Len(Bounds) + 1) : CountOf(durs, LAMBDA d : Slot(d) <= s) >= rank})
       IN IF i <= Len(Bounds) THEN Min({Bounds[i], longest}) ELSE longest

(***************************************************************************)
(* The series: the minutes of the events over the points of the period.    *)
(***************************************************************************)
Series(lines, from, to) ==
  LET start == IF from # None THEN from ELSE Min({lines[i].time : i \in DOMAIN lines})
      end == IF to # None THEN to ELSE Max({lines[i].time : i \in DOMAIN lines})
      even == (end - start) \div Buckets
      width == IF even <= 0 THEN MinuteLength ELSE even
      Minute(e) == (e.time \div MinuteLength) * MinuteLength
      Point(e) == Max({1, Min({Buckets, 1 + (Minute(e) - start) \div width})})
  IN [n \in 1..Buckets |->
        [c \in Classes |-> CountOf(lines, LAMBDA e : Point(e) = n /\ AnswerOf(e) = c)]]

\* summary.Build.
Summary(lines, from, to, filter) ==
  LET seen == InPeriod(lines, from, to)
      es == Filtered(seen, filter)
      site == AtSite(es)
      durs == [i \in DOMAIN site |-> site[i].dur]
      rules == Breakdown(es, [i \in DOMAIN es |-> Unless(NoRule, es[i].rule)])
      shadows == Breakdown(es, [i \in DOMAIN es |-> es[i].shadow])
      hosts == Breakdown(es, [i \in DOMAIN es |-> Unless(<<>>, es[i].host)])
      ips == Breakdown(es, [i \in DOMAIN es |-> Unless(<<>>, es[i].ip)])
      statuses == Breakdown(site, [i \in DOMAIN site |-> <<site[i].status>>])
  IN [total |-> Len(seen), events |-> Len(es),
      decisions |-> [d \in {"pass", "allow", "block", "ratelimit"} |->
                       CountOf(es, LAMBDA e : e.decision = d)],
      answers |-> [c \in Classes |-> CountOf(es, LAMBDA e : AnswerOf(e) = c)],
      rules |-> rules, shadows |-> shadows, hosts |-> hosts, ips |-> ips, statuses |-> statuses,
      truncated |-> rules.truncated \/ shadows.truncated \/ hosts.truncated \/ ips.truncated
                     \/ statuses.truncated,
      latency |-> [p \in Percents |-> Percentile(durs, p)],
      series |-> IF es = <<>> THEN <<>> ELSE Series(es, from, to)]

(***************************************************************************)
(* The table of rules: a row of the shadows takes the place of a row of    *)
(* the rules.                                                              *)
(***************************************************************************)
RuleRow(summary, id) ==
  CASE id \in DOMAIN summary.shadows.counters -> summary.shadows.counters[id]
    [] id \in DOMAIN summary.rules.counters \ DOMAIN summary.shadows.counters ->
         summary.rules.counters[id]
    [] OTHER -> NoCounter

(***************************************************************************)
(* Pages of events: the lines from the last on, and the next page before   *)
(* the last event listed.                                                  *)
(***************************************************************************)
Latest(lines, f, n) ==
  LET found == Reverse(Filtered(lines, f)) IN SubSeq(found, 1, Min({n, Len(found)}))

\* Mutant of NextBefore: a page with anything on it has another behind it.
NextBeforeFirst(page, n) == IF Len(page) = n THEN Head(page).time ELSE None

NextBefore(page, n) == IF Len(page) = n THEN Last(page).time ELSE None

\* What a client has that follows next_before to the end.
Pages(lines, f, n) ==
  LET pages[before \in {None} \cup Nat] ==
        LET page == Latest(lines, [f EXCEPT !.before = before], n)
            next == NextBefore(page, n)
        IN IF next = None THEN page ELSE page \o pages[next]
  IN pages[f.before]
=============================================================================
