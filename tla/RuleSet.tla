------------------------------ MODULE RuleSet ------------------------------
(***************************************************************************)
(* The rules: what compiles, what a condition says of a request, in what   *)
(* order the rules are asked and what comes of it (internal/rules: rule.go,*)
(* condition.go, set.go). The counter of frequency is SlidingWindow's.     *)
(*                                                                         *)
(* Of the fields of facts.Request there is one or two of each kind. A text *)
(* is the sequence of its parts, a host that of its labels from the last   *)
(* to the first, an address that of its octets, an empty one is none. The  *)
(* id of a rule is a number, in the order of the names.                    *)
(***************************************************************************)
EXTENDS Integers, Sequences, FiniteSets, SequencesExt

CONSTANTS
  MaxLimit,  \* the ceiling of a limit
  Conditions \* the nodes conditions are made of, by name

NoRule == 0

\* The names of what is decided before the rules have whitespace.
OwnNetwork == 100
VerifiedCrawler == 101
Spaced == {OwnNetwork, VerifiedCrawler}
Kinds == [ip |-> "addr", host |-> "string", ua |-> "string", cookie |-> "bool", age |-> "number"]

\* What a sequence has at some places.
At(s, places) ==
  LET With(t, n) == IF n \in places THEN Append(t, s[n]) ELSE t
      upTo[n \in 0..Len(s)] == IF n = 0 THEN <<>> ELSE With(upTo[n - 1], n)
  IN upTo[Len(s)]

(***************************************************************************)
(* Conditions. A tree is the name of its root; a node has the members its  *)
(* JSON has, with the names of its parts; a value is [json, is], its type  *)
(* and what it is.                                                         *)
(***************************************************************************)
Equality == {"eq", "ne"}
Membership == {"in", "not_in"}
Parts == {"contains", "prefix", "suffix"}
Networks == {"cidr", "not_cidr"}

Operators(kind) ==
  CASE kind = "number" -> Equality \cup Membership \cup {"gt", "gte", "lt", "lte"}
    [] kind = "bool"   -> Equality
    [] kind = "addr"   -> Equality \cup Membership \cup Parts \cup Networks
    [] kind = "string" -> Equality \cup Membership \cup Parts

\* The type a value must have; a list must not be empty, nor a part.
ValueType(kind, op) ==
  CASE op \in Networks   -> "networks"
    [] op \in Membership -> IF kind = "number" THEN "numbers" ELSE "strings"
    [] OTHER             -> IF kind = "addr" THEN "string" ELSE kind

Comparable(c) ==
  /\ DOMAIN c = {"field", "op", "value"}
  /\ c.field \in DOMAIN Kinds
  /\ c.op \in Operators(Kinds[c.field])
  /\ c.value.json = ValueType(Kinds[c.field], c.op)
  /\ c.op \in Membership \cup Networks => c.value.is # {}
  /\ c.op \in Parts => c.value.is # <<>>

\* One of all, any and not, or a comparison, and no list of nothing.
Compiles(root) ==
  LET compiles[name \in DOMAIN Conditions] ==
        LET c == Conditions[name] IN
          \/ Comparable(c)
          \/ DOMAIN c = {"not"} /\ compiles[c.not]
          \/ DOMAIN c = {"all"} /\ c.all # <<>> /\ \A i \in DOMAIN c.all : compiles[c.all[i]]
          \/ DOMAIN c = {"any"} /\ c.any # <<>> /\ \A i \in DOMAIN c.any : compiles[c.any[i]]
  IN compiles[root]

Within(addr, networks) == \E n \in networks : IsPrefix(n, addr)

\* A request without an address is in no network and outside none.
Compares(x, op, v) ==
  CASE op = "eq"       -> x = v
    [] op = "ne"       -> x # v
    [] op = "in"       -> x \in v
    [] op = "not_in"   -> x \notin v
    [] op = "gt"       -> x > v
    [] op = "gte"      -> x >= v
    [] op = "lt"       -> x < v
    [] op = "lte"      -> x <= v
    [] op = "prefix"   -> IsPrefix(v, x)
    [] op = "suffix"   -> IsSuffix(v, x)
    [] op = "contains" -> \E i \in DOMAIN x : IsPrefix(v, SubSeq(x, i, Len(x)))
    [] op = "cidr"     -> x # <<>> /\ Within(x, v)
    [] op = "not_cidr" -> x # <<>> /\ ~Within(x, v)

Matches(root, r) ==
  LET matches[name \in DOMAIN Conditions] ==
        LET c == Conditions[name] IN
          CASE DOMAIN c = {"all"} -> \A i \in DOMAIN c.all : matches[c.all[i]]
            [] DOMAIN c = {"any"} -> \E i \in DOMAIN c.any : matches[c.any[i]]
            [] DOMAIN c = {"not"} -> ~matches[c.not]
            [] OTHER              -> Compares(r[c.field], c.op, c.value.is)
  IN matches[root]

(***************************************************************************)
(* Rules and sets of rules. A scope is a set of [host, pattern]; the star  *)
(* is the pattern of the empty host, and a pattern takes its own name too. *)
(***************************************************************************)
\* The members of an action depend on its type; unknown is any other word.
Actions ==
  [type: {"allow", "unknown"}] \cup [type: {"block"}, status: Int]
    \cup [type: {"ratelimit"}, limit: Int, window: Int, key: STRING, status: Int]

Rules == [id: Nat, mode: {"shadow", "active", "unknown"}, priority: Int, enabled: BOOLEAN,
          action: Actions, condition: DOMAIN Conditions,
          scope: SUBSET [host: Seq(STRING), pattern: BOOLEAN]]

InScope(rule, host) ==
  \E s \in rule.scope : s.host = host \/ (s.pattern /\ IsPrefix(s.host, host))

ActionCompiles(a) ==
  \/ a.type = "allow"
  \/ a.type = "block" /\ a.status \in {0} \cup 100..599
  \/ /\ a.type = "ratelimit" /\ a.limit \in 1..MaxLimit /\ a.window > 0
     /\ a.key \in DOMAIN Kinds /\ Kinds[a.key] \in {"string", "addr"}

RuleCompiles(rule) ==
  /\ rule.id \notin {NoRule} \cup Spaced /\ rule.mode \in {"shadow", "active"} /\ rule.scope # {}
  /\ Compiles(rule.condition) /\ ActionCompiles(rule.action)

\* Build: an error in even one rule, a disabled one too, discards the set.
Builds(list) ==
  /\ \A i \in DOMAIN list : RuleCompiles(list[i])
  /\ \A i, j \in DOMAIN list : list[i].id = list[j].id => i = j

Before(a, b) == a.priority > b.priority \/ (a.priority = b.priority /\ a.id < b.id)

\* A stable sort: rules that are not Before one another stay as they lie.
Sooner(list, i, j) ==
  Before(list[i], list[j]) \/ (~Before(list[j], list[i]) /\ i < j)

Effective(list) ==
  LET enabled == {i \in DOMAIN list : list[i].enabled}
      Place(n) == CHOOSE i \in enabled : Cardinality({j \in enabled : Sooner(list, j, i)}) = n - 1
      first[n \in 0..Cardinality(enabled)] ==
        IF n = 0 THEN <<>> ELSE Append(first[n - 1], list[Place(n)])
  IN first[Cardinality(enabled)]

(***************************************************************************)
(* Decide. What was counted maps a rule and the value it counts by to the  *)
(* limit and the times let through under it: RateLimiter has the ring they *)
(* lie in, its keys at their limit and its cleanup.                        *)
(***************************************************************************)
NothingCounted == [k \in {} |-> 0]

Fires(rule, r) == InScope(rule, r.host) /\ Matches(rule.condition, r)

\* Rules in shadow mode do not stop the walk, the first one in active mode
\* does: its place, 0 for none.
Winner(set, r) == SelectInSeq(set, LAMBDA rule : rule.mode = "active" /\ Fires(rule, r))

Ids(rules) == [i \in DOMAIN rules |-> rules[i].id]

\* Mutant of Noted: the walk goes on behind the rule that won.
NotedAll(set, r) ==
  Ids(At(set, {i \in DOMAIN set : set[i].mode = "shadow" /\ Fires(set[i], r)}))

Noted(set, r) ==
  LET won == Winner(set, r)
  IN Ids(At(set, {i \in DOMAIN set : (won = 0 \/ i < won) /\ Fires(set[i], r)}))

\* Exceeded: what fell out of the window goes, from the first stamp on.
Stamps(counted, k, a, at) ==
  IF k \notin DOMAIN counted \/ counted[k].limit # a.limit THEN <<>>
  ELSE LET old == counted[k].times
           kept == SelectInSeq(old, LAMBDA t : t > at - a.window)
       IN IF kept = 0 THEN <<>> ELSE SubSeq(old, kept, Len(old))

Outcome(action, rule, status) == [action |-> action, rule |-> rule, status |-> status]

\* A rate rule that fired ends the walk, whether it refuses or not.
DecisionOf(rule, counted, r, at) ==
  LET a == rule.action
      k == <<rule.id, r[a.key]>>
      times == Stamps(counted, k, a, at)
      over == Len(times) >= a.limit
      entry == [limit |-> a.limit, times |-> IF over THEN times ELSE Append(times, at)]
      Answer(outcome) == [outcome |-> outcome, counted |-> counted]
  IN CASE a.type = "allow" -> Answer(Outcome("allow", rule.id, 0))
       [] a.type = "block" -> Answer(Outcome("block", rule.id, a.status))
       [] a.type = "ratelimit" ->
            [outcome |-> IF over THEN Outcome("ratelimit", rule.id, a.status)
                         ELSE Outcome("pass", rule.id, 0),
             counted |-> [x \in DOMAIN counted \cup {k} |-> IF x = k THEN entry ELSE counted[x]]]

\* What a set answers to a request, and what it has counted by then.
Decide(set, counted, r, at) ==
  LET won == Winner(set, r)
      answer == IF won = 0
                THEN [outcome |-> Outcome("pass", NoRule, 0), counted |-> counted]
                ELSE DecisionOf(set[won], counted, r, at)
  IN [outcome |-> answer.outcome, shadow |-> Noted(set, r), counted |-> answer.counted]
=============================================================================
