--------------------------- MODULE MCNodeRecords ---------------------------
(* The values TLC gives: who visits, and the rules.                         *)
EXTENDS NodeRecords, TLC

ra == <<"ru", "a">>
xb == <<"xyz">>
Client == <<9, 9, 1>>
Neighbour == <<9, 9, 2>>
Proxy == <<10, 0, 1>>
Monitor == <<7, 7, 7>>

Direct == [peer |-> Client, chain |-> <<Monitor>>, host |-> ra, ua |-> <<"bot", "x">>,
           cookie |-> FALSE, age |-> 0, crawler |-> FALSE]
Proxied == [peer |-> Proxy, chain |-> <<Monitor, Neighbour, Proxy>>, host |-> ra, ua |-> <<"x">>,
            cookie |-> TRUE, age |-> 3, crawler |-> FALSE]
Own == [peer |-> Monitor, chain |-> <<>>, host |-> xb, ua |-> <<"bot", "x">>,
        cookie |-> FALSE, age |-> 0, crawler |-> TRUE]
Visitors == {Direct, Proxied, Own}

Site == {ra}
Proxies == {<<10>>}
Monitors == {<<7, 7>>}
OneEdge == <<0>>
OneRegister ==
  [a \in {Client, Neighbour, Monitor, Proxy} |->
     IF a = Client THEN [register |-> 1, zeros |-> 2] ELSE [register |-> 1, zeros |-> a[3]]]

Rule(id, mode, priority, condition, action) ==
  [id |-> id, mode |-> mode, priority |-> priority, enabled |-> TRUE,
   scope |-> {[host |-> <<>>, pattern |-> TRUE]}, condition |-> condition, action |-> action]
Field(f, op, json, is) == [field |-> f, op |-> op, value |-> [json |-> json, is |-> is]]
Trees == [bots |-> Field("ua", "prefix", "string", <<"bot">>),
          net |-> Field("ip", "cidr", "networks", {<<9, 9>>, <<7>>}),
          cookie |-> Field("cookie", "eq", "bool", TRUE),
          noCookie |-> [not |-> "cookie"],
          shameless |-> [all |-> <<"bots", "noCookie">>],
          aged |-> Field("age", "gt", "number", 2),
          here |-> Field("host", "eq", "string", ra),
          old |-> [any |-> <<"aged", "here">>],
          wrong |-> Field("ua", "cidr", "networks", {<<9, 9>>})]
Block == [type |-> "block", status |-> 0]
Allow == [type |-> "allow"]
Limit == [type |-> "ratelimit", limit |-> 1, window |-> 1, key |-> "ua", status |-> 0]

\* The second list turns rule 1 on. The others do not build.
FourLists == {
  <<Rule(2, "active", 5, "net", Limit), Rule(1, "shadow", 5, "bots", Block)>>,
  <<Rule(2, "active", 5, "old", Allow), Rule(3, "shadow", 1, "noCookie", Block),
    Rule(1, "active", 1, "shameless", [Block EXCEPT !.status = 451])>>,
  <<Rule(1, "active", 5, "net", Limit), Rule(1, "active", 5, "bots", Block)>>,
  <<Rule(1, "active", 5, "wrong", Block)>> }

Symmetric == Permutations(Requests) \cup Permutations(Workers)
=============================================================================
