---------------------------- MODULE SlidingWindow ----------------------------
(***************************************************************************)
(* What a rate rule promises: a request is refused exactly when as many    *)
(* requests of its key as the limit allows were let through in the window  *)
(* that ends with it. Refused requests do not count, and a changed limit   *)
(* starts the count anew. A key nobody is counting may pass uncounted.     *)
(***************************************************************************)
EXTENDS Integers, Sequences, FiniteSets

CONSTANTS Keys, Times, Limits, Window

VARIABLES
  taken,    \* per key: the limit counted against, and the times let through
  verdict   \* the last answer

Request == [key: Keys, at: Times, limit: Limits]

(* What was let through under this limit.                                  *)
Counted(q) == IF taken[q.key].limit = q.limit THEN taken[q.key].times ELSE <<>>

Live(q) == {i \in DOMAIN Counted(q) : Counted(q)[i] > q.at - Window}

Answer(q, exceeded) == verdict' = [key |-> q.key, at |-> q.at, exceeded |-> exceeded]
Take(q, times) == taken' = [taken EXCEPT ![q.key] = [limit |-> q.limit, times |-> times]]

Init ==
  /\ taken = [k \in Keys |-> [limit |-> 0, times |-> <<>>]]
  /\ verdict = [key |-> "none", at |-> 0, exceeded |-> FALSE]

Allow(q) ==
  /\ Cardinality(Live(q)) < q.limit
  /\ Take(q, Append(Counted(q), q.at))
  /\ Answer(q, FALSE)

Refuse(q) ==
  /\ Cardinality(Live(q)) >= q.limit
  /\ Take(q, Counted(q))
  /\ Answer(q, TRUE)

PassUncounted(q) ==
  /\ \A i \in DOMAIN taken[q.key].times : taken[q.key].times[i] <= q.at - Window
  /\ UNCHANGED taken
  /\ Answer(q, FALSE)

Next == \E q \in Request : Allow(q) \/ Refuse(q) \/ PassUncounted(q)

Spec == Init /\ [][Next]_<<taken, verdict>>
=============================================================================
