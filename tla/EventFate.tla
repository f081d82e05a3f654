------------------------------ MODULE EventFate ------------------------------
(***************************************************************************)
(* What the aggregate pipeline promises of every request it serves: it is  *)
(* held by the node until it is reported to the cloud or lost, and neither *)
(* end is ever left — a lost event does not come back, a reported one is   *)
(* not taken back.                                                         *)
(***************************************************************************)
CONSTANT Events
VARIABLE fate

Init == fate = [e \in Events |-> "unserved"]

(* S moves to fate f from one of the fates in "from".                      *)
Move(S, from, f) ==
  /\ \A e \in S : fate[e] \in from
  /\ fate' = [e \in Events |-> IF e \in S THEN f ELSE fate[e]]

(* A request is served, and the event is in the node's hands — or, with    *)
(* no aggregator running, in nobody's.                                     *)
Serve(e) == Move({e}, {"unserved"}, "held") \/ Move({e}, {"unserved"}, "lost")

Report(S) == Move(S, {"held"}, "reported")

Lose(S) == Move(S, {"held"}, "lost")

Next == \/ \E e \in Events : Serve(e)
        \/ \E S \in SUBSET Events : Report(S) \/ Lose(S)

Spec == Init /\ [][Next]_fate
=============================================================================
