----------------------------- MODULE MCProposals -----------------------------
(* The values TLC gives: the owner has a rule 3, in force and active; the   *)
(* cloud proposes rule 1 and advises to put rule 3 back into shadow.        *)
EXTENDS Proposals, TLC

ItsOwn == [p \in Proposed |-> p]
AboutThree == [a \in Advised |-> 3]
SuggestShadow == [a \in Advised |-> "shadow"]
AllOrNone == {{}, Ids}
ThreeActive == {3 :> [enabled |-> TRUE, mode |-> "active"]}
SomeChanges ==
  {[do |-> "active", rule |-> 1], [do |-> "remove", rule |-> 3]}
ThereAndBack == {[do |-> "active", rule |-> 1], [do |-> "shadow", rule |-> 1]}
==============================================================================
