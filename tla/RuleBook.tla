------------------------------- MODULE RuleBook -------------------------------
(***************************************************************************)
(* What rules.json promises to those who edit it at the same time: the     *)
(* edits happen one after the other, each to the rules the one before it   *)
(* left, and an edit is never made to a rule that is not there.            *)
(***************************************************************************)
EXTENDS RuleEdits

VARIABLE book

Init == book \in Books

Change(e) ==
  /\ Allowed(book, e)
  /\ book' = Applied(book, e)

Next == \E e \in Edit : Change(e)

Spec == Init /\ [][Next]_book
===============================================================================
