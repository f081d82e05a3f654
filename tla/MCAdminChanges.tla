--------------------------- MODULE MCAdminChanges ---------------------------
(* The values TLC gives: a host and the pattern of the domain above it, two *)
(* certificates, of which the one for both ends later, two owners of        *)
(* crawler networks, two tokens and one account.                            *)
EXTENDS AdminChanges

Exactly == [host |-> <<"ru", "a">>, pattern |-> FALSE]
Below == [host |-> <<"ru">>, pattern |-> TRUE]
Both == {Exactly, Below}
Hosts == {<<"ru", "a">>, <<"ru", "b">>, <<"ru", "a", "b">>, <<"ru">>}
NoSite == [n \in {} |-> "p1"]
NoneOrExactly == {NoSite, [n \in {Exactly} |-> "p2"]}
NoneOrBoth == {NoSite, [n \in Both |-> "p1"]}
Ends == [c \in {"own", "wild"} |-> IF c = "own" THEN 1 ELSE 2]
Leaves == [c \in {"own", "wild"} |-> IF c = "own" THEN {Exactly} ELSE Both]
SameName == [v \in {"v1", "v2"} |-> "ci"]
=============================================================================
