------------------------------ MODULE RuleEdits ------------------------------
(***************************************************************************)
(* The rules of a node and what may be done to them: rules.Store.Add,      *)
(* Remove, Toggle and SetMode, as functions of the list of rules. A rule   *)
(* is its id; its conditions do not change here.                           *)
(***************************************************************************)
CONSTANT Rules    (* the ids a rule may have                                *)

ASSUME RulesAssumption == 0 \notin Rules

Entry == [enabled: BOOLEAN, mode: {"shadow", "active"}]

(* The contents of rules.json: a rule that is not in the domain is not in  *)
(* the file.                                                               *)
Books == UNION {[S -> Entry] : S \in SUBSET Rules}
EmptyBook == [r \in {} |-> [enabled |-> TRUE, mode |-> "shadow"]]

Additions == {"add", "add active"}
Modes == {"shadow", "active"}
Edit == [do: Additions \cup Modes \cup {"remove", "enable", "disable"},
         rule: Rules]

(* RuleExistsError and NoRuleError.                                        *)
Allowed(book, e) == e.do \in Additions <=> e.rule \notin DOMAIN book

(* A rule is born enabled, and in shadow unless its file says otherwise.   *)
With(book, r, m) ==
  [q \in DOMAIN book \cup {r} |->
     IF q = r THEN [enabled |-> TRUE, mode |-> m] ELSE book[q]]

Without(book, r) == [q \in DOMAIN book \ {r} |-> book[q]]

Applied(book, e) ==
  CASE e.do = "add"        -> With(book, e.rule, "shadow")
    [] e.do = "add active" -> With(book, e.rule, "active")
    [] e.do = "remove"     -> Without(book, e.rule)
    [] e.do \in Modes      -> [book EXCEPT ![e.rule].mode = e.do]
    [] OTHER               -> [book EXCEPT ![e.rule].enabled = (e.do = "enable")]
==============================================================================
