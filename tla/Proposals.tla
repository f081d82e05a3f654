------------------------------ MODULE Proposals ------------------------------
(***************************************************************************)
(* What the cloud proposes and what the owner decides: proposals.json,     *)
(* which the core's Fetcher replaces; proposals.Store in the admin, which  *)
(* turns an accepted proposal into a rule in shadow and keeps the          *)
(* decisions; and proposals.Sender in the core, which tells the cloud what *)
(* became of each proposal and piece of advice. The rules are RuleFile's.  *)
(***************************************************************************)
EXTENDS RuleFile, FiniteSets

CONSTANTS
  Proposed,    (* proposals                                                *)
  RuleOf,      (* the id of the rule a proposal carries                    *)
  Advised,     (* pieces of advice                                         *)
  About,       (* the rule an advice is about                              *)
  Suggest,     (* "disable", "shadow" or "review", by advice               *)
  Changes,     (* the edits the owner may ask for                          *)
  Lists,       (* the lists the cloud may publish                          *)
  Before,      (* what rules.json may hold before the first proposal       *)
  MaxItems     (* maxItemsPerPost                                          *)

Ids == Proposed \cup Advised

ASSUME ProposalsAssumption ==
  /\ Proposed \subseteq Nat \ {0} /\ Advised \subseteq Nat \ {0}
  /\ RuleOf \in [Proposed -> Rules]
  /\ Proposed \cap Advised = {}
  /\ About \in [Advised -> Rules]
  /\ Suggest \in [Advised -> {"disable", "shadow", "review"}]
  /\ Changes \subseteq Edit
  /\ Lists \subseteq SUBSET Ids
  /\ Before \subseteq Books
  /\ MaxItems \in Nat \ {0}
  /\ MaxEdits \in Nat
  /\ "nobody" \notin Editors

Nobody == [by |-> "nobody", id |-> 0]
States == {"accepted", "active", "disabled", "removed", "rejected", "done"}
NoItems == [id \in {} |-> "done"]
Reports == UNION {[S -> States] : S \in SUBSET Ids}

VARIABLES
  doc,         \* proposals.json: the ids in the current list
  decisions,   \* proposal-decisions.json
  deciding,    \* Store.mu: who is accepting what
  added,       \* history: proposals whose rule Accept has written
  sent,        \* proposals-feedback.json: what the cloud was last told
  feedback,    \* the Sender: what it does, the decisions it read, its items
  cloud        \* what the cloud has last taken of each id

sender == <<sent, feedback, cloud>>
vars == <<fileVars, doc, decisions, deciding, added, sender>>

Resting == [at |-> "idle", decided |-> [id \in Ids |-> "none"], items |-> NoItems]

-----------------------------------------------------------------------------
(* A handler, a command or the owner's text editor changes a rule.         *)
EditRule(e) ==
  /\ deciding.by # e
  /\ \E change \in Changes : Read(e, change)
  /\ UNCHANGED <<doc, decisions, deciding, added, sender>>

Undecided(id) == id \in doc /\ decisions[id] = "none"

(* Mutant of Alone: no lock.                                               *)
AloneOrNot == TRUE

(* Store.mu.                                                               *)
Alone == deciding = Nobody

(* Accept, up to the write of the rule: "in shadow, exactly as the cloud   *)
(* sent it".                                                               *)
Accept(h, id) ==
  /\ Alone
  /\ deciding.by # h
  /\ Undecided(id)
  /\ Read(h, [do |-> "add", rule |-> RuleOf[id]])
  /\ deciding' = [by |-> h, id |-> id]
  /\ UNCHANGED <<doc, decisions, added, sender>>

Written(e) ==
  /\ Replace(e)
  /\ added' = IF deciding.by = e THEN added \cup {deciding.id} ELSE added
  /\ UNCHANGED <<doc, decisions, deciding, sender>>

NotWritten(e) ==
  /\ WriteFails(e)
  /\ deciding' = IF deciding.by = e THEN Nobody ELSE deciding
  /\ UNCHANGED <<doc, decisions, added, sender>>

(* Mutant of RuleIsIn: the decision is written first.                      *)
RuleIsInOrNot == deciding # Nobody

RuleIsIn == deciding # Nobody /\ edit[deciding.by] = NoEdit

(* Accept, after the rule: the decision.                                   *)
Decide ==
  /\ RuleIsIn
  /\ decisions' = [decisions EXCEPT ![deciding.id] = "accepted"]
  /\ deciding' = Nobody
  /\ UNCHANGED <<fileVars, doc, added, sender>>

(* The decision could not be written, or the rules were unreadable when    *)
(* Write read them again: the rule is there and the decision is not.       *)
DecideFails ==
  /\ "decisions" \in Faults \/ broken
  /\ RuleIsIn
  /\ deciding' = Nobody
  /\ UNCHANGED <<fileVars, doc, decisions, added, sender>>

Reject(id) ==
  /\ Alone
  /\ Undecided(id)
  /\ decisions' = [decisions EXCEPT ![id] = "rejected"]
  /\ UNCHANGED <<fileVars, doc, deciding, added, sender>>

AdminRestart ==
  /\ Crashes
  /\ AdminStops
  /\ deciding' = Nobody
  /\ UNCHANGED <<doc, decisions, added, sender>>

-----------------------------------------------------------------------------
(* Fetcher.Once: the list arrives whole, or the previous one stays.        *)
Fetch ==
  /\ \E list \in Lists : list # doc /\ doc' = list
  /\ UNCHANGED <<fileVars, decisions, deciding, added, sender>>

Reload ==
  /\ Stat \/ Load \/ LoadFails
  /\ UNCHANGED <<doc, decisions, deciding, added, sender>>

Save ==
  /\ Scribble \/ Mend
  /\ UNCHANGED <<doc, decisions, deciding, added, sender>>

(* computeItems: what became of an accepted proposal, sought among the     *)
(* rules by the proposal's id.                                             *)
Became(book, id) ==
  IF id \notin DOMAIN book THEN "removed"
  ELSE IF ~book[id].enabled THEN "disabled"
  ELSE IF book[id].mode = "active" THEN "active"
  ELSE "accepted"

ActedOn(book, a) ==
  \/ About[a] \notin DOMAIN book
  \/ Suggest[a] = "disable" /\ ~book[About[a]].enabled
  \/ Suggest[a] = "shadow" /\ book[About[a]].mode = "shadow"

(* Mutant of Outcome: every decided proposal is looked up among the rules. *)
OutcomeOfRule(decided, offered, book, id) ==
  IF decided[id] # "none" /\ id \in Proposed THEN Became(book, id)
  ELSE IF decided[id] = "rejected" THEN "rejected"
  ELSE IF id \in Advised \cap offered /\ ActedOn(book, id) THEN "done"
  ELSE "none"

Outcome(decided, offered, book, id) ==
  IF decided[id] = "accepted" THEN Became(book, id)
  ELSE IF decided[id] = "rejected" THEN "rejected"
  ELSE IF id \in Advised \cap offered /\ ActedOn(book, id) THEN "done"
  ELSE "none"

(* Once: the decisions are read first, the rules in force last.            *)
FeedbackStarts ==
  /\ feedback.at = "idle"
  /\ feedback' = [feedback EXCEPT !.at = "computing", !.decided = decisions]
  /\ UNCHANGED <<fileVars, doc, decisions, deciding, added, sent, cloud>>

(* Mutant of News: what was sent once is not sent again.                   *)
NewsOnce(id) ==
  LET o == Outcome(feedback.decided, doc, inForce, id)
  IN o # "none" /\ sent[id] = "none"

(* Mutant of News: whatever differs from what was sent.                    *)
NewsEvenOfNothing(id) ==
  LET o == Outcome(feedback.decided, doc, inForce, id)
  IN o # sent[id]

News(id) ==
  LET o == Outcome(feedback.decided, doc, inForce, id)
  IN o # "none" /\ o # sent[id]

(* The lowest MaxItems of the ids with news.                               *)
Batch ==
  {id \in Ids : News(id) /\ Cardinality({i \in Ids : News(i) /\ i < id}) < MaxItems}

FeedbackComputes ==
  /\ feedback.at = "computing"
  /\ feedback' =
       IF Batch = {} THEN Resting
       ELSE [at |-> "posting", decided |-> Resting.decided,
             items |-> [id \in Batch |-> Outcome(feedback.decided, doc, inForce, id)]]
  /\ UNCHANGED <<fileVars, doc, decisions, deciding, added, sent, cloud>>

Told == DOMAIN feedback.items
Noted(book) == [id \in Ids |-> IF id \in Told THEN feedback.items[id] ELSE book[id]]

(* The cloud takes the post, and the node hears so.                        *)
PostTaken ==
  /\ feedback.at = "posting"
  /\ cloud' = Noted(cloud)
  /\ feedback' = [feedback EXCEPT !.at = "saving"]
  /\ UNCHANGED <<fileVars, doc, decisions, deciding, added, sent>>

(* The cloud takes the post, and the answer is lost.                       *)
PostUnheard ==
  /\ feedback.at = "posting"
  /\ cloud' = Noted(cloud)
  /\ feedback' = Resting
  /\ UNCHANGED <<fileVars, doc, decisions, deciding, added, sent>>

(* Nothing was taken: no answer, no token, or a body the cloud refuses.    *)
PostRefused ==
  /\ feedback.at = "posting"
  /\ feedback' = Resting
  /\ UNCHANGED <<fileVars, doc, decisions, deciding, added, sent, cloud>>

(* writeFeedbackState.                                                     *)
FeedbackSaves ==
  /\ feedback.at = "saving"
  /\ sent' = Noted(sent)
  /\ feedback' = Resting
  /\ UNCHANGED <<fileVars, doc, decisions, deciding, added, cloud>>

FeedbackSaveFails ==
  /\ "sent" \in Faults
  /\ feedback.at = "saving"
  /\ feedback' = Resting
  /\ UNCHANGED <<fileVars, doc, decisions, deciding, added, sent, cloud>>

CoreRestart ==
  /\ Crashes
  /\ CoreOpens
  /\ feedback' = Resting
  /\ UNCHANGED <<doc, decisions, deciding, added, sent, cloud>>

-----------------------------------------------------------------------------
Init ==
  /\ FileInit
  /\ file \in Before
  /\ doc = {}
  /\ decisions = [id \in Ids |-> "none"]
  /\ deciding = Nobody
  /\ added = {}
  /\ sent = [id \in Ids |-> "none"]
  /\ feedback = Resting
  /\ cloud = [id \in Ids |-> "none"]

Owner ==
  \/ \E e \in Editors : EditRule(e) \/ Written(e) \/ NotWritten(e)
  \/ \E h \in Handlers, id \in Proposed : Accept(h, id)
  \/ Decide \/ DecideFails
  \/ \E id \in Ids : Reject(id)
  \/ AdminRestart \/ Save

SenderStep ==
  \/ FeedbackStarts \/ FeedbackComputes
  \/ PostTaken \/ PostUnheard \/ PostRefused
  \/ FeedbackSaves \/ FeedbackSaveFails

Next == Owner \/ Fetch \/ Reload \/ SenderStep \/ CoreRestart

Spec == Init /\ [][Next]_vars

(* The watcher and the Sender run again and again, their timers fire; what *)
(* fails or is cut short by a kill is tried again and some attempt gets    *)
(* through. Nothing is assumed of the owner.                               *)
FairSpec ==
  /\ Spec
  /\ WF_vars(Reload)
  /\ WF_vars(FeedbackStarts)
  /\ SF_vars(FeedbackComputes)
  /\ SF_vars(PostTaken)
  /\ SF_vars(FeedbackSaves)

-----------------------------------------------------------------------------
TypeOK ==
  /\ FileTypeOK
  /\ doc \subseteq Ids
  /\ decisions \in [Ids -> {"none", "accepted", "rejected"}]
  /\ deciding \in [by: Handlers, id: Proposed] \cup {Nobody}
  /\ added \subseteq Proposed
  /\ sent \in [Ids -> States \cup {"none"}]
  /\ feedback \in [at: {"idle", "computing", "posting", "saving"},
                   decided: [Ids -> {"none", "accepted", "rejected"}],
                   items: Reports]
  /\ cloud \in [Ids -> States \cup {"none"}]

(* A decision is final: "so it is not offered again", whoever presses the  *)
(* buttons at once and wherever the admin is killed.                       *)
DecisionsStand ==
  [][\A id \in Ids : decisions[id] # "none" => decisions'[id] = decisions[id]]_vars

(* An accepted proposal has been written into rules.json: the order of the *)
(* two writes in Accept, whatever comes between them.                      *)
AcceptedWasAdded ==
  \A id \in Proposed : decisions[id] = "accepted" => id \in added

(* "What became of each proposal": nothing the cloud hears of a proposal   *)
(* contradicts the owner's decision, though the Sender reads decisions,    *)
(* list and rules at three moments.                                        *)
ToldAsDecided ==
  \A id \in Ids :
    CASE cloud[id] = "none"     -> TRUE
      [] cloud[id] = "rejected" -> decisions[id] = "rejected"
      [] cloud[id] = "done"     -> id \in Advised
      [] OTHER                  -> decisions[id] = "accepted"

Now(id) == Outcome(decisions, doc, file, id)

(* Once the owner leaves an id alone, the last word the cloud was heard to *)
(* take is what became of it, whatever failed before.                      *)
FeedbackSettles ==
  \A id \in Ids : <>[](~broken /\ Now(id) # "none") => <>[](sent[id] = Now(id))

(* docs/en/protocol/proposals.md: "The node tells the cloud what became of *)
(* each proposal". In the end the cloud knows.                             *)
CloudIsTold ==
  \A id \in Ids :
    <>[](~broken /\ Now(id) # "none") => <>[](cloud[id] = Now(id))
===============================================================================
