--------------------------- MODULE ProposalsProofs ---------------------------
(***************************************************************************)
(* Theorems about rules.json and the owner's decisions, for any number of  *)
(* rules, proposals, handlers and other processes.                         *)
(***************************************************************************)
EXTENDS Proposals, TLAPS

-----------------------------------------------------------------------------
(* The rules as functions.                                                 *)

LEMMA BooksAre ==
  \A b : b \in Books <=> DOMAIN b \subseteq Rules /\ b \in [DOMAIN b -> Entry]
  BY DEF Books

LEMMA EmptyBookOK == EmptyBook \in Books
<1>1. EmptyBook \in [{} -> Entry]
  BY DEF EmptyBook
<1>. QED  BY <1>1 DEF Books

(* NoEdit is none of the edits: no rule has the id 0.                      *)
LEMMA NoEditIsNone == NoEdit \notin Edit
  BY RulesAssumption DEF NoEdit, Edit

LEMMA NobodyIsNone == Nobody \notin [by: Handlers, id: Proposed]
  BY ProposalsAssumption DEF Nobody

(* An edit that is allowed leaves a list of rules.                         *)
LEMMA AppliedOK ==
  ASSUME NEW b \in Books, NEW c \in Edit, Allowed(b, c)
  PROVE  Applied(b, c) \in Books
<1>1. DOMAIN b \subseteq Rules /\ b \in [DOMAIN b -> Entry]
  BY BooksAre
<1>2. c.rule \in Rules /\ c.do \in Additions \cup Modes \cup {"remove", "enable", "disable"}
  BY DEF Edit
<1>3. ASSUME NEW m \in Modes PROVE With(b, c.rule, m) \in Books
  <2>1. With(b, c.rule, m) \in [DOMAIN b \cup {c.rule} -> Entry]
    BY <1>1, <1>3 DEF With, Entry, Modes
  <2>2. DOMAIN b \cup {c.rule} \in SUBSET Rules
    BY <1>1, <1>2
  <2>. QED  BY <2>1, <2>2 DEF Books
<1>4. Without(b, c.rule) \in Books
  <2>1. Without(b, c.rule) \in [DOMAIN b \ {c.rule} -> Entry]
    BY <1>1 DEF Without
  <2>. QED  BY <1>1, <2>1 DEF Books
<1>5. ASSUME c.do \notin Additions, NEW v \in Entry
      PROVE  [b EXCEPT ![c.rule] = v] \in Books
  <2>1. [b EXCEPT ![c.rule] = v] \in [DOMAIN b -> Entry]
    BY <1>1, <1>5
  <2>. QED  BY <1>1, <2>1 DEF Books
<1>6. CASE c.do \in Additions
  <2>1. c.do = "add" \/ c.do = "add active"
    BY <1>6 DEF Additions
  <2>2. "shadow" \in Modes /\ "active" \in Modes
    BY DEF Modes
  <2>3. Applied(b, c) \in {With(b, c.rule, "shadow"), With(b, c.rule, "active")}
    BY <2>1 DEF Applied, Modes
  <2>. QED  BY <1>3, <2>2, <2>3
<1>7. CASE c.do = "remove"
  BY <1>4, <1>7 DEF Applied, Modes
<1>8. CASE c.do \in Modes
  <2>1. c.rule \in DOMAIN b
    BY <1>8 DEF Allowed, Additions, Modes
  <2>2. [b EXCEPT ![c.rule].mode = c.do] = [b EXCEPT ![c.rule] = [b[c.rule] EXCEPT !.mode = c.do]]
    OBVIOUS
  <2>3. [b[c.rule] EXCEPT !.mode = c.do] \in Entry
    BY <1>1, <1>8, <2>1 DEF Entry, Modes
  <2>4. c.do \notin Additions
    BY <1>8 DEF Additions, Modes
  <2>. QED  BY <1>5, <1>8, <2>2, <2>3, <2>4 DEF Applied, Modes
<1>9. CASE c.do \in {"enable", "disable"}
  <2>1. c.rule \in DOMAIN b
    BY <1>9 DEF Allowed, Additions
  <2>2. [b EXCEPT ![c.rule].enabled = (c.do = "enable")]
          = [b EXCEPT ![c.rule] = [b[c.rule] EXCEPT !.enabled = (c.do = "enable")]]
    OBVIOUS
  <2>3. [b[c.rule] EXCEPT !.enabled = (c.do = "enable")] \in Entry
    BY <1>1, <2>1 DEF Entry
  <2>4. c.do \notin Additions
    BY <1>9 DEF Additions
  <2>. QED  BY <1>5, <1>9, <2>2, <2>3, <2>4 DEF Applied, Modes
<1>. QED  BY <1>2, <1>6, <1>7, <1>8, <1>9

-----------------------------------------------------------------------------
(* The invariant of the file.                                              *)

(* An edit is made to the rules it was checked against.                    *)
Ready == \A e \in Editors : edit[e] # NoEdit => Allowed(base[e], edit[e])

(* The lock on edits.                                                      *)
OneHandler ==
  \A g, h \in Handlers : edit[g] # NoEdit /\ edit[h] # NoEdit => g = h

(* What an editor has read is what the file holds, unless another process  *)
(* came in between.                                                        *)
UpToDate == \A e \in Editors \ raced : edit[e] # NoEdit => base[e] = file

FileInv == FileTypeOK /\ Ready /\ OneHandler /\ UpToDate

LEMMA FileInitOK == FileInit => FileInv
<1>. SUFFICES ASSUME FileInit PROVE FileInv
  OBVIOUS
<1>1. FileTypeOK
  <2>1. /\ file \in Books /\ inForce \in Books
        /\ broken \in BOOLEAN /\ known \in BOOLEAN
        /\ look \in {"none", "current", "old"}
    BY DEF FileInit
  <2>2. edit \in [Editors -> Edit \cup {NoEdit}] /\ base \in [Editors -> Books]
    BY EmptyBookOK DEF FileInit
  <2>3. edits \in 0..MaxEdits /\ raced \subseteq {e \in Editors : edit[e] # NoEdit}
    BY ProposalsAssumption DEF FileInit
  <2>. QED  BY <2>1, <2>2, <2>3 DEF FileTypeOK
<1>2. \A e \in Editors : edit[e] = NoEdit
  BY DEF FileInit
<1>. QED  BY <1>1, <1>2 DEF FileInv, Ready, OneHandler, UpToDate, Editors

LEMMA ReadKeeps ==
  ASSUME FileInv, NEW e \in Editors, NEW c \in Edit, Read(e, c)
  PROVE  FileInv'
<1>. USE DEF FileInv
<1>1. FileTypeOK'
  BY NoEditIsNone, ProposalsAssumption DEF FileTypeOK, Read, core
<1>2. Ready'
  BY DEF Ready, FileTypeOK, Read
<1>3. OneHandler'
  BY DEF OneHandler, FileTypeOK, Read, EditsFree, Editors
<1>4. UpToDate'
  BY DEF UpToDate, FileTypeOK, Read
<1>. QED  BY <1>1, <1>2, <1>3, <1>4

(* Dropping edits takes nothing from those that stay.                      *)
LEMMA DroppedIs ==
  ASSUME FileTypeOK, NEW done, Dropped(done), raced' \cap done = {}
  PROVE  /\ edit' \in [Editors -> Edit \cup {NoEdit}]
         /\ base' \in [Editors -> Books]
         /\ \A e \in Editors : edit'[e] # NoEdit =>
              e \notin done /\ edit'[e] = edit[e] /\ base'[e] = base[e]
         /\ \A e \in Editors \ done : edit'[e] = edit[e]
  BY EmptyBookOK DEF FileTypeOK, Dropped

LEMMA ReplaceKeeps ==
  ASSUME FileInv, NEW e \in Editors, Replace(e)
  PROVE  FileInv'
<1>. USE DEF FileInv
<1>1. raced' \cap {e} = {} /\ Dropped({e})
  BY DEF Replace
<1>2. FileTypeOK'
  <2>1. edit[e] \in Edit /\ base[e] \in Books /\ Allowed(base[e], edit[e])
    BY DEF Replace, Ready, FileTypeOK
  <2>2. file' \in Books
    BY <2>1, AppliedOK DEF Replace
  <2>3. raced' \subseteq {d \in Editors : edit'[d] # NoEdit}
    BY <1>1, DroppedIs DEF FileTypeOK, Replace, Elsewhere
  <2>. QED  BY <1>1, <2>2, <2>3, DroppedIs DEF FileTypeOK, Replace, Touched
<1>3. Ready'
  BY <1>1, DroppedIs DEF Ready
<1>4. OneHandler'
  BY <1>1, DroppedIs DEF OneHandler, Editors
<1>5. UpToDate'
  <2>. SUFFICES ASSUME NEW d \in Editors, edit'[d] # NoEdit, d \notin raced'
                PROVE  FALSE
    BY DEF UpToDate
  <2>1. edit[d] # NoEdit /\ d # e
    BY <1>1, DroppedIs
  <2>2. d \notin Elsewhere(e)
    BY <2>1 DEF Replace
  <2>3. {d, e} \subseteq Handlers
    BY <2>1, <2>2 DEF Elsewhere
  <2>. QED  BY <2>1, <2>3 DEF OneHandler, Replace
<1>. QED  BY <1>2, <1>3, <1>4, <1>5

LEMMA DropKeeps ==
  ASSUME FileInv, NEW done, Dropped(done), raced' = raced \ done,
         UNCHANGED <<file, broken, edits, core>>
  PROVE  FileInv'
<1>. USE DEF FileInv
<1>1. FileTypeOK'
  BY DroppedIs DEF FileTypeOK, core
<1>2. Ready'
  BY DroppedIs DEF Ready
<1>3. OneHandler'
  BY DroppedIs DEF OneHandler, Editors
<1>4. UpToDate'
  BY DroppedIs DEF UpToDate
<1>. QED  BY <1>1, <1>2, <1>3, <1>4

(* What leaves the file's rules and the editors alone.                     *)
LEMMA OtherKeeps ==
  ASSUME FileInv, UNCHANGED <<file, edit, base, raced>>,
         broken' \in BOOLEAN, edits' \in 0..MaxEdits, inForce' \in Books,
         known' \in BOOLEAN, look' \in {"none", "current", "old"}
  PROVE  FileInv'
  BY DEF FileInv, FileTypeOK, Ready, OneHandler, UpToDate

-----------------------------------------------------------------------------
(* The invariant of the whole.                                             *)

(* The rest of TypeOK.                                                     *)
OwnerTypeOK ==
  /\ doc \subseteq Ids
  /\ decisions \in [Ids -> {"none", "accepted", "rejected"}]
  /\ deciding \in [by: Handlers, id: Proposed] \cup {Nobody}
  /\ added \subseteq Proposed

SenderTypeOK ==
  /\ sent \in [Ids -> States \cup {"none"}]
  /\ feedback \in [at: {"idle", "computing", "posting", "saving"},
                   decided: [Ids -> {"none", "accepted", "rejected"}],
                   items: Reports]
  /\ cloud \in [Ids -> States \cup {"none"}]

(* Store.mu: nothing decides what is being accepted, and once its rule is  *)
(* written it has been added.                                              *)
Locked ==
  deciding # Nobody =>
    /\ decisions[deciding.id] = "none"
    /\ edit[deciding.by] = NoEdit => deciding.id \in added

IInv ==
  /\ FileInv
  /\ OwnerTypeOK
  /\ SenderTypeOK
  /\ Locked
  /\ AcceptedWasAdded

LEMMA TypeIs == TypeOK <=> FileTypeOK /\ OwnerTypeOK /\ SenderTypeOK
  BY DEF TypeOK, OwnerTypeOK, SenderTypeOK

LEMMA ReportsAre ==
  ASSUME NEW S \in SUBSET Ids, NEW f \in [S -> States]
  PROVE  f \in Reports /\ DOMAIN f = S
  BY DEF Reports

LEMMA RestingOK ==
  Resting \in [at: {"idle", "computing", "posting", "saving"},
               decided: [Ids -> {"none", "accepted", "rejected"}],
               items: Reports]
<1>1. NoItems \in [{} -> States]
  BY DEF NoItems
<1>2. NoItems \in Reports
  BY <1>1, ReportsAre
<1>. QED  BY <1>2 DEF Resting

LEMMA InitOK == Init => IInv
<1>. SUFFICES ASSUME Init PROVE IInv
  OBVIOUS
<1>1. FileInv
  BY FileInitOK DEF Init
<1>2. OwnerTypeOK
  BY DEF Init, OwnerTypeOK
<1>3. SenderTypeOK
  BY RestingOK DEF Init, SenderTypeOK
<1>4. Locked /\ AcceptedWasAdded
  BY DEF Init, Locked, AcceptedWasAdded, Ids
<1>. QED  BY <1>1, <1>2, <1>3, <1>4 DEF IInv

(* What is noted of a report is what the report says.                      *)
LEMMA NotedOK ==
  ASSUME SenderTypeOK, NEW known0 \in [Ids -> States \cup {"none"}]
  PROVE  Noted(known0) \in [Ids -> States \cup {"none"}]
<1>1. PICK S \in SUBSET Ids : feedback.items \in [S -> States]
  BY DEF SenderTypeOK, Reports
<1>. QED  BY <1>1 DEF Noted, Told

(* A batch says of each of its ids what became of it.                      *)
LEMMA BatchOK == [id \in Batch |-> Outcome(feedback.decided, doc, inForce, id)] \in Reports
<1>1. \A id \in Batch : Outcome(feedback.decided, doc, inForce, id) \in States
  BY DEF Batch, News, Outcome, Became, States
<1>2. Batch \in SUBSET Ids
  BY DEF Batch
<1>. QED  BY <1>1, <1>2 DEF Reports

-----------------------------------------------------------------------------
(* The steps of the owner.                                                 *)

LEMMA OwnerKeeps ==
  ASSUME IInv, Owner
  PROVE  IInv'
<1>. USE DEF IInv
<1>1. ASSUME NEW e \in Editors, EditRule(e) PROVE IInv'
  <2>1. PICK c \in Edit : Read(e, c)
    BY <1>1, ProposalsAssumption DEF EditRule
  <2>2. FileInv'
    BY <2>1, ReadKeeps
  <2>3. deciding # Nobody => edit'[deciding.by] = edit[deciding.by]
    BY <1>1, <2>1 DEF EditRule, Read, OwnerTypeOK, FileInv, FileTypeOK, Editors
  <2>. QED  BY <1>1, <2>2, <2>3 DEF EditRule, OwnerTypeOK, SenderTypeOK, sender, Locked, AcceptedWasAdded
<1>2. ASSUME NEW e \in Editors, Written(e) PROVE IInv'
  <2>1. Replace(e)
    BY <1>2 DEF Written
  <2>2. FileInv'
    BY <2>1, ReplaceKeeps
  <2>3. \A d \in Editors : d # e => edit'[d] = edit[d]
    BY <2>1 DEF Replace, Dropped
  <2>4. OwnerTypeOK' /\ SenderTypeOK'
    <3>1. deciding.by = e => deciding.id \in Proposed
      BY ProposalsAssumption DEF OwnerTypeOK, Nobody
    <3>. QED  BY <1>2, <3>1 DEF Written, OwnerTypeOK, SenderTypeOK, sender
  <2>5. Locked'
    BY <1>2, <2>3 DEF Written, Locked, OwnerTypeOK, Editors
  <2>6. AcceptedWasAdded'
    BY <1>2 DEF Written, AcceptedWasAdded
  <2>. QED  BY <2>2, <2>4, <2>5, <2>6
<1>3. ASSUME NEW e \in Editors, NotWritten(e) PROVE IInv'
  <2>1. WriteFails(e)
    BY <1>3 DEF NotWritten
  <2>2. FileInv'
    BY <2>1, DropKeeps DEF WriteFails
  <2>3. \A d \in Editors : d # e => edit'[d] = edit[d]
    BY <2>1 DEF WriteFails, Dropped
  <2>4. OwnerTypeOK' /\ SenderTypeOK'
    BY <1>3 DEF NotWritten, OwnerTypeOK, SenderTypeOK, sender
  <2>5. Locked'
    BY <1>3, <2>3 DEF NotWritten, Locked, OwnerTypeOK, Editors
  <2>. QED  BY <1>3, <2>2, <2>4, <2>5 DEF NotWritten, AcceptedWasAdded
<1>4. ASSUME NEW h \in Handlers, NEW id \in Proposed, Accept(h, id) PROVE IInv'
  <2> DEFINE c == [do |-> "add", rule |-> RuleOf[id]]
  <2>1. c \in Edit /\ h \in Editors
    BY ProposalsAssumption DEF Edit, Additions, Editors
  <2>2. Read(h, c)
    BY <1>4 DEF Accept
  <2>3. FileInv'
    BY <2>1, <2>2, ReadKeeps
  <2>4. edit'[h] = c
    BY <2>1, <2>2 DEF Read, FileInv, FileTypeOK
  <2>5. edit'[h] # NoEdit
    BY <2>1, <2>4, NoEditIsNone
  <2>6. OwnerTypeOK' /\ SenderTypeOK'
    BY <1>4 DEF Accept, OwnerTypeOK, SenderTypeOK, sender
  <2>7. Locked'
    BY <1>4, <2>5 DEF Accept, Locked, Undecided
  <2>. QED  BY <1>4, <2>3, <2>6, <2>7 DEF Accept, AcceptedWasAdded
<1>5. CASE Decide
  <2>1. deciding \in [by: Handlers, id: Proposed] /\ deciding.id \in added
    BY <1>5 DEF Decide, RuleIsIn, Locked, OwnerTypeOK
  <2>2. FileInv'
    BY <1>5, OtherKeeps DEF Decide, fileVars, editing, core, FileInv, FileTypeOK
  <2>3. OwnerTypeOK' /\ SenderTypeOK'
    BY <1>5, <2>1 DEF Decide, OwnerTypeOK, SenderTypeOK, sender, Ids
  <2>4. AcceptedWasAdded'
    BY <1>5, <2>1 DEF Decide, AcceptedWasAdded, OwnerTypeOK, Ids
  <2>. QED  BY <1>5, <2>2, <2>3, <2>4 DEF Decide, Locked
<1>6. CASE DecideFails
  <2>1. FileInv'
    BY <1>6, OtherKeeps DEF DecideFails, fileVars, editing, core, FileInv, FileTypeOK
  <2>. QED  BY <1>6, <2>1 DEF DecideFails, OwnerTypeOK, SenderTypeOK, sender, Locked, AcceptedWasAdded
<1>7. ASSUME NEW id \in Ids, Reject(id) PROVE IInv'
  <2>1. FileInv'
    BY <1>7, OtherKeeps DEF Reject, fileVars, editing, core, FileInv, FileTypeOK
  <2>2. OwnerTypeOK' /\ SenderTypeOK'
    BY <1>7 DEF Reject, OwnerTypeOK, SenderTypeOK, sender
  <2>3. Locked' /\ AcceptedWasAdded'
    BY <1>7 DEF Reject, Alone, Locked, AcceptedWasAdded, OwnerTypeOK, Ids
  <2>. QED  BY <2>1, <2>2, <2>3
<1>8. CASE AdminRestart
  <2>1. FileInv'
    BY <1>8, DropKeeps DEF AdminRestart, AdminStops
  <2>. QED  BY <1>8, <2>1 DEF AdminRestart, OwnerTypeOK, SenderTypeOK, sender, Locked, AcceptedWasAdded
<1>9. CASE Save
  <2>1. FileInv'
    <3>1. CASE Scribble
      <4>1. edits' \in 0..MaxEdits
        BY <3>1, ProposalsAssumption DEF Scribble, FileInv, FileTypeOK
      <4>2. look' \in {"none", "current", "old"} /\ known' \in BOOLEAN
        BY <3>1 DEF Scribble, Touched
      <4>3. broken' \in BOOLEAN /\ inForce' \in Books
        BY <3>1 DEF Scribble, Touched, FileInv, FileTypeOK
      <4>. QED  BY <3>1, <4>1, <4>2, <4>3, OtherKeeps DEF Scribble
    <3>2. CASE Mend
      BY <3>2, OtherKeeps DEF Mend, Touched, editing, FileInv, FileTypeOK
    <3>. QED  BY <1>9, <3>1, <3>2 DEF Save
  <2>2. UNCHANGED edit
    BY <1>9 DEF Save, Scribble, Mend, editing
  <2>. QED  BY <1>9, <2>1, <2>2 DEF Save, OwnerTypeOK, SenderTypeOK, sender, Locked, AcceptedWasAdded
<1>. QED  BY <1>1, <1>2, <1>3, <1>4, <1>5, <1>6, <1>7, <1>8, <1>9 DEF Owner

-----------------------------------------------------------------------------
(* The steps of the core.                                                  *)

LEMMA CoreKeeps ==
  ASSUME IInv, Fetch \/ Reload \/ CoreRestart
  PROVE  IInv'
<1>. USE DEF IInv
<1>1. CASE Fetch
  <2>1. FileInv'
    BY <1>1, OtherKeeps DEF Fetch, fileVars, editing, core, FileInv, FileTypeOK
  <2>2. doc' \subseteq Ids
    BY <1>1, ProposalsAssumption DEF Fetch
  <2>3. UNCHANGED edit
    BY <1>1 DEF Fetch, fileVars, editing
  <2>. QED  BY <1>1, <2>1, <2>2, <2>3 DEF Fetch, OwnerTypeOK, SenderTypeOK, sender, Locked, AcceptedWasAdded
<1>2. CASE Reload
  <2>1. FileInv' /\ UNCHANGED edit
    <3>1. CASE Stat
      BY <3>1, OtherKeeps DEF Stat, editing, FileInv, FileTypeOK
    <3>2. CASE Load
      BY <3>2, OtherKeeps DEF Load, editing, FileInv, FileTypeOK
    <3>3. CASE LoadFails
      BY <3>3, OtherKeeps DEF LoadFails, editing, FileInv, FileTypeOK
    <3>. QED  BY <1>2, <3>1, <3>2, <3>3 DEF Reload
  <2>. QED  BY <1>2, <2>1 DEF Reload, OwnerTypeOK, SenderTypeOK, sender, Locked, AcceptedWasAdded
<1>3. CASE CoreRestart
  <2>1. FileInv' /\ UNCHANGED edit
    BY <1>3, OtherKeeps DEF CoreRestart, CoreOpens, editing, FileInv, FileTypeOK
  <2>2. SenderTypeOK'
    BY <1>3, RestingOK DEF CoreRestart, SenderTypeOK
  <2>. QED  BY <1>3, <2>1, <2>2 DEF CoreRestart, OwnerTypeOK, Locked, AcceptedWasAdded
<1>. QED  BY <1>1, <1>2, <1>3

LEMMA SenderKeeps ==
  ASSUME IInv, SenderStep
  PROVE  IInv'
<1>. USE DEF IInv
<1>1. UNCHANGED <<fileVars, doc, decisions, deciding, added>>
  BY DEF SenderStep, FeedbackStarts, FeedbackComputes, PostTaken, PostUnheard,
         PostRefused, FeedbackSaves, FeedbackSaveFails
<1>2. FileInv'
  BY <1>1, OtherKeeps DEF fileVars, editing, core, FileInv, FileTypeOK
<1>3. OwnerTypeOK' /\ Locked' /\ AcceptedWasAdded'
  BY <1>1 DEF fileVars, editing, OwnerTypeOK, Locked, AcceptedWasAdded
<1>4. SenderTypeOK'
  <2>1. CASE FeedbackStarts
    BY <2>1 DEF FeedbackStarts, SenderTypeOK, OwnerTypeOK
  <2>2. CASE FeedbackComputes
    <3>1. UNCHANGED <<sent, cloud>>
      BY <2>2 DEF FeedbackComputes
    <3>2. CASE Batch = {}
      BY <2>2, <3>1, <3>2, RestingOK DEF FeedbackComputes, SenderTypeOK
    <3>3. CASE Batch # {}
      <4>1. Resting.decided \in [Ids -> {"none", "accepted", "rejected"}]
        BY DEF Resting
      <4>. QED  BY <2>2, <3>1, <3>3, <4>1, BatchOK DEF FeedbackComputes, SenderTypeOK
    <3>. QED  BY <3>2, <3>3
  <2>3. CASE PostTaken
    BY <2>3, NotedOK DEF PostTaken, SenderTypeOK
  <2>4. CASE PostUnheard
    BY <2>4, NotedOK, RestingOK DEF PostUnheard, SenderTypeOK
  <2>5. CASE PostRefused
    BY <2>5, RestingOK DEF PostRefused, SenderTypeOK
  <2>6. CASE FeedbackSaves
    BY <2>6, NotedOK, RestingOK DEF FeedbackSaves, SenderTypeOK
  <2>7. CASE FeedbackSaveFails
    BY <2>7, RestingOK DEF FeedbackSaveFails, SenderTypeOK
  <2>. QED  BY <2>1, <2>2, <2>3, <2>4, <2>5, <2>6, <2>7 DEF SenderStep
<1>. QED  BY <1>2, <1>3, <1>4

LEMMA StutterKeeps ==
  ASSUME IInv, UNCHANGED vars
  PROVE  IInv'
<1>. USE DEF IInv
<1>1. FileInv'
  BY OtherKeeps DEF vars, fileVars, editing, core, FileInv, FileTypeOK
<1>. QED  BY <1>1 DEF vars, fileVars, editing, sender, OwnerTypeOK, SenderTypeOK, Locked, AcceptedWasAdded

LEMMA Invariance == Spec => []IInv
<1>1. IInv /\ [Next]_vars => IInv'
  BY OwnerKeeps, CoreKeeps, SenderKeeps, StutterKeeps DEF Next
<1>. QED  BY <1>1, InitOK, PTL DEF Spec

-----------------------------------------------------------------------------
(* Every variable of the rule file, the decisions and the feedback keeps   *)
(* its type; a rule is only changed or removed where there is one.         *)
THEOREM TypeCorrect == Spec => []TypeOK
<1>1. IInv => TypeOK
  BY TypeIs DEF IInv, FileInv
<1>. QED  BY <1>1, Invariance, PTL

(* Accept writes the rule before the decision, whatever fails and whenever *)
(* the admin is killed.                                                    *)
THEOREM AcceptedMeansAdded == Spec => []AcceptedWasAdded
<1>1. IInv => AcceptedWasAdded
  BY DEF IInv
<1>. QED  BY <1>1, Invariance, PTL

(* What one step may do to the decisions.                                  *)
Final == \A id \in Ids : decisions[id] # "none" => decisions'[id] = decisions[id]

LEMMA StepsAreFinal == IInv /\ [Next]_vars => Final
<1>1. ASSUME IInv, Next PROVE Final
  <2>1. CASE Decide
    BY <1>1, <2>1 DEF Decide, RuleIsIn, IInv, Locked, OwnerTypeOK, Final
  <2>2. ASSUME NEW i \in Ids, Reject(i) PROVE Final
    BY <1>1, <2>2 DEF Reject, Undecided, IInv, OwnerTypeOK, Final
  <2>3. CASE UNCHANGED decisions
    BY <2>3 DEF Final
  <2>4. Next => Decide \/ (\E i \in Ids : Reject(i)) \/ UNCHANGED decisions
    BY DEF Next, Owner, EditRule, Written, NotWritten, Accept, DecideFails, AdminRestart,
           Save, Fetch, Reload, SenderStep, FeedbackStarts, FeedbackComputes, PostTaken,
           PostUnheard, PostRefused, FeedbackSaves, FeedbackSaveFails, CoreRestart
  <2>. QED  BY <1>1, <2>1, <2>2, <2>3, <2>4
<1>2. UNCHANGED vars => Final
  BY DEF vars, Final
<1>. QED  BY <1>1, <1>2

(* A proposal is accepted or refused once, however many handlers are asked *)
(* to do both at the same time.                                            *)
THEOREM DecisionsAreFinal == Spec => DecisionsStand
<1>1. IInv /\ [Next]_vars => [Final]_vars
  BY StepsAreFinal
<1>2. Spec => [][Final]_vars
  BY <1>1, Invariance, PTL DEF Spec
<1>. QED  BY <1>2 DEF DecisionsStand, Final

-----------------------------------------------------------------------------
(* What the Sender holds.                                                  *)

(* That an outcome does not contradict the decision.                       *)
Says(id, o) ==
  /\ o = "rejected" => decisions[id] = "rejected"
  /\ o = "done" => id \in Advised
  /\ o \notin {"none", "rejected", "done"} => decisions[id] = "accepted"

(* What the Sender has read still stands.                                  *)
ReadStands ==
  \A id \in Ids : feedback.decided[id] # "none" => decisions[id] = feedback.decided[id]

ItemsSay == \A id \in Told : Says(id, feedback.items[id])

CloudSays == \A id \in Ids : Says(id, cloud[id])

Heard == ReadStands /\ ItemsSay /\ CloudSays

LEMMA ToldIs == SenderTypeOK => Told \subseteq Ids
<1>. SUFFICES ASSUME SenderTypeOK PROVE Told \subseteq Ids
  OBVIOUS
<1>1. PICK S \in SUBSET Ids : feedback.items \in [S -> States]
  BY DEF SenderTypeOK, Reports
<1>. QED  BY <1>1 DEF Told

(* An outcome says what the decisions it was computed from say.            *)
LEMMA OutcomeSays ==
  ASSUME SenderTypeOK, ReadStands, NEW id \in Ids
  PROVE  Says(id, Outcome(feedback.decided, doc, inForce, id))
<1>1. feedback.decided[id] # "none" => decisions[id] = feedback.decided[id]
  BY DEF ReadStands
<1>2. Became(inForce, id) \in {"removed", "disabled", "active", "accepted"}
  BY DEF Became
<1>. QED  BY <1>1, <1>2 DEF Outcome, Says

(* What does not contradict a decision never will.                         *)
LEMMA SaysStays ==
  ASSUME Final, NEW id \in Ids, NEW o, Says(id, o)
  PROVE  Says(id, o)'
  BY DEF Final, Says

LEMMA RestingSays ==
  ASSUME feedback' = Resting
  PROVE  ReadStands' /\ ItemsSay'
<1>1. feedback'.decided = [id \in Ids |-> "none"] /\ DOMAIN feedback'.items = {}
  BY DEF Resting, NoItems
<1>. QED  BY <1>1 DEF ReadStands, ItemsSay, Told

LEMMA NotedSays ==
  ASSUME SenderTypeOK, ItemsSay, CloudSays, UNCHANGED decisions, cloud' = Noted(cloud)
  PROVE  CloudSays'
<1>. SUFFICES ASSUME NEW id \in Ids PROVE Says(id, cloud[id])'
  BY DEF CloudSays
<1>1. cloud'[id] = IF id \in Told THEN feedback.items[id] ELSE cloud[id]
  BY DEF Noted
<1>2. Says(id, cloud'[id])
  BY <1>1 DEF ItemsSay, CloudSays
<1>. QED  BY <1>2 DEF Says

LEMMA HeardKeeps ==
  ASSUME IInv, Heard, [Next]_vars
  PROVE  Heard'
<1>. USE DEF Heard
<1>1. Final /\ SenderTypeOK /\ OwnerTypeOK
  BY StepsAreFinal DEF IInv
<1>2. CASE UNCHANGED <<feedback, cloud>>
  <2>1. ReadStands'
    BY <1>1, <1>2 DEF ReadStands, Final, SenderTypeOK
  <2>2. ItemsSay'
    <3>. SUFFICES ASSUME NEW id \in Told' PROVE Says(id, feedback.items[id])'
      BY DEF ItemsSay
    <3>1. id \in Told /\ feedback'.items[id] = feedback.items[id]
      BY <1>2 DEF Told
    <3>2. Says(id, feedback.items[id]) /\ id \in Ids
      BY <1>1, <3>1, ToldIs DEF ItemsSay
    <3>. QED  BY <1>1, <3>1, <3>2 DEF Final, Says
  <2>3. CloudSays'
    BY <1>1, <1>2 DEF CloudSays, Final, Says
  <2>. QED  BY <2>1, <2>2, <2>3
<1>3. ASSUME feedback' = Resting, UNCHANGED cloud PROVE Heard'
  BY <1>1, <1>3, RestingSays DEF CloudSays, Final, Says
<1>4. CASE FeedbackStarts
  <2>1. /\ feedback'.decided = decisions /\ feedback'.items = feedback.items
        /\ UNCHANGED <<decisions, cloud>>
    BY <1>1, <1>4 DEF FeedbackStarts, SenderTypeOK
  <2>. QED  BY <2>1 DEF ReadStands, ItemsSay, CloudSays, Told, Says
<1>5. CASE FeedbackComputes
  <2>1. UNCHANGED <<decisions, cloud>>
    BY <1>5 DEF FeedbackComputes
  <2>2. CASE Batch = {}
    BY <1>3, <1>5, <2>1, <2>2 DEF FeedbackComputes
  <2>3. CASE Batch # {}
    <3> DEFINE f == [id \in Batch |-> Outcome(feedback.decided, doc, inForce, id)]
    <3>1. feedback'.decided = [id \in Ids |-> "none"] /\ feedback'.items = f
      BY <1>5, <2>3 DEF FeedbackComputes, Resting
    <3>2. Batch \subseteq Ids
      BY DEF Batch
    <3>3. ReadStands'
      BY <3>1 DEF ReadStands
    <3>4. ASSUME NEW id \in Batch PROVE Says(id, f[id])
      BY <1>1, <3>2, <3>4, OutcomeSays
    <3>5. Told' = Batch
      BY <3>1 DEF Told
    <3>6. ItemsSay'
      <4>. SUFFICES ASSUME NEW id \in Told' PROVE Says(id, feedback.items[id])'
        BY DEF ItemsSay
      <4>1. id \in Batch /\ feedback'.items[id] = f[id]
        BY <3>1, <3>5
      <4>. HIDE DEF f
      <4>2. Says(id, f[id])
        BY <3>4, <4>1
      <4>. QED  BY <2>1, <4>1, <4>2 DEF Says
    <3>7. CloudSays'
      BY <2>1 DEF CloudSays, Says
    <3>. QED  BY <3>3, <3>6, <3>7
  <2>. QED  BY <2>2, <2>3
<1>6. CASE PostTaken
  <2>1. /\ feedback'.decided = feedback.decided /\ feedback'.items = feedback.items
        /\ UNCHANGED decisions /\ cloud' = Noted(cloud)
    BY <1>1, <1>6 DEF PostTaken, SenderTypeOK
  <2>2. CloudSays'
    BY <1>1, <2>1, NotedSays
  <2>. QED  BY <2>1, <2>2 DEF ReadStands, ItemsSay, Told, Says
<1>7. CASE PostUnheard
  <2>1. feedback' = Resting /\ UNCHANGED decisions /\ cloud' = Noted(cloud)
    BY <1>7 DEF PostUnheard
  <2>. QED  BY <1>1, <2>1, RestingSays, NotedSays
<1>8. CASE PostRefused \/ FeedbackSaves \/ FeedbackSaveFails \/ CoreRestart
  BY <1>3, <1>8 DEF PostRefused, FeedbackSaves, FeedbackSaveFails, CoreRestart
<1>9. CASE Owner \/ Fetch \/ Reload \/ UNCHANGED vars
  <2>1. UNCHANGED <<feedback, cloud>>
    BY <1>9 DEF Owner, EditRule, Written, NotWritten, Accept, Decide, DecideFails, Reject,
           AdminRestart, Save, Fetch, Reload, sender, vars
  <2>. QED  BY <1>2, <2>1
<1>. QED  BY <1>4, <1>5, <1>6, <1>7, <1>8, <1>9 DEF Next, SenderStep

(* Whatever the cloud has heard of a proposal or an advice agrees with the *)
(* decision, however the Sender's readings, the owner's decisions, lost    *)
(* answers and restarts come in between one another.                       *)
THEOREM TheCloudHearsTheDecision == Spec => []ToldAsDecided
<1>1. Init => Heard
  <2>. SUFFICES ASSUME Init PROVE Heard
    OBVIOUS
  <2>1. feedback.decided = [id \in Ids |-> "none"] /\ DOMAIN feedback.items = {}
    BY DEF Init, Resting, NoItems
  <2>2. \A id \in Ids : cloud[id] = "none"
    BY DEF Init
  <2>. QED  BY <2>1, <2>2 DEF Heard, ReadStands, ItemsSay, CloudSays, Told, Says
<1>2. IInv /\ Heard /\ [Next]_vars => Heard'
  BY HeardKeeps
<1>3. Heard => ToldAsDecided
  <2>. SUFFICES ASSUME Heard, NEW id \in Ids
                PROVE  CASE cloud[id] = "none"     -> TRUE
                         [] cloud[id] = "rejected" -> decisions[id] = "rejected"
                         [] cloud[id] = "done"     -> id \in Advised
                         [] OTHER                  -> decisions[id] = "accepted"
    BY DEF ToldAsDecided
  <2>1. Says(id, cloud[id])
    BY DEF Heard, CloudSays
  <2>. QED  BY <2>1 DEF Says
<1>. QED  BY <1>1, <1>2, <1>3, Invariance, PTL DEF Spec

-----------------------------------------------------------------------------
(* No edit is lost among the handlers of the admin: the file changes by    *)
(* one edit of the rules it held, unless another process came in between.  *)
THEOREM NoEditIsLost == Spec => ImplementsRuleBook
<1>1. Init => Book!Init
  BY DEF Init, FileInit, Book!Init, Book!Books, Book!Entry, Books, Entry
<1>2. ASSUME IInv, Next PROVE [Book!Next \/ Overtaken]_file
  <2>1. ASSUME NEW e \in Editors, Replace(e) PROVE Book!Next \/ Overtaken
    <3>1. edit[e] # NoEdit /\ edit[e] \in Edit /\ file' = Applied(base[e], edit[e])
      BY <1>2, <2>1 DEF Replace, IInv, FileInv, FileTypeOK
    <3>2. CASE e \in raced
      <4>1. edit'[e] = NoEdit
        BY <2>1 DEF Replace, Dropped
      <4>. QED  BY <3>1, <3>2, <4>1 DEF Overtaken
    <3>3. CASE e \notin raced
      <4>1. base[e] = file /\ Allowed(base[e], edit[e])
        BY <1>2, <3>1, <3>3 DEF IInv, FileInv, UpToDate, Ready
      <4>. QED  BY <3>1, <4>1 DEF Book!Next, Book!Change, Book!Allowed, Book!Applied, Book!Edit,
                 Book!Additions, Book!Modes, Book!With, Book!Without,
                 Allowed, Applied, Edit, Additions, Modes, With, Without
    <3>. QED  BY <3>2, <3>3
  <2>2. Next => (\E e \in Editors : Replace(e)) \/ UNCHANGED file
    BY DEF Next, Owner, EditRule, Read, Written, NotWritten, WriteFails, Accept, Decide,
           DecideFails, Reject, AdminRestart, AdminStops, Save, Scribble, Mend, Fetch, Reload,
           Stat, Load, LoadFails, SenderStep, FeedbackStarts, FeedbackComputes, PostTaken,
           PostUnheard, PostRefused, FeedbackSaves, FeedbackSaveFails, CoreRestart, CoreOpens,
           fileVars
  <2>. QED  BY <1>2, <2>1, <2>2
<1>3. IInv /\ [Next]_vars => [Book!Next \/ Overtaken]_file
  BY <1>2 DEF vars, fileVars
<1>. QED  BY <1>1, <1>3, Invariance, PTL DEF Spec, ImplementsRuleBook
==============================================================================
