------------------------------- MODULE RuleFile -------------------------------
(***************************************************************************)
(* rules.json and those around it: the handlers of antibot-admin, which    *)
(* share one rules.Store and its lock on edits, the antibot rules commands *)
(* and the owner's text editor, each a process of its own, and the core,   *)
(* whose Store looks at the time and the size of the file and reads it     *)
(* when they changed. A Store replaces the file whole by a rename.         *)
(***************************************************************************)
EXTENDS RuleEdits, Integers

CONSTANTS
  Handlers,    (* requests the admin serves at the same time               *)
  Commands,    (* other processes that read, change and replace the file   *)
  MaxEdits,    (* bound: changes of the file                               *)
  Crashes,     (* whether processes are killed                             *)
  Faults       (* the writes that may fail: "rules", "decisions", "sent"   *)

Editors == Handlers \cup Commands
NoEdit == [do |-> "none", rule |-> 0]

VARIABLES
  file,     \* rules.json
  broken,   \* whether it was left unreadable, by hand
  edit,     \* what each editor is about to do
  base,     \* the rules each editor has read for it
  edits,    \* how many changes were begun
  raced,    \* history: editors another process has overtaken since they read
  inForce,  \* the core's set
  known,    \* whether the core's time and size are those of the file
  look      \* the core has looked at the file and not read it: whether the
            \* file is still the one it looked at

editing == <<edit, base, edits, raced>>
core == <<inForce, known, look>>
fileVars == <<file, broken, editing, core>>

-----------------------------------------------------------------------------
(* Mutant of EditsFree: the file is read before the lock is taken.         *)
EditsFreeLater(e) == TRUE

(* Store.edits: "two changes arriving at once must not both start from the *)
(* same file and lose one of them". It is one process's lock.              *)
EditsFree(e) == e \in Handlers => \A h \in Handlers : edit[h] = NoEdit

(* Another process than e's is in the middle of an edit.                   *)
Elsewhere(e) ==
  {d \in Editors : edit[d] # NoEdit /\ d # e /\ ~({d, e} \subseteq Handlers)}

Read(e, change) ==
  /\ edits < MaxEdits
  /\ edit[e] = NoEdit
  /\ EditsFree(e)
  /\ ~broken
  /\ Allowed(file, change)
  /\ edit' = [edit EXCEPT ![e] = change]
  /\ base' = [base EXCEPT ![e] = file]
  /\ edits' = edits + 1
  /\ UNCHANGED <<file, broken, raced, core>>

(* Mutant of Touched: the core compares sizes, "shadow" and "active" are   *)
(* of one length.                                                          *)
TouchedInTime ==
  /\ look' = IF look = "none" THEN "none" ELSE "old"
  /\ UNCHANGED <<inForce, known>>

(* The core's time and size are no longer the file's: every replacement    *)
(* gives the file another time.                                            *)
Touched ==
  /\ known' = FALSE
  /\ look' = IF look = "none" THEN "none" ELSE "old"
  /\ UNCHANGED inForce

Dropped(done) ==
  /\ edit' = [e \in Editors |-> IF e \in done THEN NoEdit ELSE edit[e]]
  /\ base' = [e \in Editors |-> IF e \in done THEN EmptyBook ELSE base[e]]

(* Write: a temporary file and a rename.                                   *)
Replace(e) ==
  /\ edit[e] # NoEdit
  /\ file' = Applied(base[e], edit[e])
  /\ broken' = FALSE
  /\ raced' = (raced \cup Elsewhere(e)) \ {e}
  /\ Dropped({e})
  /\ Touched
  /\ UNCHANGED edits

WriteFails(e) ==
  /\ "rules" \in Faults
  /\ edit[e] # NoEdit
  /\ raced' = raced \ {e}
  /\ Dropped({e})
  /\ UNCHANGED <<file, broken, edits, core>>

(* The owner saves a file the node cannot parse, and mends it.             *)
Scribble ==
  /\ edits < MaxEdits
  /\ ~broken
  /\ broken' = TRUE
  /\ edits' = edits + 1
  /\ Touched
  /\ UNCHANGED <<file, edit, base, raced>>

Mend ==
  /\ broken
  /\ broken' = FALSE
  /\ Touched
  /\ UNCHANGED <<file, editing>>

AdminStops ==
  /\ Dropped(Handlers)
  /\ raced' = raced \ Handlers
  /\ UNCHANGED <<file, broken, edits, core>>

-----------------------------------------------------------------------------
(* reloadLocked, called by the watcher and when the admin says it has      *)
(* written the file: first the time and the size, then the contents.       *)
Stat ==
  /\ ~known
  /\ look = "none"
  /\ look' = "current"
  /\ UNCHANGED <<file, broken, editing, inForce, known>>

(* "A broken file must neither bring the node down nor silently lift the   *)
(* protection."                                                            *)
LoadFails ==
  /\ look # "none"
  /\ broken
  /\ look' = "none"
  /\ UNCHANGED <<file, broken, editing, inForce, known>>

(* The time and size kept are those seen before the contents were read.    *)
Load ==
  /\ look # "none"
  /\ ~broken
  /\ inForce' = file
  /\ known' = (look = "current")
  /\ look' = "none"
  /\ UNCHANGED <<file, broken, editing>>

(* Open: a core does not start with a file it cannot read.                 *)
CoreOpens ==
  /\ ~broken
  /\ inForce' = file
  /\ known' = TRUE
  /\ look' = "none"
  /\ UNCHANGED <<file, broken, editing>>

FileInit ==
  /\ file \in Books
  /\ broken = FALSE
  /\ edit = [e \in Editors |-> NoEdit]
  /\ base = [e \in Editors |-> EmptyBook]
  /\ edits = 0
  /\ raced = {}
  /\ inForce = file
  /\ known = TRUE
  /\ look = "none"

FileTypeOK ==
  /\ file \in Books
  /\ broken \in BOOLEAN
  /\ edit \in [Editors -> Edit \cup {NoEdit}]
  /\ base \in [Editors -> Books]
  /\ edits \in 0..MaxEdits
  /\ raced \subseteq {e \in Editors : edit[e] # NoEdit}
  /\ inForce \in Books
  /\ known \in BOOLEAN
  /\ look \in {"none", "current", "old"}

-----------------------------------------------------------------------------
Book == INSTANCE RuleBook WITH book <- file

(* The write of an editor another process has overtaken: the one case in   *)
(* which the file loses an edit.                                           *)
Overtaken == \E e \in raced : edit[e] # NoEdit /\ edit'[e] = NoEdit

(* No edit is lost, whatever the handlers, the commands, failed writes and *)
(* crashes do: every change of rules.json is one edit of the rules that    *)
(* were in it, except when another process wrote it in between.            *)
ImplementsRuleBook == Book!Init /\ [][Book!Next \/ Overtaken]_file

(* "The previous set stays in force" only for as long as the file is       *)
(* broken: in the end the core enforces what rules.json says.              *)
InForceFollows == <>[](broken \/ inForce = file)
===============================================================================
