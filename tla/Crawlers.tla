------------------------------ MODULE Crawlers ------------------------------
(***************************************************************************)
(* The pass of the verified crawlers: the settings file the admin UI       *)
(* writes and the core watches, and the memory each of the two keeps of it *)
(* (internal/crawlers, admin/crawlers_page.go, watchCrawlers of serve.go). *)
(*                                                                         *)
(* The list of the owners held back is a slice, and whoever takes a copy   *)
(* of the settings shares its elements with the settings in force.         *)
(***************************************************************************)
EXTENDS Naturals, FiniteSets

CONSTANTS
  Owners,    \* owners of crawler networks
  MaxHeld,   \* the most owners that may be held back
  Requests,  \* requests of the admin UI
  MaxEdits   \* bound: how often the file changes

Core == "core"

CrawlersAssumption ==
  /\ IsFiniteSet(Owners) /\ MaxHeld \in Nat
  /\ IsFiniteSet(Requests) /\ Core \notin Requests /\ MaxEdits \in Nat \ {0}

VARIABLES
  file,   \* what kind of file it is, the settings in it, its stamp
  admin,  \* crawlers.File of the admin UI: the settings and their stamp
  core,   \* crawlers.File of the core
  pc,     \* where each request is
  draft   \* the settings a request is about to save, and whose copy they are

vars == <<file, admin, core, pc, draft>>

Settings == [pass: BOOLEAN, held: SUBSET Owners]
Defaults == [pass |-> TRUE, held |-> {}]
NoDraft == [set |-> Defaults, of |-> 0, adds |-> FALSE]

\* Passes, the question of the hot path: the pass of a verified crawler.
Passes(mem, owner) == mem.set.pass /\ owner \notin mem.set.held

NoMemory == [set |-> Defaults, stamp |-> 0]

\* Reload: a file that is gone means the defaults, a broken one nothing,
\* and one with the stamp it had is not read.
Reread(mem) ==
  IF file.kind = "gone" THEN NoMemory
  ELSE IF file.kind = "broken" \/ mem.stamp = file.stamp THEN mem
  ELSE [set |-> file.set, stamp |-> file.stamp]

Init ==
  /\ \E s \in Settings, kind \in {"saved", "gone"} :
       /\ Cardinality(s.held) <= MaxHeld
       /\ file = [kind |-> kind, set |-> IF kind = "gone" THEN Defaults ELSE s, stamp |-> 1]
  /\ admin = Reread(NoMemory) /\ core = Reread(NoMemory)
  /\ pc = [r \in Requests |-> "idle"] /\ draft = [r \in Requests |-> NoDraft]

Goes(r, from, to) == pc[r] = from /\ pc' = [pc EXCEPT ![r] = to]

\* setCrawlers takes a copy of the settings in force. What lets the rules
\* reach a crawler asks for the password.
Begins(r, to, set, adds) ==
  /\ file.kind # "broken" /\ Goes(r, "idle", to)
  /\ draft' = [draft EXCEPT ![r] = [set |-> set, of |-> Reread(admin).stamp, adds |-> adds]]
  /\ UNCHANGED <<file, core>>

Switch(r) ==
  LET now == Reread(admin)
  IN /\ \E on \in BOOLEAN :
          Begins(r, IF on THEN "save" ELSE "recheck", [now.set EXCEPT !.pass = on], FALSE)
     /\ admin' = now

Hold(r) ==
  LET now == Reread(admin)
  IN /\ \E o \in Owners :
          Begins(r, "recheck", [now.set EXCEPT !.held = @ \cup {o}], TRUE)
     /\ admin' = now

\* DeleteFunc works in place: the owner is gone from the settings in force,
\* and from the drafts that share the elements. An append may have moved
\* to elements of its own, or not.
Release(r) ==
  LET now == Reread(admin)
      sharing == {q \in Requests : pc[q] \in {"recheck", "save"} /\ draft[q].of = now.stamp}
  IN \E o \in Owners, moved \in SUBSET {q \in sharing : draft[q].adds} :
       /\ file.kind # "broken" /\ Goes(r, "idle", "save")
       /\ admin' = [now EXCEPT !.set.held = @ \ {o}]
       /\ draft' = [q \in Requests |->
            IF q = r THEN [set |-> [now.set EXCEPT !.held = @ \ {o}], of |-> now.stamp,
                           adds |-> FALSE]
            ELSE IF q \in sharing \ moved THEN [draft[q] EXCEPT !.set.held = @ \ {o}]
            ELSE draft[q]]
       /\ UNCHANGED <<file, core>>

Confirmed(r) == Goes(r, "recheck", "save") /\ UNCHANGED <<file, admin, core, draft>>

\* The password does not match, the list is too long, or the file cannot
\* be written: the owner is told that nothing was changed.
Refused(r) ==
  /\ pc[r] \in {"recheck", "save"} /\ pc' = [pc EXCEPT ![r] = "idle"]
  /\ draft' = [draft EXCEPT ![r] = NoDraft]
  /\ UNCHANGED <<file, admin, core>>

\* Save: a rename, and what was written is read back.
Save(r) ==
  /\ Goes(r, "save", "tell")
  /\ file.stamp < MaxEdits /\ Cardinality(draft[r].set.held) <= MaxHeld
  /\ file' = [kind |-> "saved", set |-> draft[r].set, stamp |-> file.stamp + 1]
  /\ admin' = [set |-> draft[r].set, stamp |-> file.stamp + 1]
  /\ draft' = [draft EXCEPT ![r] = NoDraft]
  /\ UNCHANGED core

\* The core rereads the file at the word of the admin UI, if it gets it.
Tell(r) == Goes(r, "tell", "idle") /\ core' = Reread(core) /\ UNCHANGED <<file, admin, draft>>
Untold(r) == Goes(r, "tell", "idle") /\ UNCHANGED <<file, admin, core, draft>>

WatchCrawlers == core' = Reread(core) /\ UNCHANGED <<file, admin, pc, draft>>
CrawlersPage == admin' = Reread(admin) /\ UNCHANGED <<file, core, pc, draft>>

\* By hand.
Edit ==
  /\ file.stamp < MaxEdits
  /\ \E kind \in {"saved", "broken", "gone"}, s \in Settings :
       /\ kind # "saved" => s = Defaults
       /\ file' = [kind |-> kind, set |-> s, stamp |-> file.stamp + 1]
  /\ UNCHANGED <<admin, core, pc, draft>>

Next ==
  \/ \E r \in Requests : \/ Switch(r) \/ Hold(r) \/ Release(r) \/ Confirmed(r) \/ Refused(r)
                         \/ Save(r) \/ Tell(r) \/ Untold(r)
  \/ WatchCrawlers \/ CrawlersPage \/ Edit

Fairness == WF_vars(WatchCrawlers)
Spec == Init /\ [][Next]_vars
FairSpec == Spec /\ Fairness

(***************************************************************************)
(* Properties.                                                             *)
(***************************************************************************)
Memory == [set: Settings, stamp: 0..MaxEdits]
TypeOK ==
  /\ file \in [kind: {"saved", "broken", "gone"}, set: Settings, stamp: 1..MaxEdits]
  /\ admin \in Memory /\ core \in Memory
  /\ pc \in [Requests -> {"idle", "recheck", "save", "tell"}]
  /\ draft \in [Requests -> [set: Settings, of: 0..MaxEdits, adds: BOOLEAN]]

\* Once the file is left alone and reads, the core lets past whom it says,
\* and with no file everybody.
InForce ==
  file.kind # "broken" => \A o \in Owners : Passes(core, o) = Passes([set |-> file.set], o)
============================================================================
