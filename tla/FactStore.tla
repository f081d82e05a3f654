------------------------------ MODULE FactStore ------------------------------
(***************************************************************************)
(* The fact set of a node: catalog.Store keeps the set in force behind a   *)
(* pointer and the last versions in a directory, catalog.Fetcher brings a  *)
(* newer one from the update service, and the "antibot facts" commands —   *)
(* processes of their own, with a Store of their own over the same         *)
(* directory — apply a file, fetch once, or roll back.                     *)
(*                                                                         *)
(* A set is its version; 0 is no set. Of its contents the model keeps      *)
(* whether it lost half of its rows against the others (Small). Signatures *)
(* and hashes are checked before anything is read or written: a set that   *)
(* fails them is a failed download.                                        *)
(***************************************************************************)
EXTENDS Integers, FiniteSets

CONSTANTS
  MaxVersion,   (* bound: the newest version ever published                *)
  Small,        (* the versions with less than half the rows of the others *)
  Fetchers,     (* goroutines of the node that run Fetcher.Run             *)
  Commands,     (* "antibot facts" processes                               *)
  Node,         (* the node's own Store                                    *)
  NoTask,       (* nobody                                                  *)
  Crashes,      (* whether the node may be killed                          *)
  Faults        (* the writes that may fail, by the step that makes them   *)

Version == 1..MaxVersion
keep == 3       \* versions that stay on disk
Tasks == Fetchers \cup Commands

FactStoreAssumption ==
  /\ MaxVersion \in Nat \ {0}
  /\ Small \subseteq Version
  /\ Fetchers \cap Commands = {}
  /\ Node \notin Commands
  /\ NoTask \notin Tasks
  /\ Crashes \in BOOLEAN
  /\ Faults \subseteq {"write", "point", "back"}

ASSUME FactStoreAssumption

VARIABLES
  published,   \* the version the update service offers
  files,       \* the versions on disk
  current,     \* the file "current"; 0 when there is none
  set,         \* Store.set of the node and of each command
  mu,          \* who holds Store.mu of the node
  fetching,    \* the fetcher cloudLink runs; a cancelled one may still finish
  pc,          \* where each fetcher or command is
  want,        \* the version it is about
  force        \* the -force flag

tasks == <<pc, want, force>>
disk == <<files, current>>
vars == <<published, disk, set, mu, fetching, tasks>>

StoreOf(t) == IF t \in Fetchers THEN Node ELSE t

(* Open: what a process that starts now finds applied.                     *)
Loaded == IF current \in files THEN current ELSE 0

(* checkShrink: half of the rows are gone.                                 *)
Shrunk(fresh, old) == old # 0 /\ fresh \in Small /\ old \notin Small

(* Mutant of Swept: the first versions stay.                               *)
SweptFirst(fs) == {v \in fs : Cardinality({w \in fs : w < v}) < keep}

(* sweep: the last versions stay.                                          *)
Swept(fs) == {v \in fs : Cardinality({w \in fs : w > v}) < keep}

Init ==
  /\ published = 0
  /\ files = {} /\ current = 0
  /\ set = [s \in {Node} \cup Commands |-> 0]
  /\ mu = NoTask
  /\ fetching = NoTask
  /\ pc = [t \in Tasks |-> "idle"]
  /\ want = [t \in Tasks |-> 0]
  /\ force = [t \in Tasks |-> FALSE]

Goto(t, l) == pc' = [pc EXCEPT ![t] = l]

-----------------------------------------------------------------------------
(* The update service and the life of the node.                            *)

Publish ==
  /\ \E v \in Version : v > published /\ published' = v
  /\ UNCHANGED <<disk, set, mu, fetching, tasks>>

(* cloudLink.apply starts a fetcher; cancelling one does not wait for it.  *)
Start(t) ==
  /\ fetching = NoTask
  /\ pc[t] = "idle"
  /\ fetching' = t
  /\ UNCHANGED <<published, disk, set, mu, tasks>>

Cancel ==
  /\ fetching # NoTask
  /\ fetching' = NoTask
  /\ UNCHANGED <<published, disk, set, mu, tasks>>

(* The node is killed and started again.                                   *)
Restart ==
  /\ Crashes
  /\ set' = [set EXCEPT ![Node] = Loaded]
  /\ mu' = NoTask
  /\ fetching' = NoTask
  /\ pc' = [t \in Tasks |-> IF t \in Fetchers THEN "idle" ELSE pc[t]]
  /\ UNCHANGED <<published, disk, want, force>>

(* A command opens the directory as it stands. One that is interrupted is  *)
(* one that takes no further step: it holds nothing another process waits  *)
(* for.                                                                    *)
Command(c) ==
  /\ pc[c] = "idle"
  /\ set' = [set EXCEPT ![c] = Loaded]
  /\ \/ /\ Goto(c, "check")
        /\ \E v \in Version, f \in BOOLEAN :
             want' = [want EXCEPT ![c] = v] /\ force' = [force EXCEPT ![c] = f]
     \/ /\ Goto(c, "ask")
        /\ force' = [force EXCEPT ![c] = FALSE]
        /\ UNCHANGED want
     \/ /\ Goto(c, "pick")
        /\ UNCHANGED <<want, force>>
  /\ UNCHANGED <<published, disk, mu, fetching>>

-----------------------------------------------------------------------------
(* Fetcher.Once.                                                           *)

(* A request of a cancelled context fails.                                 *)
Online(t) == t \in Commands \/ fetching = t

Wake(t) ==
  /\ fetching = t
  /\ pc[t] = "idle"
  /\ Goto(t, "ask")
  /\ UNCHANGED <<published, disk, set, mu, fetching, want, force>>

(* Mutant of Ask: what is on disk already is not worth downloading.        *)
AskUnlessOnDisk(t) ==
  /\ pc[t] = "ask"
  /\ Online(t)
  /\ \/ /\ published <= set[StoreOf(t)] \/ published \in files
        /\ Goto(t, "idle")
        /\ UNCHANGED want
     \/ /\ published > set[StoreOf(t)] /\ published \notin files
        /\ Goto(t, "download")
        /\ want' = [want EXCEPT ![t] = published]
  /\ UNCHANGED <<published, disk, set, mu, fetching, force>>

(* Mutant of Ask: the version after the one offered.                       *)
AskNext(t) ==
  /\ pc[t] = "ask"
  /\ Online(t)
  /\ \/ /\ published <= set[StoreOf(t)]
        /\ Goto(t, "idle")
        /\ UNCHANGED want
     \/ /\ published > set[StoreOf(t)]
        /\ Goto(t, "download")
        /\ want' = [want EXCEPT ![t] = published + 1]
  /\ UNCHANGED <<published, disk, set, mu, fetching, force>>

(* fetchManifest: nothing newer, or a version worth downloading.           *)
Ask(t) ==
  /\ pc[t] = "ask"
  /\ Online(t)
  /\ \/ /\ published <= set[StoreOf(t)]
        /\ Goto(t, "idle")
        /\ UNCHANGED want
     \/ /\ published > set[StoreOf(t)]
        /\ Goto(t, "download")
        /\ want' = [want EXCEPT ![t] = published]
  /\ UNCHANGED <<published, disk, set, mu, fetching, force>>

Download(t) ==
  /\ pc[t] = "download"
  /\ Online(t)
  /\ Goto(t, "check")
  /\ UNCHANGED <<published, disk, set, mu, fetching, want, force>>

(* The service or the network does not answer, or answers with an error.   *)
Unanswered(t) ==
  /\ pc[t] \in {"ask", "download"}
  /\ Goto(t, "idle")
  /\ UNCHANGED <<published, disk, set, mu, fetching, want, force>>

-----------------------------------------------------------------------------
(* Store.Install.                                                          *)

(* 3. "The version is higher than the current one" — read with no lock.    *)
CheckVersion(t) ==
  /\ pc[t] = "check"
  /\ Goto(t, IF want[t] > set[StoreOf(t)] THEN "shrink" ELSE "idle")
  /\ UNCHANGED <<published, disk, set, mu, fetching, want, force>>

(* Mutant of CheckShrink: every set passes.                                *)
CheckShrinkNever(t) ==
  /\ pc[t] = "shrink"
  /\ Goto(t, "write")
  /\ UNCHANGED <<published, disk, set, mu, fetching, want, force>>

(* checkShrink against the set in force, which is loaded a second time.    *)
CheckShrink(t) ==
  /\ pc[t] = "shrink"
  /\ \/ /\ Shrunk(want[t], set[StoreOf(t)]) /\ ~force[t]
        /\ Goto(t, "idle")
     \/ /\ ~Shrunk(want[t], set[StoreOf(t)]) \/ force[t]
        /\ Goto(t, "write")
  /\ UNCHANGED <<published, disk, set, mu, fetching, want, force>>

(* Store.mu is a lock inside one process: a command has one of its own.    *)
Locks(t) == IF t \in Fetchers THEN mu = NoTask /\ mu' = t ELSE UNCHANGED mu
Unlocks(t) == mu' = IF t \in Fetchers THEN NoTask ELSE mu

(* Mutant of WriteSet: the pointer is swapped before current is written.   *)
WriteSetAndSwap(t) ==
  /\ pc[t] = "write"
  /\ Locks(t)
  /\ files' = files \cup {want[t]}
  /\ set' = [set EXCEPT ![StoreOf(t)] = want[t]]
  /\ Goto(t, "point")
  /\ UNCHANGED <<published, current, fetching, want, force>>

(* The lock is taken and N.json written.                                   *)
WriteSet(t) ==
  /\ pc[t] = "write"
  /\ Locks(t)
  /\ files' = files \cup {want[t]}
  /\ Goto(t, "point")
  /\ UNCHANGED <<published, current, set, fetching, want, force>>

(* current names the set just written.                                     *)
PointCurrent(t) ==
  /\ pc[t] = "point"
  /\ current' = want[t]
  /\ Goto(t, "swap")
  /\ UNCHANGED <<published, files, set, mu, fetching, want, force>>

(* The pointer is swapped and the directory swept.                         *)
Swap(t) ==
  /\ pc[t] = "swap"
  /\ set' = [set EXCEPT ![StoreOf(t)] = want[t]]
  /\ files' = Swept(files)
  /\ Unlocks(t)
  /\ Goto(t, "idle")
  /\ UNCHANGED <<published, current, fetching, want, force>>

(* A write fails: Install or Rollback returns the error.                   *)
WriteFails(t) ==
  /\ pc[t] \in Faults
  /\ \/ pc[t] = "write" /\ (t \in Fetchers => mu = NoTask) /\ UNCHANGED mu
     \/ pc[t] = "point" /\ Unlocks(t)
     \/ pc[t] = "back" /\ UNCHANGED mu
  /\ Goto(t, "idle")
  /\ UNCHANGED <<published, disk, set, fetching, want, force>>

-----------------------------------------------------------------------------
(* Store.Rollback, in a command.                                           *)

(* The newest version below the one this process found applied, and its    *)
(* file is read.                                                           *)
PickTarget(c) ==
  /\ pc[c] = "pick"
  /\ LET older == {v \in files : v < set[c]} IN
       \/ /\ older = {}
          /\ Goto(c, "idle")
          /\ UNCHANGED want
       \/ \E v \in older :
            /\ \A w \in older : w <= v
            /\ Goto(c, "back")
            /\ want' = [want EXCEPT ![c] = v]
  /\ UNCHANGED <<published, disk, set, mu, fetching, force>>

RollBack(c) ==
  /\ pc[c] = "back"
  /\ current' = want[c]
  /\ set' = [set EXCEPT ![c] = want[c]]
  /\ Goto(c, "idle")
  /\ UNCHANGED <<published, files, mu, fetching, want, force>>

-----------------------------------------------------------------------------
Fetch(t) == Wake(t) \/ Ask(t) \/ Download(t) \/ Unanswered(t)
Install(t) ==
  CheckVersion(t) \/ CheckShrink(t) \/ WriteSet(t) \/ PointCurrent(t) \/ Swap(t)
  \/ WriteFails(t)
Rollback(c) == PickTarget(c) \/ RollBack(c)

Next ==
  \/ Publish \/ Cancel \/ Restart
  \/ \E t \in Fetchers : Start(t)
  \/ \E t \in Tasks : Fetch(t) \/ Install(t)
  \/ \E c \in Commands : Command(c) \/ Rollback(c)

Spec == Init /\ [][Next]_vars

(* A goroutine that can step does, a timer fires, and the service and the  *)
(* disk that are asked again and again do not fail every time.             *)
Fairness ==
  \A t \in Fetchers :
    /\ WF_vars(Wake(t)) /\ SF_vars(Ask(t)) /\ SF_vars(Download(t))
    /\ WF_vars(CheckVersion(t)) /\ WF_vars(CheckShrink(t))
    /\ SF_vars(WriteSet(t)) /\ SF_vars(PointCurrent(t)) /\ WF_vars(Swap(t))
    /\ WF_vars(Unanswered(t))

FairSpec == Spec /\ Fairness

-----------------------------------------------------------------------------
(* Properties.                                                             *)

(* The type of every variable.                                             *)
TypeOK ==
  /\ published \in 0..MaxVersion
  /\ files \subseteq Version
  /\ current \in 0..MaxVersion
  /\ set \in [{Node} \cup Commands -> 0..MaxVersion]
  /\ mu \in Fetchers \cup {NoTask}
  /\ fetching \in Fetchers \cup {NoTask}
  /\ pc \in [Tasks -> {"idle", "ask", "download", "check", "shrink", "write",
                       "point", "swap", "pick", "back"}]
  /\ want \in [Tasks -> 0..MaxVersion]
  /\ force \in [Tasks -> BOOLEAN]

(* docs/en/protocol/fact-set.md:382: current is "the applied version       *)
(* number", and its set is one of the files beside it: a node that starts  *)
(* now does not start without facts.                                       *)
CurrentIsOnDisk == current # 0 => current \in files

(* docs/en/protocol/fact-set.md:366: "the version is higher than the       *)
(* current one — otherwise this is an attempt to roll back": whatever is   *)
(* installed, and whenever the node is killed, the facts in force never    *)
(* become older ones.                                                      *)
FactsNeverGoBack == [][set'[Node] >= set[Node]]_vars

(* docs/en/protocol/fact-set.md:371: a set "much smaller than the previous *)
(* one" is not put in force by a fetcher, whatever it replaces.            *)
NeverShrinks == [][~Shrunk(set'[Node], set[Node])]_vars

(* A node that keeps fetching ends up with the version the service stays   *)
(* at, or a newer one applied by hand — even when a cancelled fetcher has  *)
(* put an older one over it, and whatever writes failed on the way.        *)
CatchesUp ==
  \A v \in Version \ Small :
    <>[](published = v) /\ <>[](fetching # NoTask) => <>[](set[Node] >= v)
=============================================================================
