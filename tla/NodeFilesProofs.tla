--------------------------- MODULE NodeFilesProofs ---------------------------
(***************************************************************************)
(* Theorems about what a node keeps in files of its own, FactStore and     *)
(* EventLog as parts of NodeRecords, for every value of their constants.   *)
(***************************************************************************)
EXTENDS NodeRecords, FiniteSetTheorems, SequenceTheorems, WellFoundedInduction, TLAPS

-----------------------------------------------------------------------------
(* FactStore: type correctness.                                                       *)

LEMMA FactsGiven == F!FactStoreAssumption
BY NodeRecordsAssumption DEF NodeRecordsAssumption

USE FactsGiven DEF F!FactStoreAssumption, F!Version, F!Tasks

LEMMA LoadedType ==
  ASSUME F!TypeOK
  PROVE  F!Loaded \in 0..MaxVersion
BY DEF F!Loaded, F!TypeOK

(* Actions of no task.                                                     *)
LEMMA NodeKeepsTypes ==
  ASSUME F!TypeOK, F!Publish \/ F!Cancel \/ F!Restart \/ (\E t \in Fetchers : F!Start(t))
  PROVE  F!TypeOK'
<1> USE DEF F!TypeOK, F!disk, F!tasks
<1>1. CASE F!Publish
  BY <1>1 DEF F!Publish
<1>2. CASE F!Cancel
  BY <1>2 DEF F!Cancel
<1>3. CASE F!Restart
  BY <1>3, LoadedType DEF F!Restart
<1>4. CASE \E t \in Fetchers : F!Start(t)
  BY <1>4 DEF F!Start
<1> QED BY <1>1, <1>2, <1>3, <1>4

LEMMA FetchKeepsTypes ==
  ASSUME F!TypeOK, NEW t \in F!Tasks, F!Fetch(t)
  PROVE  F!TypeOK'
<1> USE DEF F!TypeOK, F!disk, F!tasks, F!Goto
<1>1. CASE F!Wake(t)
  BY <1>1 DEF F!Wake
<1>2. CASE F!Ask(t)
  BY <1>2 DEF F!Ask
<1>3. CASE F!Download(t)
  BY <1>3 DEF F!Download
<1>4. CASE F!Unanswered(t)
  BY <1>4 DEF F!Unanswered
<1> QED BY <1>1, <1>2, <1>3, <1>4 DEF F!Fetch

(* A set that is about to be written has a version.                        *)
Wanted == \A t \in F!Tasks :
  pc[t] \in {"download", "check", "shrink", "write", "point", "swap", "back"}
    => want[t] \in F!Version

LEMMA InstallKeepsTypes ==
  ASSUME F!TypeOK, Wanted, NEW t \in F!Tasks, F!Install(t)
  PROVE  F!TypeOK'
<1> USE DEF F!TypeOK, F!disk, F!tasks, F!Goto
<1>1. CASE F!CheckVersion(t)
  BY <1>1 DEF F!CheckVersion
<1>2. CASE F!CheckShrink(t)
  BY <1>2 DEF F!CheckShrink, Wanted
<1>3. CASE F!WriteSet(t)
  BY <1>3 DEF F!WriteSet, F!Locks, Wanted
<1>4. CASE F!PointCurrent(t)
  BY <1>4 DEF F!PointCurrent
<1>5. CASE F!Swap(t)
  BY <1>5 DEF F!Swap, F!Swept, F!Unlocks, F!StoreOf
<1>6. CASE F!WriteFails(t)
  BY <1>6 DEF F!WriteFails, F!Unlocks
<1> QED BY <1>1, <1>2, <1>3, <1>4, <1>5, <1>6 DEF F!Install

LEMMA CommandKeepsTypes ==
  ASSUME F!TypeOK, Wanted, NEW c \in Commands, F!Command(c) \/ F!Rollback(c)
  PROVE  F!TypeOK'
<1> USE DEF F!TypeOK, F!disk, F!tasks, F!Goto
<1>1. CASE F!Command(c)
  <2>1. want' \in [F!Tasks -> 0..MaxVersion]
    BY <1>1 DEF F!Command
  <2>2. force' \in [F!Tasks -> BOOLEAN]
    <3>1. force' = force \/ \E f \in BOOLEAN : force' = [force EXCEPT ![c] = f]
      BY <1>1 DEF F!Command
    <3> QED BY <3>1, Zenon
  <2>3. set' \in [{Node} \cup Commands -> 0..MaxVersion]
    BY <1>1, LoadedType DEF F!Command
  <2>4. pc' \in [F!Tasks -> {"idle", "ask", "download", "check", "shrink", "write",
                          "point", "swap", "pick", "back"}]
    BY <1>1 DEF F!Command
  <2> QED BY <1>1, <2>1, <2>2, <2>3, <2>4 DEF F!Command
<1>2. CASE F!PickTarget(c)
  BY <1>2 DEF F!PickTarget
<1>3. CASE F!RollBack(c)
  BY <1>3 DEF F!RollBack
<1> QED BY <1>1, <1>2, <1>3 DEF F!Rollback

LEMMA WantedStays ==
  ASSUME F!TypeOK, Wanted, [F!Next]_F!vars
  PROVE  Wanted'
<1> USE DEF F!TypeOK, Wanted, F!disk, F!tasks, F!Goto
<1>1. CASE F!Publish \/ F!Cancel \/ \E t \in Fetchers : F!Start(t)
  BY <1>1 DEF F!Publish, F!Cancel, F!Start
<1>2. CASE F!Restart
  BY <1>2 DEF F!Restart
<1>3. ASSUME NEW t \in F!Tasks, F!Fetch(t) PROVE Wanted'
  BY <1>3 DEF F!Fetch, F!Wake, F!Ask, F!Download, F!Unanswered, F!StoreOf
<1>4. ASSUME NEW t \in F!Tasks, F!Install(t) PROVE Wanted'
  BY <1>4 DEF F!Install, F!CheckVersion, F!CheckShrink, F!WriteSet, F!PointCurrent, F!Swap, F!WriteFails
<1>5. ASSUME NEW c \in Commands, F!Command(c) PROVE Wanted'
  BY <1>5 DEF F!Command
<1>6. ASSUME NEW c \in Commands, F!Rollback(c) PROVE Wanted'
  BY <1>6 DEF F!Rollback, F!PickTarget, F!RollBack
<1>7. CASE UNCHANGED F!vars
  BY <1>7 DEF F!vars
<1> QED BY <1>1, <1>2, <1>3, <1>4, <1>5, <1>6, <1>7 DEF F!Next

LEMMA FactsTypeStep ==
  ASSUME F!TypeOK, Wanted, [F!Next]_F!vars
  PROVE  F!TypeOK' /\ Wanted'
<1>1. CASE F!Next
  BY <1>1, NodeKeepsTypes, FetchKeepsTypes, InstallKeepsTypes, CommandKeepsTypes,
     WantedStays DEF F!Next
<1>2. CASE UNCHANGED F!vars
  BY <1>2 DEF F!vars, F!disk, F!tasks, F!TypeOK, Wanted
<1> QED BY <1>1, <1>2

(* A behaviour of NodeRecords starts as one of its part.                   *)
LEMMA PartsStart ==
  ASSUME NodeInit
  PROVE  (part = "facts" => F!Init) /\ (part = "events" => E!Init)
BY DEF NodeInit

(* A step of NodeRecords is one of its part, or leaves its part alone.     *)
LEMMA PartsSteps ==
  ASSUME [NodeNext]_all
  PROVE  /\ part' = part
         /\ part = "facts" => [F!Next]_F!vars
         /\ part = "events" => [E!Next]_E!vars
<1> USE DEF all, ofFacts, ofEvents, ofTraffic, F!vars, F!disk, F!tasks, E!vars, E!log
<1>1. CASE FactsStep
  BY <1>1 DEF FactsStep
<1>2. CASE EventsStep
  BY <1>2 DEF EventsStep
<1>3. CASE TrafficStep
  BY <1>3 DEF TrafficStep
<1>4. CASE UNCHANGED all
  BY <1>4
<1> QED BY <1>1, <1>2, <1>3, <1>4 DEF NodeNext, Over

(* Every variable keeps its type, whatever is killed and fails.            *)
THEOREM FactsTypeCorrect == NodeSpec => [](part = "facts" => F!TypeOK /\ Wanted)
<1>1. NodeInit => (part = "facts" => F!TypeOK /\ Wanted)
  <2> SUFFICES ASSUME NodeInit, part = "facts" PROVE F!TypeOK /\ Wanted
    OBVIOUS
  <2>1. F!Init
    BY PartsStart
  <2>2. 0 \in 0..MaxVersion
    OBVIOUS
  <2>3. F!TypeOK
    BY <2>1, <2>2 DEF F!Init, F!TypeOK
  <2>4. Wanted
    BY <2>1 DEF F!Init, Wanted
  <2> QED BY <2>3, <2>4
<1>2. (part = "facts" => F!TypeOK /\ Wanted) /\ [NodeNext]_all
        => (part = "facts" => F!TypeOK /\ Wanted)'
  <2> SUFFICES ASSUME part = "facts" => F!TypeOK /\ Wanted, [NodeNext]_all, part' = "facts"
               PROVE  F!TypeOK' /\ Wanted'
    OBVIOUS
  <2> QED BY PartsSteps, FactsTypeStep
<1> QED BY <1>1, <1>2, PTL DEF NodeSpec

-----------------------------------------------------------------------------
(* One fetcher and nobody else at the directory.                           *)

Alone == Commands = {} /\ \A s, t \in Fetchers : s = t

(* The inductive invariant. A version being installed is above every one   *)
(* on disk, since the service only moves forward and nobody else writes;   *)
(* it is above the one in force from the check on; and the one in force is *)
(* never above what current names, which is what a restart loads.          *)
Ahead(t) ==
  /\ pc[t] \in {"download", "check", "shrink", "write", "point", "swap"}
       => want[t] <= published /\ \A v \in files : v <= want[t]
  /\ pc[t] \in {"shrink", "write", "point", "swap"} => want[t] > set[Node]
  /\ pc[t] \in {"point", "swap"} => want[t] \in files
  /\ pc[t] = "swap" => current = want[t]
  /\ pc[t] \in {"write", "point", "swap"} => want[t] > 0

InOrder ==
  /\ F!CurrentIsOnDisk
  /\ set[Node] <= current
  /\ \A v \in files : v <= published
  /\ \A t \in Fetchers : Ahead(t)

InFactOrder == part = "facts" => InOrder

(* sweep never removes the newest version.                                 *)
LEMMA SweepKeepsNewest ==
  ASSUME NEW fs \in SUBSET F!Version, NEW n \in fs, \A v \in fs : v <= n
  PROVE  n \in F!Swept(fs) /\ F!Swept(fs) \subseteq fs
<1>1. {w \in fs : w > n} = {}
  <2>1. n \in Nat /\ \A w \in fs : w \in Nat /\ w <= n
    OBVIOUS
  <2>2. \A w \in fs : ~(w > n)
    BY <2>1
  <2> QED BY <2>2
<1>2. F!Cardinality({w \in fs : w > n}) = 0
  <2>1. F!Cardinality({}) = Cardinality({})
    BY Zenon DEF F!Cardinality, Cardinality
  <2> QED BY <1>1, <2>1, FS_EmptySet
<1> QED BY <1>2 DEF F!Swept, F!keep

LEMMA InOrderStep ==
  ASSUME Alone, F!TypeOK, Wanted, InOrder, F!Next
  PROVE  InOrder' /\ set'[Node] >= set[Node]
<1> USE DEF Alone, F!TypeOK, InOrder, Ahead, F!CurrentIsOnDisk, F!disk, F!tasks, F!Goto,
            F!StoreOf
<1>1. CASE F!Publish \/ F!Cancel \/ \E t \in Fetchers : F!Start(t)
  <2>1. published' >= published /\ published' \in Nat
    BY <1>1 DEF F!Publish, F!Cancel, F!Start
  <2>2. UNCHANGED <<files, current, set, pc, want>>
    BY <1>1 DEF F!Publish, F!Cancel, F!Start
  <2>3. \A v \in files : v <= published'
    BY <2>1
  <2>4. ASSUME NEW t \in Fetchers PROVE Ahead(t)'
    <3>1. Ahead(t) /\ want[t] \in Nat
      OBVIOUS
    <3>2. want[t] <= published => want[t] <= published'
      BY <2>1, <3>1
    <3> QED BY <2>2, <3>1, <3>2
  <2> QED BY <2>2, <2>3, <2>4
<1>2. CASE F!Restart
  BY <1>2 DEF F!Restart, F!Loaded
<1>3. ASSUME NEW t \in Fetchers, F!Fetch(t)
      PROVE  InOrder' /\ set'[Node] >= set[Node]
  <2>1. CASE F!Ask(t)
    <3>1. \A v \in files : v <= published
      OBVIOUS
    <3>2. CASE pc'[t] = "idle" /\ UNCHANGED <<published, files, current, set, want>>
      BY <2>1, <3>2 DEF F!Ask
    <3>3. CASE pc'[t] = "download" /\ want'[t] = published
               /\ UNCHANGED <<published, files, current, set>>
      BY <3>1, <3>3
    <3> QED BY <2>1, <3>2, <3>3 DEF F!Ask
  <2>2. CASE F!Wake(t) \/ F!Unanswered(t)
    <3>1. UNCHANGED <<published, files, current, set, want>>
      BY <2>2 DEF F!Wake, F!Unanswered
    <3>2. pc'[t] \in {"idle", "ask"}
      BY <2>2 DEF F!Wake, F!Unanswered
    <3>3. Ahead(t)'
      BY <3>2
    <3> QED BY <3>1, <3>3
  <2>3. CASE F!Download(t)
    BY <2>3 DEF F!Download
  <2> QED BY <1>3, <2>1, <2>2, <2>3 DEF F!Fetch
<1>4. ASSUME NEW t \in Fetchers, F!Install(t)
      PROVE  InOrder' /\ set'[Node] >= set[Node]
  <2>1. CASE F!CheckVersion(t)
    BY <2>1 DEF F!CheckVersion, Wanted
  <2>2. CASE F!CheckShrink(t)
    BY <2>2 DEF F!CheckShrink, Wanted
  <2>3. CASE F!WriteSet(t)
    BY <2>3 DEF F!WriteSet
  <2>4. CASE F!PointCurrent(t)
    BY <2>4 DEF F!PointCurrent
  <2>5. CASE F!Swap(t)
    <3>1. want[t] \in F!Swept(files) /\ F!Swept(files) \subseteq files
      BY <2>5, SweepKeepsNewest DEF F!Swap
    <3>2. /\ files' = F!Swept(files) /\ set' = [set EXCEPT ![Node] = want[t]]
          /\ UNCHANGED <<published, current, want>> /\ pc' = [pc EXCEPT ![t] = "idle"]
      BY <2>5 DEF F!Swap
    <3>3. current = want[t] /\ want[t] > set[Node]
      BY <2>5 DEF F!Swap
    <3>4. set'[Node] = want[t] /\ pc'[t] = "idle"
      BY <3>2
    <3>5. Ahead(t)'
      BY <3>4
    <3>6. F!CurrentIsOnDisk' /\ set'[Node] <= current' /\ set'[Node] >= set[Node]
      BY <3>1, <3>2, <3>3, <3>4
    <3>7. \A v \in files' : v <= published'
      BY <3>1, <3>2
    <3> QED BY <3>5, <3>6, <3>7
  <2>6. CASE F!WriteFails(t)
    BY <2>6 DEF F!WriteFails
  <2> QED BY <1>4, <2>1, <2>2, <2>3, <2>4, <2>5, <2>6 DEF F!Install
<1> QED BY <1>1, <1>2, <1>3, <1>4 DEF F!Next

LEMMA InOrderAlways ==
  ASSUME Alone
  PROVE  NodeSpec => []InFactOrder /\ FactsNeverGoBack
<1>1. NodeInit => InFactOrder
  <2> SUFFICES ASSUME NodeInit, part = "facts" PROVE InOrder
    BY DEF InFactOrder
  <2> QED BY PartsStart DEF F!Init, InOrder, Ahead, F!CurrentIsOnDisk
<1>2. (part = "facts" => F!TypeOK /\ Wanted) /\ InFactOrder /\ [NodeNext]_all
        => InFactOrder' /\ [part = "facts" => set'[Node] >= set[Node]]_all
  <2> SUFFICES ASSUME part = "facts" => F!TypeOK /\ Wanted, InFactOrder, [NodeNext]_all,
                      part = "facts"
               PROVE  InOrder' /\ set'[Node] >= set[Node]
    BY PartsSteps DEF InFactOrder
  <2>1. CASE F!Next
    BY <2>1, InOrderStep DEF InFactOrder
  <2>2. CASE UNCHANGED F!vars
    BY <2>2 DEF F!vars, F!disk, F!tasks, InFactOrder, InOrder, Ahead, F!CurrentIsOnDisk, F!TypeOK
  <2> QED BY <2>1, <2>2, PartsSteps
<1> QED BY <1>1, <1>2, FactsTypeCorrect, PTL DEF NodeSpec, FactsNeverGoBack

(* With one fetcher and no command at the same time, the set current names *)
(* is on disk, whatever was killed and failed between the file of a set    *)
(* and current: a node that starts now does not start without facts.       *)
THEOREM AloneCurrentIsOnDisk ==
  ASSUME Alone
  PROVE  NodeSpec => []CurrentIsOnDisk
<1>1. InFactOrder => CurrentIsOnDisk
  BY DEF InFactOrder, InOrder, CurrentIsOnDisk
<1> QED BY <1>1, InOrderAlways, PTL

(* With one fetcher and no command at the same time, the facts in force    *)
(* never go back, over every kill, restart and failed write.               *)
THEOREM AloneFactsNeverGoBack ==
  ASSUME Alone
  PROVE  NodeSpec => FactsNeverGoBack
BY InOrderAlways

-----------------------------------------------------------------------------
(* The same node and the size of its facts. Nobody forces an installation; *)
(* what passed the check is still no shrinking when it is put in force;    *)
(* and what current names, which a restart puts in force, passed it too.   *)

NotForced == \A t \in Fetchers : ~force[t]
Checked(t) ==
  pc[t] \in {"write", "point", "swap"} => ~F!Shrunk(want[t], set[Node])
NoneShrunk ==
  /\ NotForced
  /\ \A t \in Fetchers : Checked(t)
  /\ ~F!Shrunk(current, set[Node])

LEMMA NoneShrunkStep ==
  ASSUME Alone, F!TypeOK, InOrder, NoneShrunk, F!Next
  PROVE  NoneShrunk' /\ ~F!Shrunk(set'[Node], set[Node])
<1> USE DEF Alone, F!TypeOK, NoneShrunk, NotForced, Checked, F!disk, F!tasks, F!Goto, F!StoreOf
<1>1. ~F!Shrunk(set[Node], set[Node])
  BY DEF F!Shrunk
<1>2. CASE F!Publish \/ F!Cancel \/ \E t \in Fetchers : F!Start(t)
  BY <1>1, <1>2 DEF F!Publish, F!Cancel, F!Start
<1>3. CASE F!Restart
  <2>1. set'[Node] = current
    BY <1>3 DEF F!Restart, F!Loaded, InOrder, F!CurrentIsOnDisk
  <2>2. ~F!Shrunk(current, current)
    BY DEF F!Shrunk
  <2> QED BY <1>3, <2>1, <2>2 DEF F!Restart
<1>4. ASSUME NEW t \in Fetchers, F!Fetch(t)
      PROVE  NoneShrunk' /\ ~F!Shrunk(set'[Node], set[Node])
  <2>1. UNCHANGED <<current, set, force>>
    BY <1>4 DEF F!Fetch, F!Wake, F!Ask, F!Download, F!Unanswered
  <2>2. pc'[t] \in {"idle", "ask", "download", "check"}
    BY <1>4 DEF F!Fetch, F!Wake, F!Ask, F!Download, F!Unanswered
  <2> QED BY <1>1, <2>1, <2>2
<1>5. ASSUME NEW t \in Fetchers, F!Install(t)
      PROVE  NoneShrunk' /\ ~F!Shrunk(set'[Node], set[Node])
  <2>1. CASE F!CheckVersion(t)
    BY <1>1, <2>1 DEF F!CheckVersion
  <2>2. CASE F!CheckShrink(t)
    BY <1>1, <2>2 DEF F!CheckShrink
  <2>3. CASE F!WriteSet(t)
    BY <1>1, <2>3 DEF F!WriteSet
  <2>4. CASE F!PointCurrent(t)
    BY <1>1, <2>4 DEF F!PointCurrent
  <2>5. CASE F!Swap(t)
    <3>1. /\ set'[Node] = want[t] /\ current' = want[t]
          /\ pc'[t] = "idle" /\ UNCHANGED <<want, force>>
      BY <2>5 DEF F!Swap, InOrder, Ahead
    <3>2. ~F!Shrunk(want[t], set[Node]) /\ ~F!Shrunk(want[t], want[t])
      BY <2>5 DEF F!Swap, F!Shrunk
    <3> QED BY <3>1, <3>2
  <2>6. CASE F!WriteFails(t)
    BY <1>1, <2>6 DEF F!WriteFails
  <2> QED BY <1>5, <2>1, <2>2, <2>3, <2>4, <2>5, <2>6 DEF F!Install
<1> QED BY <1>2, <1>3, <1>4, <1>5 DEF F!Next

(* With one fetcher and no command at the same time, no set that lost half *)
(* of its rows replaces a whole one, whatever the service offers and       *)
(* wherever the node is killed.                                            *)
THEOREM AloneNeverShrinks ==
  ASSUME Alone
  PROVE  NodeSpec => NeverShrinks
<1> DEFINE Kept == part = "facts" => NoneShrunk
<1>1. NodeInit => Kept
  <2> SUFFICES ASSUME NodeInit, part = "facts" PROVE NoneShrunk
    OBVIOUS
  <2> QED BY PartsStart DEF F!Init, NoneShrunk, NotForced, Checked, F!Shrunk
<1>2. (part = "facts" => F!TypeOK /\ Wanted) /\ InFactOrder /\ Kept /\ [NodeNext]_all
        => Kept' /\ [part = "facts" => ~F!Shrunk(set'[Node], set[Node])]_all
  <2> SUFFICES ASSUME part = "facts" => F!TypeOK /\ Wanted, InFactOrder, Kept, [NodeNext]_all,
                      part = "facts"
               PROVE  NoneShrunk' /\ ~F!Shrunk(set'[Node], set[Node])
    BY PartsSteps
  <2>1. CASE F!Next
    BY <2>1, NoneShrunkStep DEF InFactOrder
  <2>2. CASE UNCHANGED F!vars
    BY <2>2 DEF F!vars, F!disk, F!tasks, NoneShrunk, NotForced, Checked, F!Shrunk
  <2> QED BY <2>1, <2>2, PartsSteps
<1> QED BY <1>1, <1>2, FactsTypeCorrect, InOrderAlways, PTL DEF NodeSpec, NeverShrinks

HIDE FactsGiven DEF F!FactStoreAssumption, F!Version, F!Tasks

-----------------------------------------------------------------------------
(* EventLog: the constants, the names of files, sequences.                 *)

LEMMA EventsGiven == E!EventLogAssumption
BY NodeRecordsAssumption DEF NodeRecordsAssumption

USE EventsGiven DEF E!EventLogAssumption

N == Cardinality(Requests)
Lines == Requests \cup {E!Torn, E!Joined}

LEMMA SameSizes ==
  /\ E!Cardinality(Requests) = N
  /\ E!IsFiniteSet(Requests) <=> IsFiniteSet(Requests)
<1>1. E!Cardinality(Requests) = Cardinality(Requests)
  BY Zenon DEF E!Cardinality, Cardinality
<1>2. E!IsFiniteSet(Requests) <=> IsFiniteSet(Requests)
  BY Zenon DEF E!IsFiniteSet, IsFiniteSet
<1>. QED  BY <1>1, <1>2 DEF N

LEMMA Constants == /\ N \in Nat /\ IsFiniteSet(Requests) /\ E!Numbers = 0..N /\ E!Days = 0..MaxDay
                   /\ MaxDay \in Nat /\ LogQueue \in Nat /\ MaxSize \in Nat /\ MaxSize >= 1
                   /\ KeepDays \in Nat /\ E!Cardinality(Requests) = N
BY SameSizes, FS_CardinalityType DEF N, E!Numbers, E!Days

LEMMA NamesOK ==
  /\ \A f \in E!Names : f[1] \in E!Days /\ f[2] \in E!Numbers /\ f = <<f[1], f[2]>>
  /\ \A day \in E!Days, n \in E!Numbers : <<day, n>> \in E!Names
BY DEF E!Names

(* A set of numbers has a least one.                                       *)
LEMMA Least ==
  ASSUME NEW S \in SUBSET Nat, S # {}
  PROVE  \E m \in S : \A n \in S : m <= n
<1>1. PICK m \in S : \A n \in S : <<n, m>> \notin OpToRel(<, Nat)
  BY NatLessThanWellFounded, WFMin
<1>2. \A n \in S : ~(n < m)
  BY <1>1 DEF OpToRel
<1>. QED  BY <1>2

(* A sequence without its last element.                                   *)
LEMMA FrontOK ==
  ASSUME NEW S, NEW s \in Seq(S), s # <<>>
  PROVE  /\ SubSeq(s, 1, Len(s) - 1) \in Seq(S) /\ Len(SubSeq(s, 1, Len(s) - 1)) = Len(s) - 1
         /\ \A i \in 1..(Len(s) - 1) : SubSeq(s, 1, Len(s) - 1)[i] = s[i]
<1>. DEFINE k == Len(s) - 1
<1>1. k \in Int /\ k >= 0 /\ k + 1 = Len(s)
  OBVIOUS
<1>2. \A i \in 1..k : s[i] \in S
  OBVIOUS
<1>. HIDE DEF k
<1>3. /\ SubSeq(s, 1, k) \in Seq(S)
      /\ Len(SubSeq(s, 1, k)) = IF 1 <= k THEN k - 1 + 1 ELSE 0
      /\ \A i \in 1..(k - 1 + 1) : SubSeq(s, 1, k)[i] = s[1 + i - 1]
  <2>1. 1 \in Int
    OBVIOUS
  <2>. QED  BY <1>1, <1>2, <2>1, SubSeqProperties
<1>4. Len(SubSeq(s, 1, k)) = k
  BY <1>1, <1>3
<1>5. \A i \in 1..k : i \in 1..(k - 1 + 1) /\ 1 + i - 1 = i
  BY <1>1
<1>6. \A i \in 1..k : SubSeq(s, 1, k)[i] = s[i]
  BY <1>3, <1>5
<1>. QED  BY <1>1, <1>3, <1>4, <1>6 DEF k

LEMMA Indices ==
  ASSUME NEW text \in Seq(Lines)
  PROVE  /\ DOMAIN text = 1..Len(text) /\ Len(text) \in Nat
         /\ \A i \in DOMAIN text : i \in Nat /\ i <= Len(text)
OBVIOUS

(* What a line does to a file: it comes last and the requests that are     *)
(* there stay, wherever the line before it ends.                           *)
LEMMA WithLineOK ==
  ASSUME NEW text \in Seq(Lines), NEW line \in Requests \cup {E!Torn}
  PROVE  LET new == E!WithLine(text, line) IN
         /\ new \in Seq(Lines) /\ new # <<>>
         /\ Len(new) \in {Len(text), Len(text) + 1}
         /\ text = <<>> => Len(new) = 1
         /\ \A i \in DOMAIN text : text[i] \in Requests => i \in DOMAIN new /\ new[i] = text[i]
         /\ \A i \in DOMAIN new : new[i] \in Requests =>
              \/ i \in DOMAIN text /\ new[i] = text[i]
              \/ i = Len(new) /\ i = Len(text) + 1 /\ new[i] = line
<1>. DEFINE new == E!WithLine(text, line)
<1>1. CASE text # <<>> /\ text[Len(text)] = E!Torn
  <2>. DEFINE short == SubSeq(text, 1, Len(text) - 1)
  <2>1. new = Append(short, E!Joined)
    BY <1>1 DEF E!WithLine, E!Last, E!Front
  <2>2. Len(text) \in Nat /\ Len(text) >= 1
    BY <1>1
  <2>3. /\ short \in Seq(Lines) /\ Len(short) = Len(text) - 1
        /\ \A i \in 1..(Len(text) - 1) : short[i] = text[i]
    BY <1>1, FrontOK
  <2>4. /\ new \in Seq(Lines) /\ Len(new) = Len(text)
        /\ \A i \in 1..(Len(text) - 1) : new[i] = text[i]
        /\ new[Len(text)] = E!Joined
    <3>. HIDE DEF short
    <3>1. E!Joined \in Lines
      BY DEF Lines
    <3>2. new = Append(short, E!Joined) /\ short \in Seq(Lines)
      BY <2>1, <2>3
    <3>. HIDE DEF new
    <3>3. /\ new \in Seq(Lines) /\ Len(new) = Len(short) + 1
          /\ \A i \in 1..Len(short) : new[i] = short[i]
          /\ new[Len(short) + 1] = E!Joined
      BY <3>1, <3>2
    <3>4. Len(short) + 1 = Len(text)
      BY <2>2, <2>3
    <3>. QED  BY <3>3, <3>4, <2>3
  <2>5. E!Torn \notin Requests /\ E!Joined \notin Requests
    OBVIOUS
  <2>6. DOMAIN text = 1..Len(text) /\ DOMAIN new = 1..Len(text)
    BY <2>4
  <2>. HIDE DEF short, new
  <2>7. \A i \in 1..Len(text) : i \in 1..(Len(text) - 1) \/ i = Len(text)
    BY <2>2
  <2>8. \A i \in DOMAIN text : text[i] \in Requests => i \in DOMAIN new /\ new[i] = text[i]
    BY <2>4, <2>5, <2>6, <2>7, <1>1
  <2>9. \A i \in DOMAIN new : new[i] \in Requests => i \in DOMAIN text /\ new[i] = text[i]
    BY <2>4, <2>5, <2>6, <2>7, <1>1
  <2>. QED  BY <1>1, <2>2, <2>4, <2>8, <2>9 DEF new
<1>2. CASE ~(text # <<>> /\ text[Len(text)] = E!Torn)
  <2>1. new = Append(text, line)
    BY <1>2 DEF E!WithLine, E!Last
  <2>2. line \in Lines
    BY DEF Lines
  <2>. HIDE DEF new
  <2>3. /\ new \in Seq(Lines) /\ Len(new) = Len(text) + 1 /\ Len(text) \in Nat
        /\ \A i \in 1..Len(text) : new[i] = text[i]
        /\ new[Len(text) + 1] = line
    BY <2>1, <2>2
  <2>4. DOMAIN text = 1..Len(text) /\ DOMAIN new = 1..(Len(text) + 1)
    BY <2>3
  <2>5. \A i \in 1..(Len(text) + 1) : i \in 1..Len(text) \/ i = Len(text) + 1
    BY <2>3
  <2>6. \A i \in DOMAIN text : i \in DOMAIN new /\ new[i] = text[i]
    BY <2>3, <2>4
  <2>7. \A i \in DOMAIN new : \/ i \in DOMAIN text /\ new[i] = text[i]
                              \/ i = Len(new) /\ i = Len(text) + 1 /\ new[i] = line
    BY <2>3, <2>4, <2>5
  <2>8. text = <<>> => Len(new) = 1
    BY <2>3
  <2>9. new # <<>>
    BY <2>3
  <2>. QED  BY <2>3, <2>6, <2>7, <2>8, <2>9 DEF new
<1>. QED  BY <1>1, <1>2

-----------------------------------------------------------------------------
(* The inductive invariant.                                                *)

(* How many events have left the queue.                                    *)
Taken == Len(accepted) - Len(queue)

(* The queue holds the last of what got into it.                           *)
QueueFollows ==
  /\ Len(queue) <= Len(accepted)
  /\ \A i \in 1..Len(queue) : queue[i] = accepted[Taken + i]

(* A request is one of those still to come, in a handler, taken into the   *)
(* queue or counted as dropped; so there is a number for every file.       *)
Unseen == {r \in Requests : at[r] = E!Never}
Counted ==
  /\ \A r \in handled : at[r] # E!Never
  /\ \A i \in DOMAIN accepted : at[accepted[i]] # E!Never
  /\ Len(accepted) + dropped + Cardinality(handled) + Cardinality(Unseen) <= N

(* A line is of the day of its file and of an event that left the queue.   *)
LinesKnown ==
  \A f \in E!Names : \A i \in DOMAIN lines[f] : lines[f][i] \in Requests =>
    /\ at[lines[f][i]] = f[1]
    /\ \E a \in 1..Taken : accepted[a] = lines[f][i]

(* A file is begun only when those before it are full, and there are no    *)
(* more files than events.                                                 *)
FullBefore(f) == \A n \in E!Numbers : n < f[2] => Len(lines[<<f[1], n>>]) >= MaxSize
FilesInTurn == \A f \in E!Names : lines[f] # <<>> => f[2] < Taken /\ FullBefore(f)

(* An open file whose encoder has not failed has room; one that was        *)
(* removed is of a day that is not to be kept.                             *)
OldDay(day) == KeepDays > 0 /\ day < now - KeepDays
OpenHasRoom ==
  opened =>
    /\ file.unlinked => OldDay(file.name[1])
    /\ ~file.failed /\ ~file.unlinked =>
         lines[file.name] # <<>> /\ Len(lines[file.name]) < MaxSize

LogInv ==
  /\ E!TypeOK /\ QueueFollows /\ Counted
  /\ LinesKnown /\ FilesInTurn /\ OpenHasRoom
  /\ E!FilesBounded /\ E!LogInOrder /\ E!NothingLeftBehind

-----------------------------------------------------------------------------
(* Steps.                                                                  *)

(* There is a file with room for the day, all those before it are full.    *)
LEMMA FreeNameOK ==
  ASSUME E!TypeOK, QueueFollows, Counted, FilesInTurn, queue # <<>>, NEW day \in E!Days
  PROVE  LET f == E!FreeName(day) IN
         /\ f \in E!Names /\ f[1] = day
         /\ Len(lines[f]) < MaxSize
         /\ f[2] <= Taken /\ FullBefore(f)
<1>. DEFINE RoomLeft == {n \in E!Numbers : Len(lines[<<day, n>>]) < MaxSize}
            OK(name) == /\ Len(lines[name]) < MaxSize
                        /\ \A n \in 0..(name[2] - 1) : Len(lines[<<day, n>>]) >= MaxSize
<1>1. Taken \in E!Numbers
  <2>1. Len(queue) \in Nat /\ Len(queue) > 0 /\ Len(accepted) \in Nat
    BY DEF E!TypeOK
  <2>2. dropped \in Nat /\ Cardinality(handled) \in Nat /\ Cardinality(Unseen) \in Nat
    <3>1. IsFiniteSet(handled) /\ IsFiniteSet(Unseen)
      BY FS_Subset, Constants DEF Unseen, E!TypeOK
    <3>. QED  BY <3>1, FS_CardinalityType, Constants DEF E!TypeOK, N
  <2>3. Len(accepted) <= N
    BY <2>1, <2>2, Constants DEF Counted
  <2>. QED  BY <2>1, <2>3, Constants DEF QueueFollows, Taken
<1>2. Taken \in RoomLeft
  <2>1. <<day, Taken>> \in E!Names
    BY <1>1, NamesOK
  <2>2. lines[<<day, Taken>>] = <<>>
    <3>1. <<day, Taken>>[2] = Taken /\ ~(Taken < Taken)
      BY <1>1, Constants
    <3>. QED  BY <2>1, <3>1 DEF FilesInTurn
  <2>3. Len(lines[<<day, Taken>>]) = 0
    BY <2>2
  <2>. QED  BY <1>1, <2>3, Constants
<1>3. RoomLeft \in SUBSET Nat /\ RoomLeft # {}
  <2>1. RoomLeft \subseteq E!Numbers /\ E!Numbers \subseteq Nat
    BY Constants
  <2>. HIDE DEF RoomLeft
  <2>. QED  BY <1>2, <2>1
<1>4. PICK n \in RoomLeft : \A m \in RoomLeft : n <= m
  <2>. HIDE DEF RoomLeft
  <2>. QED  BY <1>3, Least
<1>5. n \in E!Numbers /\ Len(lines[<<day, n>>]) < MaxSize
  OBVIOUS
<1>6. \A m \in E!Numbers : m < n => Len(lines[<<day, m>>]) >= MaxSize
  <2>. SUFFICES ASSUME NEW m \in E!Numbers, m < n PROVE Len(lines[<<day, m>>]) >= MaxSize
    OBVIOUS
  <2>1. m \notin RoomLeft
    BY <1>4, <1>5, Constants
  <2>2. lines[<<day, m>>] \in Seq(Lines)
    BY NamesOK DEF E!TypeOK, Lines
  <2>. QED  BY <2>1, <2>2, Constants
<1>7. OK(<<day, n>>) /\ <<day, n>> \in {day} \X E!Numbers
  BY <1>5, <1>6, Constants
<1>8. E!FreeName(day) = CHOOSE name \in {day} \X E!Numbers : OK(name)
  BY DEF E!FreeName
<1>. DEFINE f == E!FreeName(day)
<1>9. f \in {day} \X E!Numbers /\ OK(f)
  <2>. HIDE DEF OK
  <2>. QED  BY <1>7, <1>8
<1>10. f \in E!Names /\ f[1] = day /\ f[2] \in E!Numbers
  BY <1>9, NamesOK
<1>11. f = <<day, f[2]>>
  BY <1>10, NamesOK
<1>12. \A m \in 0..(f[2] - 1) : Len(lines[<<day, m>>]) >= MaxSize
  BY <1>9
<1>13. Len(lines[f]) < MaxSize
  BY <1>9
<1>. HIDE DEF f
<1>14. FullBefore(f)
  <2>1. \A m \in E!Numbers : m < f[2] => m \in 0..(f[2] - 1)
    BY <1>10, Constants
  <2>. QED  BY <1>10, <1>12, <2>1 DEF FullBefore
<1>15. f[2] <= Taken
  <2>. SUFFICES ASSUME Taken < f[2] PROVE FALSE
    BY <1>1, <1>10, Constants
  <2>1. Len(lines[<<day, Taken>>]) >= MaxSize
    BY <1>1, <1>10, <1>14 DEF FullBefore
  <2>2. Len(lines[<<day, Taken>>]) < MaxSize
    BY <1>2
  <2>3. Len(lines[<<day, Taken>>]) \in Nat
    BY <1>1, NamesOK DEF E!TypeOK
  <2>. QED  BY <2>1, <2>2, <2>3, Constants
<1>. QED  BY <1>10, <1>13, <1>14, <1>15 DEF f

(* What LogWrites and LineFails write to.                                  *)
LEMMA PreparedOK ==
  ASSUME E!TypeOK, QueueFollows, Counted, FilesInTurn, OpenHasRoom, queue # <<>>
  PROVE  LET r == Head(queue)
             f == E!Prepared(r) IN
         /\ r \in Requests /\ at[r] \in E!Days
         /\ f \in [name: E!Names, size: 0..MaxSize, failed: BOOLEAN, unlinked: BOOLEAN]
         /\ f.name[1] = at[r]
         /\ f.unlinked => OldDay(at[r])
         /\ ~f.failed /\ ~f.unlinked =>
              /\ Len(lines[f.name]) < MaxSize
              /\ f.name[2] <= Taken /\ FullBefore(f.name)
<1>. DEFINE r == Head(queue)
<1>1. r \in Requests /\ r = queue[1] /\ 1 \in 1..Len(queue)
  BY DEF E!TypeOK
<1>2. at[r] \in E!Days
  <2>1. Taken + 1 \in DOMAIN accepted /\ r = accepted[Taken + 1]
    <3>1. Len(queue) \in Nat /\ Len(queue) > 0 /\ Len(accepted) \in Nat
      BY DEF E!TypeOK
    <3>. QED  BY <1>1, <3>1 DEF QueueFollows, Taken, E!TypeOK
  <2>. QED  BY <1>1, <2>1 DEF Counted, E!TypeOK
<1>. HIDE DEF r
<1>3. CASE E!Stays(r)
  <2>1. E!Prepared(r) = file /\ opened /\ file.name[1] = at[r]
    BY <1>3 DEF E!Prepared, E!Stays
  <2>2. file \in [name: E!Names, size: 0..MaxSize, failed: BOOLEAN, unlinked: BOOLEAN]
    BY DEF E!TypeOK
  <2>3. file.unlinked => OldDay(at[r])
    BY <2>1 DEF OpenHasRoom
  <2>4. ASSUME ~file.failed, ~file.unlinked
        PROVE  Len(lines[file.name]) < MaxSize /\ file.name[2] <= Taken /\ FullBefore(file.name)
    <3>1. lines[file.name] # <<>> /\ Len(lines[file.name]) < MaxSize
      BY <2>1, <2>4 DEF OpenHasRoom
    <3>2. file.name[2] < Taken /\ FullBefore(file.name)
      BY <2>2, <3>1 DEF FilesInTurn
    <3>3. file.name[2] \in Nat /\ Taken \in Int
      BY <2>2, NamesOK, Constants DEF E!TypeOK, Taken
    <3>. QED  BY <3>1, <3>2, <3>3
  <2>. QED  BY <1>1, <1>2, <2>1, <2>2, <2>3, <2>4 DEF r
<1>4. CASE ~E!Stays(r)
  <2>. DEFINE name == E!FreeName(at[r])
  <2>1. /\ name \in E!Names /\ name[1] = at[r] /\ Len(lines[name]) < MaxSize
        /\ name[2] <= Taken /\ FullBefore(name)
    BY <1>2, FreeNameOK
  <2>2. E!Prepared(r) = [E!NoFile EXCEPT !.name = name, !.size = Len(lines[name])]
    BY <1>4 DEF E!Prepared
  <2>. HIDE DEF name
  <2>3. Len(lines[name]) \in 0..MaxSize
    BY <2>1, Constants DEF E!TypeOK
  <2>4. /\ E!Prepared(r).name = name /\ E!Prepared(r).unlinked = FALSE
        /\ E!Prepared(r) \in [name: E!Names, size: 0..MaxSize, failed: BOOLEAN, unlinked: BOOLEAN]
    BY <2>1, <2>2, <2>3 DEF E!NoFile
  <2>. QED  BY <1>1, <1>2, <2>1, <2>4 DEF r
<1>. QED  BY <1>3, <1>4

(* An event leaves the queue.                                              *)
LEMMA TakeOK ==
  ASSUME E!TypeOK, QueueFollows, queue # <<>>, queue' = Tail(queue), accepted' = accepted
  PROVE  /\ Taken \in Nat /\ Taken' = Taken + 1 /\ Taken + 1 \in DOMAIN accepted
         /\ Head(queue) = accepted[Taken + 1]
         /\ queue' \in Seq(Requests) /\ Len(queue') <= LogQueue
         /\ QueueFollows'
         /\ E!ToSet(queue) \subseteq E!ToSet(queue') \cup {Head(queue)}
<1>1. /\ queue \in Seq(Requests) /\ Len(queue) \in Nat /\ Len(queue) >= 1
      /\ accepted \in Seq(Requests) /\ Len(accepted) \in Nat
      /\ Len(queue) <= LogQueue
  BY DEF E!TypeOK
<1>2. /\ queue' \in Seq(Requests) /\ Len(queue') = Len(queue) - 1
      /\ \A i \in 1..(Len(queue) - 1) : queue'[i] = queue[i + 1]
  BY <1>1
<1>3. Taken \in Nat /\ Taken' = Taken + 1 /\ Taken + 1 \in 1..Len(accepted)
  BY <1>1, <1>2 DEF Taken, QueueFollows
<1>4. Head(queue) = accepted[Taken + 1]
  <2>1. Head(queue) = queue[1] /\ 1 \in 1..Len(queue)
    BY <1>1
  <2>. QED  BY <2>1 DEF QueueFollows
<1>5. QueueFollows'
  <2>1. ASSUME NEW i \in 1..(Len(queue) - 1)
        PROVE  queue'[i] = accepted[Taken' + i]
    <3>1. i + 1 \in 1..Len(queue) /\ Taken + (i + 1) = Taken' + i
      BY <1>1, <1>3
    <3>2. queue[i + 1] = accepted[Taken + (i + 1)]
      BY <3>1 DEF QueueFollows
    <3>. QED  BY <1>2, <3>1, <3>2
  <2>2. Len(queue') <= Len(accepted')
    BY <1>1, <1>2 DEF QueueFollows
  <2>. QED  BY <1>2, <2>1, <2>2 DEF QueueFollows
<1>6. E!ToSet(queue) \subseteq E!ToSet(queue') \cup {Head(queue)}
  <2>. SUFFICES ASSUME NEW i \in 1..Len(queue)
       PROVE  queue[i] \in E!ToSet(queue') \cup {Head(queue)}
    BY <1>1 DEF E!ToSet
  <2>1. CASE i = 1
    BY <1>1, <2>1
  <2>2. CASE i # 1
    <3>1. i - 1 \in 1..(Len(queue) - 1) /\ (i - 1) + 1 = i
      BY <1>1, <2>2
    <3>2. queue'[i - 1] = queue[i] /\ i - 1 \in DOMAIN queue'
      <4>1. queue'[i - 1] = queue[(i - 1) + 1]
        BY <1>2, <3>1
      <4>. QED  BY <1>2, <3>1, <4>1
    <3>. QED  BY <3>2 DEF E!ToSet
  <2>. QED  BY <2>1, <2>2
<1>. QED  BY <1>1, <1>2, <1>3, <1>4, <1>5, <1>6

(* Steps that write nothing.                                               *)
LEMMA FilesKept ==
  ASSUME E!TypeOK, LinesKnown, FilesInTurn, E!FilesBounded, E!LogInOrder, QueueFollows,
         lines' = lines, accepted' \in Seq(Requests), Taken' \in Int, Taken <= Taken',
         \A i \in DOMAIN accepted : i \in DOMAIN accepted' /\ accepted'[i] = accepted[i],
         \A r \in Requests : at[r] # E!Never => at'[r] = at[r]
  PROVE  LinesKnown' /\ FilesInTurn' /\ E!FilesBounded' /\ E!LogInOrder'
<1>1. /\ Len(accepted) \in Nat /\ Len(queue) \in Nat /\ DOMAIN accepted = 1..Len(accepted)
      /\ Taken \in Nat /\ Taken <= Len(accepted) /\ 1..Taken \subseteq DOMAIN accepted
  BY DEF E!TypeOK, Taken, QueueFollows
<1>2. LinesKnown'
  <2>. SUFFICES ASSUME NEW f \in E!Names, NEW i \in DOMAIN lines[f], lines[f][i] \in Requests
       PROVE  /\ at'[lines[f][i]] = f[1]
              /\ \E a \in 1..Taken' : accepted'[a] = lines[f][i]
    BY DEF LinesKnown
  <2>1. /\ at[lines[f][i]] = f[1]
        /\ \E a \in 1..Taken : accepted[a] = lines[f][i]
    BY DEF LinesKnown
  <2>2. PICK a \in 1..Taken : accepted[a] = lines[f][i]
    BY <2>1
  <2>3. f[1] # E!Never
    BY NamesOK, Constants DEF E!Never
  <2>4. a \in DOMAIN accepted /\ a \in 1..Taken'
    BY <1>1
  <2>. QED  BY <2>1, <2>2, <2>3, <2>4
<1>3. FilesInTurn'
  <2>. SUFFICES ASSUME NEW f \in E!Names, lines[f] # <<>>
       PROVE  f[2] < Taken' /\ FullBefore(f)'
    BY DEF FilesInTurn
  <2>1. f[2] < Taken /\ FullBefore(f)
    BY DEF FilesInTurn
  <2>2. f[2] \in Int
    BY NamesOK, Constants
  <2>3. f[2] < Taken'
    BY <1>1, <2>1, <2>2
  <2>. QED  BY <2>1, <2>3 DEF FullBefore
<1>4. E!FilesBounded'
  BY DEF E!FilesBounded
<1>5. E!LogInOrder'
  <2>. SUFFICES ASSUME NEW f \in E!Names, NEW i \in DOMAIN lines[f],
                       NEW g \in {f[1]} \X E!Numbers, NEW j \in DOMAIN lines[g],
                       lines[f][i] \in Requests, lines[g][j] \in Requests,
                       E!ReadBefore(f, i, g, j)
       PROVE  \E a, b \in DOMAIN accepted' :
                a < b /\ accepted'[a] = lines[f][i] /\ accepted'[b] = lines[g][j]
    BY DEF E!LogInOrder
  <2>1. PICK a \in DOMAIN accepted, b \in DOMAIN accepted :
          a < b /\ accepted[a] = lines[f][i] /\ accepted[b] = lines[g][j]
    BY DEF E!LogInOrder
  <2>. QED  BY <2>1
<1>. QED  BY <1>2, <1>3, <1>4, <1>5

(* A line, or what a failed write leaves of it, is written for the event   *)
(* that has left the queue.                                                *)
LEMMA WriteKeeps ==
  ASSUME E!TypeOK, QueueFollows, LinesKnown, FilesInTurn, E!FilesBounded, E!LogInOrder,
         queue # <<>>, queue' = Tail(queue), accepted' = accepted, at' = at,
         NEW f \in E!Names, f[1] = at[Head(queue)], Len(lines[f]) < MaxSize,
         f[2] <= Taken, FullBefore(f),
         NEW line \in {Head(queue), E!Torn},
         lines' = [lines EXCEPT ![f] = E!WithLine(@, line)]
  PROVE  /\ lines' \in [E!Names -> Seq(Lines)]
         /\ lines'[f] # <<>> /\ Len(lines'[f]) \in 0..MaxSize
         /\ LinesKnown' /\ FilesInTurn' /\ E!FilesBounded' /\ E!LogInOrder'
         /\ \A n \in E!Names : E!ToSet(lines[n]) \cap Requests \subseteq E!ToSet(lines'[n])
<1>. DEFINE old == lines[f]
            new == E!WithLine(lines[f], line)
<1>1. lines \in [E!Names -> Seq(Lines)] /\ Head(queue) \in Requests
  BY DEF E!TypeOK, Lines
<1>2. /\ lines'[f] = new
      /\ \A n \in E!Names : n # f => lines'[n] = lines[n]
  BY <1>1
<1>3. /\ new \in Seq(Lines) /\ new # <<>>
      /\ Len(new) \in {Len(old), Len(old) + 1}
      /\ old = <<>> => Len(new) = 1
      /\ \A i \in DOMAIN old : old[i] \in Requests => i \in DOMAIN new /\ new[i] = old[i]
      /\ \A i \in DOMAIN new : new[i] \in Requests =>
           \/ i \in DOMAIN old /\ new[i] = old[i]
           \/ i = Len(new) /\ i = Len(old) + 1 /\ new[i] = line
  <2>1. lines[f] \in Seq(Lines) /\ line \in Requests \cup {E!Torn}
    BY <1>1
  <2>. QED  BY <2>1, WithLineOK
<1>4. old \in Seq(Lines) /\ Len(old) \in Nat
  BY <1>1
<1>. HIDE DEF old, new
<1>5. Len(lines[f]) = Len(old) /\ lines[f] = old
  BY DEF old
<1>6. lines' \in [E!Names -> Seq(Lines)]
  <2>1. lines' = [lines EXCEPT ![f] = new]
    BY DEF new
  <2>. QED  BY <1>1, <1>3, <2>1
<1>7. Len(new) \in 0..MaxSize
  BY <1>3, <1>4, <1>5, Constants
<1>8. /\ Taken \in Nat /\ Taken' = Taken + 1 /\ Taken + 1 \in DOMAIN accepted
      /\ Head(queue) = accepted[Taken + 1]
  BY TakeOK
<1>9. \A n \in E!Names : \A i \in DOMAIN lines'[n] : lines'[n][i] \in Requests =>
        \/ i \in DOMAIN lines[n] /\ lines'[n][i] = lines[n][i]
        \/ n = f /\ i = Len(new) /\ i = Len(old) + 1 /\ lines'[n][i] = Head(queue)
  <2>1. E!Torn \notin Requests
    OBVIOUS
  <2>. QED  BY <1>2, <1>3, <1>5, <2>1
<1>10. LinesKnown'
  <2>. SUFFICES ASSUME NEW n \in E!Names, NEW i \in DOMAIN lines'[n], lines'[n][i] \in Requests
       PROVE  /\ at[lines'[n][i]] = n[1]
              /\ \E a \in 1..(Taken + 1) : accepted[a] = lines'[n][i]
    BY <1>8 DEF LinesKnown
  <2>1. CASE i \in DOMAIN lines[n] /\ lines'[n][i] = lines[n][i]
    <3>1. at[lines[n][i]] = n[1] /\ \E a \in 1..Taken : accepted[a] = lines[n][i]
      BY <2>1 DEF LinesKnown
    <3>. QED  BY <1>8, <2>1, <3>1
  <2>2. CASE n = f /\ lines'[n][i] = Head(queue)
    BY <1>8, <2>2
  <2>. QED  BY <1>9, <2>1, <2>2
(* Files behind f are empty, for they would have been begun only when f    *)
(* was full.                                                               *)
<1>11. \A g \in E!Names : g[1] = f[1] /\ f[2] < g[2] => lines[g] = <<>>
  <2>. SUFFICES ASSUME NEW g \in E!Names, g[1] = f[1], f[2] < g[2], lines[g] # <<>>
       PROVE  FALSE
    OBVIOUS
  <2>1. Len(lines[<<g[1], f[2]>>]) >= MaxSize
    BY NamesOK DEF FilesInTurn, FullBefore
  <2>2. <<g[1], f[2]>> = f
    BY NamesOK
  <2>3. Len(lines[f]) >= MaxSize
    BY <2>1, <2>2
  <2>. QED  BY <1>4, <1>5, <2>3, Constants
<1>12. FilesInTurn'
  <2>1. \A day \in E!Days, m \in E!Numbers : Len(lines[<<day, m>>]) >= MaxSize
          => Len(lines'[<<day, m>>]) >= MaxSize
    <3>1. \A n \in E!Names : Len(lines[n]) >= MaxSize => Len(lines'[n]) >= MaxSize
      BY <1>2, <1>4, <1>5, Constants
    <3>. QED  BY <3>1, NamesOK
  <2>. SUFFICES ASSUME NEW n \in E!Names, lines'[n] # <<>>
       PROVE  n[2] < Taken + 1 /\ FullBefore(n)'
    BY <1>8 DEF FilesInTurn
  <2>2. n[1] \in E!Days /\ n[2] \in Nat /\ f[2] \in Nat
    BY NamesOK, Constants
  <2>3. n[2] < Taken + 1 /\ FullBefore(n)
    <3>1. CASE n = f
      BY <1>8, <2>2, <3>1
    <3>2. CASE n # f
      <4>1. n[2] < Taken /\ FullBefore(n)
        BY <1>2, <3>2 DEF FilesInTurn
      <4>. QED  BY <1>8, <2>2, <4>1
    <3>. QED  BY <3>1, <3>2
  <2>. QED  BY <2>1, <2>2, <2>3 DEF FullBefore
<1>13. E!FilesBounded'
  <2>. SUFFICES ASSUME NEW n \in E!Names PROVE Len(lines'[n]) <= MaxSize
    BY DEF E!FilesBounded
  <2>1. CASE n = f
    BY <1>2, <1>7, <2>1, Constants
  <2>2. CASE n # f
    BY <1>2, <2>2 DEF E!FilesBounded
  <2>. QED  BY <2>1, <2>2
<1>14. E!LogInOrder'
  <2>. SUFFICES ASSUME NEW g \in E!Names, NEW i \in DOMAIN lines'[g],
                       NEW h \in {g[1]} \X E!Numbers, NEW j \in DOMAIN lines'[h],
                       lines'[g][i] \in Requests, lines'[h][j] \in Requests,
                       E!ReadBefore(g, i, h, j)
       PROVE  \E a, b \in DOMAIN accepted :
                a < b /\ accepted[a] = lines'[g][i] /\ accepted[b] = lines'[h][j]
    BY DEF E!LogInOrder
  <2>1. h \in E!Names /\ h[1] = g[1] /\ g[2] \in Nat /\ h[2] \in Nat /\ g[1] \in Nat
    BY NamesOK, Constants DEF E!Names
  <2>2. /\ DOMAIN lines'[g] = 1..Len(lines'[g]) /\ DOMAIN lines'[h] = 1..Len(lines'[h])
        /\ Len(lines'[g]) \in Nat /\ Len(lines'[h]) \in Nat /\ i \in Nat /\ j \in Nat
        /\ i <= Len(lines'[g]) /\ j <= Len(lines'[h])
    <3>1. \A n \in E!Names : lines'[n] \in Seq(Lines)
      BY <1>6
    <3>2. lines'[g] \in Seq(Lines) /\ lines'[h] \in Seq(Lines)
      BY <2>1, <3>1
    <3>. QED  BY <3>2, Indices
  <2>3. g[2] < h[2] \/ (g[2] = h[2] /\ i < j)
    BY <2>1 DEF E!ReadBefore
  (* The new line is not read before another.                              *)
  <2>4. i \in DOMAIN lines[g] /\ lines'[g][i] = lines[g][i]
    <3>. SUFFICES ASSUME g = f, i = Len(new), i = Len(old) + 1 PROVE FALSE
      BY <1>9
    <3>1. CASE g[2] < h[2]
      <4>1. lines[h] = <<>> /\ h # f
        BY <1>11, <2>1, <3>1
      <4>2. lines'[h] = <<>>
        BY <1>2, <2>1, <4>1
      <4>. QED  BY <2>2, <4>2
    <3>2. CASE g[2] = h[2] /\ i < j
      <4>1. h = f
        BY <2>1, <3>2, NamesOK
      <4>2. j <= Len(new) /\ i < j /\ i = Len(new) /\ i \in Nat /\ j \in Nat
        BY <1>2, <2>2, <3>2, <4>1
      <4>. QED  BY <4>2
    <3>. QED  BY <2>3, <3>1, <3>2
  <2>5. CASE j \in DOMAIN lines[h] /\ lines'[h][j] = lines[h][j]
    BY <2>4, <2>5 DEF E!LogInOrder
  <2>6. CASE lines'[h][j] = Head(queue)
    <3>1. PICK a \in 1..Taken : accepted[a] = lines[g][i]
      BY <2>4 DEF LinesKnown
    <3>2. a \in DOMAIN accepted /\ a < Taken + 1
      <4>1. DOMAIN accepted = 1..Len(accepted) /\ Len(accepted) \in Nat
        BY DEF E!TypeOK
      <4>2. Taken \in Nat /\ Taken + 1 <= Len(accepted) /\ a \in 1..Taken
        BY <1>8, <4>1
      <4>. QED  BY <4>1, <4>2
    <3>. QED  BY <1>8, <2>4, <2>6, <3>1, <3>2
  <2>. QED  BY <1>9, <2>1, <2>5, <2>6
<1>15. \A n \in E!Names : E!ToSet(lines[n]) \cap Requests \subseteq E!ToSet(lines'[n])
  BY <1>2, <1>3, <1>5 DEF E!ToSet
<1>. QED  BY <1>2, <1>3, <1>6, <1>7, <1>10, <1>12, <1>13, <1>14, <1>15

(* What the steps keep that touch neither the queue nor the files.         *)
LEMMA Sizes ==
  ASSUME E!TypeOK
  PROVE  /\ IsFiniteSet(handled) /\ Cardinality(handled) \in Nat
         /\ IsFiniteSet(Unseen) /\ Cardinality(Unseen) \in Nat
         /\ Len(queue) \in Nat /\ Len(accepted) \in Nat /\ dropped \in Nat
         /\ DOMAIN accepted = 1..Len(accepted)
<1>1. IsFiniteSet(handled) /\ IsFiniteSet(Unseen)
  BY FS_Subset, Constants DEF Unseen, E!TypeOK
<1>. QED  BY <1>1, FS_CardinalityType DEF E!TypeOK

LEMMA InitOK == ASSUME E!Init PROVE LogInv
<1>. USE DEF E!Init
<1>1. lines \in [E!Names -> Seq(Lines)] /\ \A n \in E!Names : lines[n] = <<>>
  OBVIOUS
<1>2. handled = {} /\ queue = <<>> /\ accepted = <<>> /\ opened = FALSE /\ dropped = 0
  OBVIOUS
<1>3. <<0, 0>> \in E!Names
  <2>. HIDE DEF E!Init
  <2>1. 0 \in E!Days /\ 0 \in E!Numbers
    BY Constants
  <2>. QED  BY <2>1, NamesOK
<1>4. E!TypeOK
  <2>1. file \in [name: E!Names, size: 0..MaxSize, failed: BOOLEAN, unlinked: BOOLEAN]
    BY <1>3, Constants DEF E!NoFile
  <2>2. now \in E!Days /\ at \in [Requests -> E!Days \cup {E!Never}] /\ dropped \in 0..N
    BY Constants
  <2>3. queue \in Seq(Requests) /\ accepted \in Seq(Requests) /\ Len(queue) = 0
    BY <1>2
  <2>4. handled \subseteq Requests /\ lost \subseteq Requests /\ opened \in BOOLEAN
    OBVIOUS
  <2>. QED  BY <1>1, <2>1, <2>2, <2>3, <2>4, Constants DEF E!TypeOK, Lines
<1>5. QueueFollows
  BY <1>2 DEF QueueFollows, Taken
<1>6. Counted
  <2>1. Unseen = Requests /\ Len(accepted) = 0 /\ Cardinality(handled) = 0
    BY FS_EmptySet DEF Unseen
  <2>. QED  BY <1>2, <2>1, Constants DEF Counted, N
<1>. HIDE DEF E!Init
<1>7. \A n \in E!Names : DOMAIN lines[n] = {} /\ Len(lines[n]) = 0
  BY <1>1
<1>8. LinesKnown /\ FilesInTurn /\ E!LogInOrder
  BY <1>1, <1>7 DEF LinesKnown, FilesInTurn, E!LogInOrder
<1>9. E!FilesBounded
  BY <1>7, Constants DEF E!FilesBounded
<1>10. OpenHasRoom /\ E!NothingLeftBehind
  BY <1>2 DEF OpenHasRoom, E!NothingLeftBehind, E!ToSet
<1>. QED  BY <1>4, <1>5, <1>6, <1>8, <1>9, <1>10 DEF LogInv

LEMMA TickOK == ASSUME LogInv, E!Tick PROVE LogInv'
<1>. USE DEF LogInv
<1>1. now' = now + 1 /\ now < MaxDay /\ UNCHANGED <<at, handled, life, E!log>>
  BY DEF E!Tick
<1>2. now \in Nat /\ now' \in E!Days
  BY <1>1, Constants DEF E!TypeOK
<1>3. E!TypeOK'
  BY <1>1, <1>2 DEF E!TypeOK, E!log
<1>4. QueueFollows' /\ Counted'
  BY <1>1 DEF QueueFollows, Counted, Taken, Unseen, E!log
<1>5. LinesKnown' /\ FilesInTurn' /\ E!FilesBounded' /\ E!LogInOrder'
  BY <1>1 DEF LinesKnown, FilesInTurn, FullBefore, E!FilesBounded, E!LogInOrder, Taken, E!log
<1>6. \A day \in E!Days : OldDay(day) => OldDay(day)'
  BY <1>1, <1>2, Constants DEF OldDay
<1>7. OpenHasRoom'
  <2>1. file.name[1] \in E!Days
    BY NamesOK DEF E!TypeOK
  <2>. QED  BY <1>1, <1>6, <2>1 DEF OpenHasRoom, E!log
<1>8. E!NothingLeftBehind'
  <2>. SUFFICES ASSUME NEW r \in E!ToSet(accepted) \ lost
       PROVE  \/ r \in E!ToSet(queue)
              \/ \E n \in E!Names : r \in E!ToSet(lines[n])
              \/ OldDay(at[r])'
    BY <1>1 DEF E!NothingLeftBehind, OldDay, E!log
  <2>1. at[r] \in E!Days
    BY DEF E!ToSet, Counted, E!TypeOK
  <2>. QED  BY <1>1, <1>6, <2>1 DEF E!NothingLeftBehind, OldDay
<1>. QED  BY <1>3, <1>4, <1>5, <1>7, <1>8

LEMMA ArriveOK == ASSUME LogInv, NEW r \in Requests, E!Arrive(r) PROVE LogInv'
<1>. USE DEF LogInv
<1>1. /\ at[r] = E!Never /\ at' = [at EXCEPT ![r] = now] /\ handled' = handled \cup {r}
      /\ UNCHANGED <<now, life, E!log>>
  BY DEF E!Arrive
<1>2. now # E!Never /\ now \in E!Days /\ at' \in [Requests -> E!Days \cup {E!Never}]
  BY <1>1, Constants DEF E!TypeOK, E!Never
<1>3. \A q \in Requests : at[q] # E!Never => at'[q] = at[q]
  BY <1>1 DEF E!TypeOK
<1>4. E!TypeOK'
  <2>1. handled' \subseteq Requests
    BY <1>1 DEF E!TypeOK
  <2>2. /\ queue' = queue /\ dropped' = dropped /\ opened' = opened /\ file' = file
        /\ lines' = lines /\ accepted' = accepted /\ lost' = lost /\ now' = now /\ life' = life
    BY <1>1 DEF E!log
  <2>. QED  BY <1>2, <2>1, <2>2 DEF E!TypeOK
<1>5. QueueFollows' /\ Taken' = Taken /\ Taken \in Int
  BY <1>1, Sizes DEF QueueFollows, Taken, E!log
<1>6. Counted'
  <2>1. \A q \in handled' : at'[q] # E!Never
    BY <1>1, <1>2 DEF E!TypeOK, Counted
  <2>2. \A i \in DOMAIN accepted' : at'[accepted'[i]] # E!Never
    BY <1>1, <1>3 DEF E!TypeOK, Counted, E!log
  <2>3. Unseen' = Unseen \ {r} /\ r \in Unseen
    BY <1>1, <1>2 DEF Unseen, E!TypeOK
  <2>4. Cardinality(Unseen') = Cardinality(Unseen) - 1
    BY <2>3, Sizes, FS_RemoveElement
  <2>5. Cardinality(handled') = Cardinality(handled) + 1
    <3>1. r \notin handled
      BY <1>1 DEF Counted
    <3>. QED  BY <1>1, <3>1, Sizes, FS_AddElement
  <2>6. Len(accepted') + dropped' + Cardinality(handled') + Cardinality(Unseen') <= N
    BY <1>1, <2>4, <2>5, Sizes, Constants DEF Counted, E!log
  <2>. QED  BY <2>1, <2>2, <2>6 DEF Counted
<1>7. LinesKnown' /\ FilesInTurn' /\ E!FilesBounded' /\ E!LogInOrder'
  <2>1. lines' = lines /\ accepted' = accepted /\ accepted \in Seq(Requests)
    BY <1>1 DEF E!log, E!TypeOK
  <2>. QED  BY <1>3, <1>5, <2>1, FilesKept
<1>8. OpenHasRoom'
  BY <1>1 DEF OpenHasRoom, OldDay, E!log
<1>9. E!NothingLeftBehind'
  <2>1. \A q \in E!ToSet(accepted) : at'[q] = at[q]
    BY <1>3 DEF E!ToSet, Counted, E!TypeOK
  <2>. QED  BY <1>1, <2>1 DEF E!NothingLeftBehind, E!log
<1>. QED  BY <1>4, <1>5, <1>6, <1>7, <1>8, <1>9

LEMMA ReportOK == ASSUME LogInv, NEW r \in Requests, E!Report(r) PROVE LogInv'
<1>. USE DEF LogInv
<1>1. /\ r \in handled /\ handled' = handled \ {r}
      /\ UNCHANGED <<now, at, life, opened, file, lines, lost>>
  BY DEF E!Report
<1>2. Cardinality(handled') = Cardinality(handled) - 1
  BY <1>1, Sizes, FS_RemoveElement
<1>3. Unseen' = Unseen
  BY <1>1 DEF Unseen
<1>4. OpenHasRoom'
  BY <1>1 DEF OpenHasRoom, OldDay
<1>5. at[r] # E!Never
  BY <1>1 DEF Counted
<1>6. CASE Len(queue) < LogQueue /\ queue' = Append(queue, r) /\ accepted' = Append(accepted, r)
           /\ dropped' = dropped
  <2>1. /\ queue \in Seq(Requests) /\ accepted \in Seq(Requests)
        /\ Len(queue) \in Nat /\ Len(accepted) \in Nat /\ Len(queue) <= Len(accepted)
    BY DEF E!TypeOK, QueueFollows
  <2>2. /\ queue' \in Seq(Requests) /\ Len(queue') = Len(queue) + 1
        /\ \A i \in 1..Len(queue) : queue'[i] = queue[i]
        /\ queue'[Len(queue) + 1] = r
    BY <1>6, <2>1
  <2>3. /\ accepted' \in Seq(Requests) /\ Len(accepted') = Len(accepted) + 1
        /\ \A i \in 1..Len(accepted) : accepted'[i] = accepted[i]
        /\ accepted'[Len(accepted) + 1] = r
    BY <1>6, <2>1
  <2>4. /\ DOMAIN queue = 1..Len(queue) /\ DOMAIN queue' = 1..(Len(queue) + 1)
        /\ DOMAIN accepted = 1..Len(accepted) /\ DOMAIN accepted' = 1..(Len(accepted) + 1)
    BY <2>1, <2>2, <2>3
  <2>5. Taken' = Taken /\ Taken \in Nat /\ Taken + Len(queue) = Len(accepted)
    BY <2>1, <2>2, <2>3 DEF Taken
  <2>6. QueueFollows'
    <3>1. ASSUME NEW i \in 1..(Len(queue) + 1) PROVE queue'[i] = accepted'[Taken + i]
      <4>1. CASE i = Len(queue) + 1
        <5>1. Taken + i = Len(accepted) + 1
          BY <2>1, <2>5, <4>1
        <5>. QED  BY <2>2, <2>3, <4>1, <5>1
      <4>2. CASE i # Len(queue) + 1
        <5>1. i \in 1..Len(queue) /\ Taken + i \in 1..Len(accepted)
          BY <2>1, <2>5, <4>2
        <5>2. queue[i] = accepted[Taken + i]
          BY <5>1 DEF QueueFollows
        <5>. QED  BY <2>2, <2>3, <5>1, <5>2
      <4>. QED  BY <4>1, <4>2
    <3>2. Len(queue') <= Len(accepted')
      BY <2>1, <2>2, <2>3
    <3>. QED  BY <2>2, <2>5, <3>1, <3>2 DEF QueueFollows
  <2>7. Counted'
    <3>1. \A q \in handled' : at'[q] # E!Never
      BY <1>1 DEF Counted
    <3>2. \A i \in DOMAIN accepted' : at'[accepted'[i]] # E!Never
      <4>1. \A i \in 1..(Len(accepted) + 1) : i \in 1..Len(accepted) \/ i = Len(accepted) + 1
        BY <2>1
      <4>. QED  BY <1>1, <1>5, <2>3, <2>4, <4>1 DEF Counted
    <3>3. Len(accepted') + dropped' + Cardinality(handled') + Cardinality(Unseen') <= N
      BY <1>2, <1>3, <1>6, <2>3, Sizes, Constants DEF Counted
    <3>. QED  BY <3>1, <3>2, <3>3 DEF Counted
  <2>8. E!TypeOK'
    <3>1. Len(queue') <= LogQueue
      BY <1>6, <2>1, <2>2, Constants
    <3>. QED  BY <1>1, <1>6, <2>2, <2>3, <3>1 DEF E!TypeOK
  <2>9. LinesKnown' /\ FilesInTurn' /\ E!FilesBounded' /\ E!LogInOrder'
    <3>1. \A i \in DOMAIN accepted : i \in DOMAIN accepted' /\ accepted'[i] = accepted[i]
      BY <2>1, <2>3, <2>4
    <3>. QED  BY <1>1, <2>3, <2>5, <3>1, FilesKept
  <2>10. E!NothingLeftBehind'
    <3>1. E!ToSet(accepted') = E!ToSet(accepted) \cup {r}
      <4>1. \A i \in 1..(Len(accepted) + 1) : i \in 1..Len(accepted) \/ i = Len(accepted) + 1
        BY <2>1
      <4>2. /\ 1..Len(accepted) \subseteq 1..(Len(accepted) + 1)
            /\ Len(accepted) + 1 \in 1..(Len(accepted) + 1)
        BY <2>1
      <4>. QED  BY <2>3, <2>4, <4>1, <4>2 DEF E!ToSet
    <3>2. r \in E!ToSet(queue') /\ E!ToSet(queue) \subseteq E!ToSet(queue')
      <4>1. 1..Len(queue) \subseteq 1..(Len(queue) + 1) /\ Len(queue) + 1 \in 1..(Len(queue) + 1)
        BY <2>1
      <4>. QED  BY <2>2, <2>4, <4>1 DEF E!ToSet
    <3>. QED  BY <1>1, <3>1, <3>2 DEF E!NothingLeftBehind
  <2>. QED  BY <1>4, <2>6, <2>7, <2>8, <2>9, <2>10
<1>7. CASE dropped' = dropped + 1 /\ UNCHANGED <<queue, accepted>>
  <2>1. QueueFollows' /\ Taken' = Taken /\ Taken \in Int
    BY <1>7, Sizes DEF QueueFollows, Taken
  <2>2. Counted'
    <3>1. Len(accepted') + dropped' + Cardinality(handled') + Cardinality(Unseen') <= N
      BY <1>2, <1>3, <1>7, Sizes, Constants DEF Counted
    <3>. QED  BY <1>1, <1>7, <3>1 DEF Counted
  <2>3. E!TypeOK'
    <3>1. dropped' \in 0..N
      <4>1. Cardinality(handled') \in Nat /\ Len(accepted') \in Nat /\ Cardinality(Unseen') \in Nat
        BY <1>1, <1>3, <1>7, Sizes, FS_RemoveElement, FS_CardinalityType
      <4>2. Len(accepted') + dropped' + Cardinality(handled') + Cardinality(Unseen') <= N
        BY <2>2 DEF Counted
      <4>3. dropped' \in Nat /\ N \in Nat
        BY <1>7, Sizes, Constants
      <4>. QED  BY <4>1, <4>2, <4>3
    <3>. QED  BY <1>1, <1>7, <3>1, Constants DEF E!TypeOK
  <2>4. LinesKnown' /\ FilesInTurn' /\ E!FilesBounded' /\ E!LogInOrder'
    <3>1. accepted \in Seq(Requests)
      BY DEF E!TypeOK
    <3>. QED  BY <1>1, <1>7, <2>1, <3>1, FilesKept
  <2>5. E!NothingLeftBehind'
    BY <1>1, <1>7 DEF E!NothingLeftBehind
  <2>. QED  BY <1>4, <2>1, <2>2, <2>3, <2>4, <2>5
<1>. QED  BY <1>6, <1>7 DEF E!Report, E!HasRoom

LEMMA ReportPanicsOK == ASSUME LogInv, NEW r \in Requests, E!ReportPanics(r) PROVE LogInv'
<1>. USE DEF LogInv
<1>1. handled' = handled \ {r} /\ UNCHANGED <<now, at, life, E!log>>
  BY DEF E!ReportPanics
<1>2. E!TypeOK'
  BY <1>1 DEF E!TypeOK, E!log
<1>3. Counted'
  <2>1. Cardinality(handled') <= Cardinality(handled) /\ Cardinality(handled') \in Nat
    <3>1. handled' \subseteq handled
      BY <1>1
    <3>. QED  BY <3>1, Sizes, FS_Subset, FS_CardinalityType
  <2>2. Unseen' = Unseen
    BY <1>1 DEF Unseen
  <2>3. Len(accepted') + dropped' + Cardinality(handled') + Cardinality(Unseen') <= N
    BY <1>1, <2>1, <2>2, Sizes, Constants DEF Counted, E!log
  <2>. QED  BY <1>1, <2>3 DEF Counted, E!log
<1>4. QueueFollows' /\ LinesKnown' /\ FilesInTurn' /\ E!FilesBounded' /\ E!LogInOrder'
  BY <1>1 DEF QueueFollows, LinesKnown, FilesInTurn, FullBefore, E!FilesBounded, E!LogInOrder,
              Taken, E!log
<1>5. OpenHasRoom' /\ E!NothingLeftBehind'
  BY <1>1 DEF OpenHasRoom, OldDay, E!NothingLeftBehind, E!log
<1>. QED  BY <1>2, <1>3, <1>4, <1>5

(* A state in which only the life of the process is another.               *)
LEMMA LifeOK ==
  ASSUME LogInv, life' \in {"up", "closed", "down"}, UNCHANGED <<now, at, handled, E!log>>
  PROVE  LogInv'
<1>. USE DEF LogInv
<1>1. E!TypeOK'
  BY DEF E!TypeOK, E!log
<1>2. QueueFollows' /\ Counted'
  BY DEF QueueFollows, Counted, Taken, Unseen, E!log
<1>3. LinesKnown' /\ FilesInTurn' /\ E!FilesBounded' /\ E!LogInOrder'
  BY DEF LinesKnown, FilesInTurn, FullBefore, E!FilesBounded, E!LogInOrder, Taken, E!log
<1>4. OpenHasRoom' /\ E!NothingLeftBehind'
  BY DEF OpenHasRoom, OldDay, E!NothingLeftBehind, E!log
<1>. QED  BY <1>1, <1>2, <1>3, <1>4

(* The process ends: what it held in memory is gone, or was written.       *)
LEMMA EndOK == ASSUME LogInv, E!RunEnds \/ E!Kill PROVE LogInv'
<1>. USE DEF LogInv
<1>1. /\ life' = "down" /\ handled' = {} /\ queue' = <<>> /\ dropped' = 0 /\ opened' = FALSE
      /\ file' = E!NoFile /\ UNCHANGED <<now, at, lines, accepted>>
  BY DEF E!RunEnds, E!Kill, E!Gone
<1>2. lost \subseteq lost' /\ lost' \subseteq Requests /\ E!ToSet(queue) \subseteq lost'
  <2>1. E!ToSet(queue) \subseteq Requests
    BY DEF E!TypeOK, E!ToSet
  <2>2. queue = <<>> => E!ToSet(queue) = {}
    BY DEF E!ToSet
  <2>. QED  BY <2>1, <2>2 DEF E!RunEnds, E!Kill, E!Drained, E!TypeOK
<1>3. E!TypeOK'
  <2>1. E!NoFile \in [name: E!Names, size: 0..MaxSize, failed: BOOLEAN, unlinked: BOOLEAN]
    BY NamesOK, Constants DEF E!NoFile
  <2>2. <<>> \in Seq(Requests) /\ Len(<<>>) = 0 /\ 0 \in 0..E!Cardinality(Requests)
    BY Constants
  <2>3. now' \in E!Days /\ at' \in [Requests -> E!Days \cup {E!Never}]
        /\ accepted' \in Seq(Requests)
        /\ lines' \in [E!Names -> Seq(Requests \cup {E!Torn, E!Joined})]
    BY <1>1 DEF E!TypeOK
  <2>4. /\ handled' \subseteq Requests /\ dropped' \in 0..E!Cardinality(Requests)
        /\ queue' \in Seq(Requests) /\ Len(queue') <= LogQueue
    BY <1>1, <2>2, Constants
  <2>5. /\ life' \in {"up", "closed", "down"} /\ opened' \in BOOLEAN
        /\ file' \in [name: E!Names, size: 0..MaxSize, failed: BOOLEAN, unlinked: BOOLEAN]
    BY <1>1, <2>1
  <2>. QED  BY <1>2, <2>3, <2>4, <2>5 DEF E!TypeOK
<1>4. Len(queue') = 0 /\ Taken' = Len(accepted) /\ Taken <= Len(accepted) /\ Len(accepted) \in Nat
  BY <1>1, Sizes DEF Taken
<1>5. QueueFollows'
  BY <1>1, <1>4 DEF QueueFollows
<1>6. Counted'
  <2>1. Cardinality(handled') = 0 /\ Unseen' = Unseen
    BY <1>1, FS_EmptySet DEF Unseen
  <2>2. Len(accepted') + dropped' + Cardinality(handled') + Cardinality(Unseen') <= N
    BY <1>1, <2>1, Sizes, Constants DEF Counted
  <2>. QED  BY <1>1, <2>2 DEF Counted
<1>7. LinesKnown' /\ FilesInTurn' /\ E!FilesBounded' /\ E!LogInOrder'
  <2>1. accepted' \in Seq(Requests) /\ Taken' \in Int
    BY <1>1, <1>4 DEF E!TypeOK
  <2>. QED  BY <1>1, <1>4, <2>1, FilesKept
<1>8. OpenHasRoom'
  BY <1>1 DEF OpenHasRoom
<1>9. E!NothingLeftBehind'
  BY <1>1, <1>2 DEF E!NothingLeftBehind
<1>. QED  BY <1>3, <1>5, <1>6, <1>7, <1>8, <1>9

(* What LogWrites, LineFails, LineRefused and OpenFails have in common.    *)
LEMMA TakenCounted ==
  ASSUME LogInv, E!LogRuns, queue' = Tail(queue),
         UNCHANGED <<now, at, handled, life, dropped, accepted>>
  PROVE  queue # <<>> /\ QueueFollows' /\ Counted'
<1>1. queue # <<>>
  BY DEF E!LogRuns
<1>2. QueueFollows'
  BY <1>1, TakeOK DEF LogInv
<1>3. Counted'
  BY DEF LogInv, Counted, Unseen
<1>. QED  BY <1>1, <1>2, <1>3

(* It was in the queue and is written, or lost, or of a day long past.     *)
LEMMA TakenNotLeft ==
  ASSUME LogInv, queue # <<>>, queue' = Tail(queue), UNCHANGED <<now, at, accepted>>,
         lost \subseteq lost',
         \A n \in E!Names : E!ToSet(lines[n]) \cap Requests \subseteq E!ToSet(lines'[n]),
         \/ Head(queue) \in lost'
         \/ \E n \in E!Names : Head(queue) \in E!ToSet(lines'[n])
         \/ OldDay(at[Head(queue)])
  PROVE  E!NothingLeftBehind'
<1>. USE DEF LogInv
<1>. SUFFICES ASSUME NEW r \in E!ToSet(accepted) \ lost'
     PROVE  \/ r \in E!ToSet(queue')
            \/ \E n \in E!Names : r \in E!ToSet(lines'[n])
            \/ OldDay(at[r])
  BY DEF E!NothingLeftBehind, OldDay
<1>1. r \in Requests
  BY DEF E!TypeOK, E!ToSet
<1>2. CASE r \in E!ToSet(queue)
  <2>1. r \in E!ToSet(queue') \/ r = Head(queue)
    BY <1>2, TakeOK
  <2>. QED  BY <2>1
<1>3. CASE \E n \in E!Names : r \in E!ToSet(lines[n])
  BY <1>1, <1>3
<1>4. CASE OldDay(at[r])
  BY <1>4
<1>. QED  BY <1>2, <1>3, <1>4 DEF E!NothingLeftBehind, OldDay

LEMMA NotWrittenOK == ASSUME LogInv, E!LineRefused \/ E!OpenFails PROVE LogInv'
<1>. USE DEF LogInv
<1>1. /\ E!LogRuns /\ queue' = Tail(queue) /\ lost' = lost \cup {Head(queue)}
      /\ UNCHANGED <<now, at, handled, life, dropped, accepted, lines>>
      /\ UNCHANGED <<opened, file>> \/ (opened' = FALSE /\ file' = E!NoFile)
  BY DEF E!LineRefused, E!OpenFails
<1>2. queue # <<>> /\ QueueFollows' /\ Counted'
  BY <1>1, TakenCounted
<1>3. /\ Taken \in Nat /\ Taken' = Taken + 1
      /\ queue' \in Seq(Requests) /\ Len(queue') <= LogQueue
  BY <1>1, <1>2, TakeOK
<1>4. Head(queue) \in Requests
  BY <1>2 DEF E!TypeOK
<1>5. E!TypeOK'
  <2>1. E!NoFile \in [name: E!Names, size: 0..MaxSize, failed: BOOLEAN, unlinked: BOOLEAN]
    BY NamesOK, Constants DEF E!NoFile
  <2>2. file' \in [name: E!Names, size: 0..MaxSize, failed: BOOLEAN, unlinked: BOOLEAN]
    BY <1>1, <2>1 DEF E!TypeOK
  <2>3. opened' \in BOOLEAN
    BY <1>1 DEF E!TypeOK
  <2>. QED  BY <1>1, <1>3, <1>4, <2>2, <2>3 DEF E!TypeOK
<1>6. LinesKnown' /\ FilesInTurn' /\ E!FilesBounded' /\ E!LogInOrder'
  <2>1. accepted' \in Seq(Requests) /\ Taken' \in Int /\ Taken <= Taken'
    BY <1>1, <1>3 DEF E!TypeOK
  <2>. QED  BY <1>1, <2>1, FilesKept
<1>7. OpenHasRoom'
  BY <1>1 DEF OpenHasRoom, OldDay
<1>8. E!NothingLeftBehind'
  BY <1>1, <1>2, TakenNotLeft
<1>. QED  BY <1>2, <1>5, <1>6, <1>7, <1>8

LEMMA LineFailsOK == ASSUME LogInv, E!LineFails PROVE LogInv'
<1>. USE DEF LogInv
<1>. DEFINE f == E!Prepared(Head(queue))
<1>1. /\ E!LogRuns /\ queue' = Tail(queue) /\ lost' = lost \cup {Head(queue)}
      /\ UNCHANGED <<now, at, handled, life, dropped, accepted>>
      /\ ~f.failed /\ (E!Written(f, E!Torn) \/ lines' = lines)
      /\ opened' = TRUE /\ file' = [f EXCEPT !.failed = TRUE]
  BY DEF E!LineFails
<1>2. queue # <<>> /\ QueueFollows' /\ Counted'
  BY <1>1, TakenCounted
<1>3. /\ Taken \in Nat /\ Taken' = Taken + 1
      /\ queue' \in Seq(Requests) /\ Len(queue') <= LogQueue
  BY <1>1, <1>2, TakeOK
<1>4. /\ Head(queue) \in Requests /\ at[Head(queue)] \in E!Days
      /\ f \in [name: E!Names, size: 0..MaxSize, failed: BOOLEAN, unlinked: BOOLEAN]
      /\ f.name[1] = at[Head(queue)]
      /\ f.unlinked => OldDay(at[Head(queue)])
      /\ ~f.unlinked => Len(lines[f.name]) < MaxSize /\ f.name[2] <= Taken /\ FullBefore(f.name)
  BY <1>1, <1>2, PreparedOK
<1>. HIDE DEF f
<1>5. /\ file' \in [name: E!Names, size: 0..MaxSize, failed: BOOLEAN, unlinked: BOOLEAN]
      /\ file'.name = f.name /\ file'.unlinked = f.unlinked /\ file'.failed
  BY <1>1, <1>4
<1>6. /\ lines' \in [E!Names -> Seq(Lines)]
      /\ LinesKnown' /\ FilesInTurn' /\ E!FilesBounded' /\ E!LogInOrder'
      /\ \A n \in E!Names : E!ToSet(lines[n]) \cap Requests \subseteq E!ToSet(lines'[n])
  <2>1. CASE lines' = lines
    <3>1. /\ accepted' \in Seq(Requests) /\ Taken' \in Int /\ Taken <= Taken'
          /\ lines \in [E!Names -> Seq(Lines)]
      BY <1>1, <1>3 DEF E!TypeOK, Lines
    <3>. QED  BY <1>1, <2>1, <3>1, FilesKept
  <2>2. CASE lines' = [lines EXCEPT ![f.name] = E!WithLine(@, E!Torn)] /\ ~f.unlinked
    <3>1. f.name \in E!Names
      BY <1>4
    <3>. QED  BY <1>1, <1>2, <1>4, <2>2, <3>1, WriteKeeps
  <2>. QED  BY <1>1, <2>1, <2>2 DEF E!Written
<1>7. E!TypeOK'
  BY <1>1, <1>3, <1>4, <1>5, <1>6 DEF E!TypeOK, Lines
<1>8. OpenHasRoom'
  <2>1. file'.unlinked => OldDay(file'.name[1])
    BY <1>4, <1>5
  <2>. QED  BY <1>1, <1>5, <2>1 DEF OpenHasRoom, OldDay
<1>9. E!NothingLeftBehind'
  BY <1>1, <1>2, <1>6, TakenNotLeft
<1>. QED  BY <1>2, <1>6, <1>7, <1>8, <1>9

LEMMA LogWritesOK == ASSUME LogInv, E!LogWrites PROVE LogInv'
<1>. USE DEF LogInv
<1>. DEFINE r == Head(queue)
            f == E!Prepared(r)
            size == IF f.unlinked THEN f.size + 1 ELSE Len(E!WithLine(lines[f.name], r))
<1>1. /\ E!LogRuns /\ queue' = Tail(queue)
      /\ UNCHANGED <<now, at, handled, life, dropped, accepted>>
      /\ ~f.failed /\ E!Written(f, r)
      /\ lost' = IF r \in E!ToSet(lines'[f.name]) \/ f.unlinked THEN lost ELSE lost \cup {r}
      /\ opened' = (size < MaxSize)
      /\ file' = IF size < MaxSize THEN [f EXCEPT !.size = size] ELSE E!NoFile
  BY DEF E!LogWrites
<1>2. queue # <<>> /\ QueueFollows' /\ Counted'
  BY <1>1, TakenCounted
<1>3. /\ Taken \in Nat /\ Taken' = Taken + 1
      /\ queue' \in Seq(Requests) /\ Len(queue') <= LogQueue
  BY <1>1, <1>2, TakeOK
<1>4. /\ r \in Requests /\ at[r] \in E!Days
      /\ f \in [name: E!Names, size: 0..MaxSize, failed: BOOLEAN, unlinked: BOOLEAN]
      /\ f.name[1] = at[r]
      /\ f.unlinked => OldDay(at[r])
      /\ ~f.unlinked => Len(lines[f.name]) < MaxSize /\ f.name[2] <= Taken /\ FullBefore(f.name)
  BY <1>1, <1>2, PreparedOK
<1>. HIDE DEF f
<1>5. f.name \in E!Names /\ f.size \in Nat
  BY <1>4, Constants
<1>6. /\ lines' \in [E!Names -> Seq(Lines)]
      /\ LinesKnown' /\ FilesInTurn' /\ E!FilesBounded' /\ E!LogInOrder'
      /\ \A n \in E!Names : E!ToSet(lines[n]) \cap Requests \subseteq E!ToSet(lines'[n])
      /\ ~f.unlinked => lines'[f.name] # <<>> /\ Len(lines'[f.name]) = size
      /\ size \in Nat
  <2>1. CASE f.unlinked
    <3>1. /\ accepted' \in Seq(Requests) /\ Taken' \in Int /\ Taken <= Taken'
          /\ lines \in [E!Names -> Seq(Lines)] /\ lines' = lines
      BY <1>1, <1>3, <2>1 DEF E!TypeOK, Lines, E!Written
    <3>. QED  BY <1>1, <1>5, <2>1, <3>1, FilesKept
  <2>2. CASE ~f.unlinked
    <3>1. lines' = [lines EXCEPT ![f.name] = E!WithLine(@, r)]
      BY <1>1, <2>2 DEF E!Written
    <3>2. /\ lines' \in [E!Names -> Seq(Lines)]
          /\ lines'[f.name] # <<>> /\ Len(lines'[f.name]) \in 0..MaxSize
          /\ LinesKnown' /\ FilesInTurn' /\ E!FilesBounded' /\ E!LogInOrder'
          /\ \A n \in E!Names : E!ToSet(lines[n]) \cap Requests \subseteq E!ToSet(lines'[n])
      BY <1>1, <1>2, <1>4, <1>5, <2>2, <3>1, WriteKeeps
    <3>3. lines'[f.name] = E!WithLine(lines[f.name], r)
      BY <1>5, <3>1 DEF E!TypeOK
    <3>4. size = Len(lines'[f.name])
      BY <2>2, <3>3
    <3>. QED  BY <2>2, <3>2, <3>4, Constants
  <2>. QED  BY <2>1, <2>2
<1>. HIDE DEF size, r
<1>7. /\ file' \in [name: E!Names, size: 0..MaxSize, failed: BOOLEAN, unlinked: BOOLEAN]
      /\ opened' => file'.name = f.name /\ file'.unlinked = f.unlinked /\ size < MaxSize
  <2>1. CASE size < MaxSize
    <3>1. size \in 0..MaxSize
      BY <1>6, <2>1, Constants
    <3>. QED  BY <1>1, <1>4, <2>1, <3>1
  <2>2. CASE ~(size < MaxSize)
    <3>1. E!NoFile \in [name: E!Names, size: 0..MaxSize, failed: BOOLEAN, unlinked: BOOLEAN]
      BY NamesOK, Constants DEF E!NoFile
    <3>. QED  BY <1>1, <2>2, <3>1
  <2>. QED  BY <2>1, <2>2
<1>8. E!TypeOK'
  <2>1. lost' \subseteq Requests /\ opened' \in BOOLEAN
    BY <1>1, <1>4 DEF E!TypeOK
  <2>. QED  BY <1>1, <1>3, <1>6, <1>7, <2>1 DEF E!TypeOK, Lines
<1>9. OpenHasRoom'
  <2>. SUFFICES ASSUME opened'
       PROVE  /\ file'.unlinked => OldDay(file'.name[1])
              /\ ~file'.unlinked => lines'[file'.name] # <<>> /\ Len(lines'[file'.name]) < MaxSize
    BY <1>1 DEF OpenHasRoom, OldDay
  <2>. QED  BY <1>4, <1>6, <1>7
<1>10. E!NothingLeftBehind'
  <2>1. lost \subseteq lost' /\ (r \in lost' \/ r \in E!ToSet(lines'[f.name]) \/ OldDay(at[r]))
    BY <1>1, <1>4
  <2>. QED  BY <1>1, <1>2, <1>5, <1>6, <2>1, TakenNotLeft DEF r
<1>. QED  BY <1>2, <1>6, <1>8, <1>9, <1>10

LEMMA RemoveOldOK == ASSUME LogInv, E!RemoveOld PROVE LogInv'
<1>. USE DEF LogInv
<1>. DEFINE old == {n \in E!Names : n[1] < now - KeepDays /\ lines[n] # <<>>}
<1>1. /\ lines' = [n \in E!Names |-> IF n \in old THEN <<>> ELSE lines[n]]
      /\ file' = IF opened /\ file.name \in old THEN [file EXCEPT !.unlinked = TRUE] ELSE file
      /\ KeepDays > 0
      /\ UNCHANGED <<now, at, handled, life, queue, dropped, opened, accepted, lost>>
  BY DEF E!RemoveOld
<1>2. lines \in [E!Names -> Seq(Lines)] /\ lines' \in [E!Names -> Seq(Lines)]
  BY <1>1 DEF E!TypeOK, Lines
<1>3. /\ \A n \in E!Names : lines'[n] # <<>> => lines'[n] = lines[n] /\ ~(n[1] < now - KeepDays)
      /\ \A n \in E!Names : ~(n[1] < now - KeepDays) => lines'[n] = lines[n]
      /\ \A n \in E!Names : lines'[n] = lines[n] \/ (OldDay(n[1]) /\ lines'[n] = <<>>)
  BY <1>1 DEF OldDay
<1>4. \A n \in old : OldDay(n[1]) /\ n \in E!Names
  BY <1>1 DEF OldDay
<1>5. \A n \in E!Names : n \notin old => lines'[n] = lines[n]
  BY <1>1
<1>. HIDE DEF old
<1>6. /\ file' \in [name: E!Names, size: 0..MaxSize, failed: BOOLEAN, unlinked: BOOLEAN]
      /\ file'.name = file.name /\ file'.failed = file.failed
      /\ file'.unlinked => file.unlinked \/ file.name \in old
      /\ ~file'.unlinked => ~file.unlinked /\ (opened => file.name \notin old)
  BY <1>1 DEF E!TypeOK
<1>7. E!TypeOK'
  BY <1>1, <1>2, <1>6 DEF E!TypeOK, Lines
<1>8. QueueFollows' /\ Counted' /\ Taken' = Taken
  BY <1>1 DEF QueueFollows, Counted, Taken, Unseen
<1>9. \A n \in E!Names : DOMAIN lines'[n] # {} => lines'[n] = lines[n] /\ ~(n[1] < now - KeepDays)
  <2>1. DOMAIN <<>> = {}
    OBVIOUS
  <2>. QED  BY <1>3, <2>1
<1>10. LinesKnown'
  <2>. SUFFICES ASSUME NEW f \in E!Names, NEW i \in DOMAIN lines'[f], lines'[f][i] \in Requests
       PROVE  /\ at[lines'[f][i]] = f[1]
              /\ \E a \in 1..Taken : accepted[a] = lines'[f][i]
    BY <1>1, <1>8 DEF LinesKnown
  <2>1. lines'[f] = lines[f]
    BY <1>9
  <2>. QED  BY <2>1 DEF LinesKnown
<1>11. FilesInTurn'
  <2>. SUFFICES ASSUME NEW f \in E!Names, lines'[f] # <<>>
       PROVE  f[2] < Taken /\ \A n \in E!Numbers : n < f[2] => Len(lines'[<<f[1], n>>]) >= MaxSize
    BY <1>8 DEF FilesInTurn, FullBefore
  <2>1. lines'[f] = lines[f] /\ ~(f[1] < now - KeepDays)
    BY <1>3
  <2>2. \A n \in E!Numbers : lines'[<<f[1], n>>] = lines[<<f[1], n>>]
    <3>1. \A n \in E!Numbers : <<f[1], n>> \in E!Names /\ <<f[1], n>>[1] = f[1]
      BY NamesOK
    <3>. QED  BY <1>3, <2>1, <3>1
  <2>. QED  BY <2>1, <2>2 DEF FilesInTurn, FullBefore
<1>12. E!FilesBounded'
  <2>1. Len(<<>>) = 0
    OBVIOUS
  <2>. QED  BY <1>3, <2>1, Constants DEF E!FilesBounded
<1>13. E!LogInOrder'
  <2>. SUFFICES ASSUME NEW f \in E!Names, NEW i \in DOMAIN lines'[f],
                       NEW g \in {f[1]} \X E!Numbers, NEW j \in DOMAIN lines'[g],
                       lines'[f][i] \in Requests, lines'[g][j] \in Requests,
                       E!ReadBefore(f, i, g, j)
       PROVE  \E a, b \in DOMAIN accepted :
                a < b /\ accepted[a] = lines'[f][i] /\ accepted[b] = lines'[g][j]
    BY <1>1 DEF E!LogInOrder
  <2>1. g \in E!Names
    BY NamesOK DEF E!Names
  <2>2. lines'[f] = lines[f] /\ lines'[g] = lines[g]
    BY <1>9, <2>1
  <2>. QED  BY <2>2 DEF E!LogInOrder
<1>14. OpenHasRoom'
  <2>. SUFFICES ASSUME opened
       PROVE  /\ file'.unlinked => OldDay(file.name[1])
              /\ ~file'.failed /\ ~file'.unlinked =>
                   lines'[file.name] # <<>> /\ Len(lines'[file.name]) < MaxSize
    BY <1>1, <1>6 DEF OpenHasRoom, OldDay
  <2>1. file'.unlinked => OldDay(file.name[1])
    BY <1>4, <1>6 DEF OpenHasRoom
  <2>2. ASSUME ~file'.failed, ~file'.unlinked
        PROVE  lines'[file.name] # <<>> /\ Len(lines'[file.name]) < MaxSize
    <3>1. file.name \in E!Names /\ file.name \notin old /\ ~file.failed /\ ~file.unlinked
      BY <1>6, <2>2 DEF E!TypeOK
    <3>. QED  BY <1>5, <3>1 DEF OpenHasRoom
  <2>. QED  BY <2>1, <2>2
<1>15. E!NothingLeftBehind'
  <2>. SUFFICES ASSUME NEW r \in E!ToSet(accepted) \ lost,
                       ~(r \in E!ToSet(queue)), ~OldDay(at[r])
       PROVE  \E n \in E!Names : r \in E!ToSet(lines'[n])
    BY <1>1 DEF E!NothingLeftBehind, OldDay
  <2>1. PICK n \in E!Names : r \in E!ToSet(lines[n])
    BY DEF E!NothingLeftBehind, OldDay
  <2>2. r \in Requests
    BY DEF E!TypeOK, E!ToSet
  <2>3. at[r] = n[1]
    BY <2>1, <2>2 DEF LinesKnown, E!ToSet
  <2>. QED  BY <1>3, <2>1, <2>3
<1>. QED  BY <1>7, <1>8, <1>10, <1>11, <1>12, <1>13, <1>14, <1>15

LEMMA StepOK == ASSUME LogInv, E!Next PROVE LogInv'
<1>1. CASE E!Tick
  BY <1>1, TickOK
<1>2. CASE \E r \in Requests : E!Arrive(r) \/ E!Report(r) \/ E!ReportPanics(r)
  BY <1>2, ArriveOK, ReportOK, ReportPanicsOK
<1>3. CASE E!LogWrites
  BY <1>3, LogWritesOK
<1>4. CASE E!LineFails
  BY <1>4, LineFailsOK
<1>5. CASE E!LineRefused \/ E!OpenFails
  BY <1>5, NotWrittenOK
<1>6. CASE E!RemoveOld
  BY <1>6, RemoveOldOK
<1>7. CASE E!Close \/ E!Open
  BY <1>7, LifeOK DEF E!Close, E!Open
<1>8. CASE E!RunEnds \/ E!Kill
  BY <1>8, EndOK
<1>. QED  BY <1>1, <1>2, <1>3, <1>4, <1>5, <1>6, <1>7, <1>8 DEF E!Next

-----------------------------------------------------------------------------
(* The theorems.                                                           *)

LEMMA EventsKept == NodeSpec => [](part = "events" => LogInv)
<1>. DEFINE Inv == part = "events" => LogInv
<1>1. NodeInit => Inv
  BY InitOK, PartsStart
<1>2. Inv /\ [NodeNext]_all => Inv'
  <2>. SUFFICES ASSUME LogInv, part = "events", [NodeNext]_all PROVE LogInv'
    BY PartsSteps
  <2>1. CASE E!Next
    BY <2>1, StepOK
  <2>2. CASE UNCHANGED E!vars
    <3>1. UNCHANGED <<now, at, handled, life, E!log>>
      BY <2>2 DEF E!vars, E!log
    <3>2. life' \in {"up", "closed", "down"}
      BY <3>1 DEF LogInv, E!TypeOK
    <3>. QED  BY <3>1, <3>2, LifeOK
  <2>. QED  BY <2>1, <2>2, PartsSteps
<1>. QED  BY <1>1, <1>2, PTL DEF NodeSpec

(* What is read of a day comes in the order in which the requests ended,   *)
(* however files were filled, left, opened again and removed, and whatever *)
(* failed: for any number of requests, any queue, any size of file.        *)
THEOREM EventsAreInOrder == NodeSpec => []LogInOrder
<1>1. (part = "events" => LogInv) => LogInOrder
  BY DEF LogInv, LogInOrder
<1>. QED  BY <1>1, EventsKept, PTL

(* No file grows past its limit, and what got into the queue is there, or  *)
(* on disk for as long as it is to be kept, unless a kill or a fault of    *)
(* the disk took it.                                                       *)
THEOREM NoEventIsLeftBehind == NodeSpec => []NothingLeftBehind
<1>1. (part = "events" => LogInv) => NothingLeftBehind
  BY DEF LogInv, NothingLeftBehind
<1>. QED  BY <1>1, EventsKept, PTL
=============================================================================
