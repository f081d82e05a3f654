---------------------------- MODULE NodeRecords ----------------------------
(***************************************************************************)
(* What a node keeps of what it was told and of what it saw: a behaviour   *)
(* is one of FactStore (part = "facts"), of EventLog (part = "events") or  *)
(* of Traffic (part = "traffic"), which share no file and no memory. The   *)
(* variables of the others keep the value Nothing.                         *)
(***************************************************************************)
EXTENDS Traffic

CONSTANTS
  MaxVersion, Small, Fetchers, Commands, Node, NoTask, Crashes, Faults, \* of FactStore
  Requests, MaxDay, LogQueue, MaxSize, KeepDays, LogFaults              \* of EventLog

VARIABLES
  part,  \* whose behaviour it is
  published, files, current, set, mu, fetching, pc, want, force,
  at, handled, life, queue, dropped, opened, file, lines, accepted, lost

F == INSTANCE FactStore
E == INSTANCE EventLog WITH Faults <- LogFaults, disk <- lines

NodeRecordsAssumption ==
  /\ F!FactStoreAssumption
  /\ E!EventLogAssumption
  /\ TrafficAssumption

ASSUME NodeRecordsAssumption

-----------------------------------------------------------------------------
Nothing == 0

ofFacts == <<published, files, current, set, mu, fetching, pc, want, force>>
ofEvents == <<at, handled, life, queue, dropped, opened, file, lines, accepted, lost>>
ofTraffic == <<list, counted, serving, log, reloads, decided, overtaken>>
all == <<part, now, ofFacts, ofEvents, ofTraffic>>

NoFacts ==
  /\ published = Nothing /\ files = Nothing /\ current = Nothing /\ set = Nothing
  /\ mu = Nothing /\ fetching = Nothing /\ pc = Nothing /\ want = Nothing
  /\ force = Nothing

NoEvents ==
  /\ at = Nothing /\ handled = Nothing /\ life = Nothing /\ queue = Nothing
  /\ dropped = Nothing /\ opened = Nothing /\ file = Nothing /\ lines = Nothing
  /\ accepted = Nothing /\ lost = Nothing

NoTraffic ==
  /\ list = Nothing /\ counted = Nothing /\ serving = Nothing /\ log = Nothing
  /\ reloads = Nothing /\ decided = Nothing /\ overtaken = Nothing

NodeInit ==
  \/ part = "facts" /\ F!Init /\ now = Nothing /\ NoEvents /\ NoTraffic
  \/ part = "events" /\ E!Init /\ NoFacts /\ NoTraffic
  \/ part = "traffic" /\ Init /\ NoFacts /\ NoEvents

FactsStep == part = "facts" /\ F!Next /\ UNCHANGED <<part, now, ofEvents, ofTraffic>>
EventsStep == part = "events" /\ E!Next /\ UNCHANGED <<part, ofFacts, ofTraffic>>
TrafficStep == part = "traffic" /\ Next /\ UNCHANGED <<part, ofFacts, ofEvents>>

\* The last request of Traffic is over.
Over == part = "traffic" /\ ~Goes /\ UNCHANGED all

NodeNext == FactsStep \/ EventsStep \/ TrafficStep \/ Over

NodeSpec == NodeInit /\ [][NodeNext]_all

(***************************************************************************)
(* Each property is that of its part.                                      *)
(***************************************************************************)
(* FactStore: what current names is there, whatever fails between the two  *)
(* writes; the facts in force never get older; none that lost half of its  *)
(* rows replaces a whole one.                                              *)
CurrentIsOnDisk == part = "facts" => F!CurrentIsOnDisk
FactsNeverGoBack == [][part = "facts" => set'[Node] >= set[Node]]_all
NeverShrinks == [][part = "facts" => ~F!Shrunk(set'[Node], set[Node])]_all

(* EventLog: what is read of a day comes in the order the requests ended.  *)
LogInOrder == part = "events" => E!TypeOK /\ E!LogInOrder

(* EventLog: no file grows past its limit, and what got into the queue is  *)
(* there or on disk for as long as it is to be kept.                       *)
NothingLeftBehind == part = "events" => E!FilesBounded /\ E!NothingLeftBehind

(* Traffic.                                                                *)
ReplayAlwaysAgrees == part = "traffic" => ReplayAgrees
ShadowsForetell == part = "traffic" => ShadowForetells
AllNumbersAgree == part = "traffic" => NumbersAgree
SummariesAreWhole == part = "traffic" => SummaryIsWhole
AggregatesAgree == part = "traffic" => AggregateAgrees
ChainsAreNotForged == part = "traffic" => ChainIsNotForged
NoPageMisses == part = "traffic" => PagesMissNothing

(* Traffic, what docs/en/rules.md:205 claims. The code does not keep it,   *)
(* for the requests it passes before the rules: no run asks for it.        *)
ReplayIsAlwaysTheHotPath == part = "traffic" => ReplayIsTheHotPath
=============================================================================
