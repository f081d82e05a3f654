-------------------------- MODULE AggregatorProofs --------------------------
(***************************************************************************)
(* Theorems about Aggregator, for every value of its constants.            *)
(***************************************************************************)
EXTENDS Aggregator, TLAPS

USE AggregatorAssumption DEF Window, ClosedWindow, Batch, Stamped, Snapshot

-----------------------------------------------------------------------------
(* Facts about the operators the actions are built from.                   *)

(* What Append, Head and Tail do to a sequence over a set.                 *)
LEMMA SeqFacts ==
  ASSUME NEW S, NEW q \in Seq(S)
  PROVE  /\ \A x \in S : Append(q, x) \in Seq(S)
         /\ q # <<>> => Head(q) \in S /\ Tail(q) \in Seq(S)
         /\ <<>> \in Seq(S)
OBVIOUS

(* Counting an event late never leaves the range of windows.               *)
LEMMA WindowForType ==
  ASSUME NEW at \in Window, openFrom \in 0..MaxClock
  PROVE  WindowFor(at) \in Window /\ WindowFor(at) >= openFrom
BY DEF WindowFor, Larger

(* The windows closeWindows finishes are well formed.                      *)
LEMMA ClosedType ==
  ASSUME NEW from \in 0..MaxClock, TypeOK
  PROVE  Closed(from) \subseteq ClosedWindow
BY DEF Closed, TypeOK

(* The rows of a set of windows, batches or saved windows are events.      *)
LEMMA RowsType ==
  /\ \A S \in SUBSET ClosedWindow : RowsOf(S) \subseteq Events
  /\ \A S \in SUBSET Batch : RowsOf(S) \subseteq Events
  /\ \A s \in Snapshot : SnapshotRows(s) \subseteq Events
BY DEF RowsOf, SnapshotRows, OpenRows

(* Saving leaves a well-formed state file, whether or not it succeeds.     *)
LEMMA SaveType ==
  ASSUME TypeOK, NEW s \in Snapshot, SaveState(s)
  PROVE  stateFile' \in Snapshot /\ durable' \subseteq Events /\ settled' \in BOOLEAN
BY RowsType DEF SaveState, TypeOK

LEMMA EmptyTypes ==
  /\ EmptySnapshot \in Snapshot
  /\ NoWindows \in [Window -> SUBSET Events]
BY DEF EmptySnapshot, NoWindows

(* What one tick does to the windows.                                      *)
LEMMA CloseType ==
  ASSUME TypeOK, CloseWindows(Edge)
  PROVE  /\ openFrom' \in 0..MaxClock
         /\ pending' \subseteq ClosedWindow
         /\ windows' \in [Window -> SUBSET Events]
<1>1. Edge \in 0..MaxClock
  BY DEF Edge, TypeOK
<1>2. openFrom' \in 0..MaxClock
  BY <1>1 DEF CloseWindows, Larger, TypeOK
<1>3. pending' \subseteq ClosedWindow
  BY <1>2, ClosedType DEF CloseWindows, TypeOK
<1>4. windows' \in [Window -> SUBSET Events]
  BY <1>2 DEF CloseWindows, TypeOK
<1> QED BY <1>2, <1>3, <1>4

(* A sender that posts or removes has a batch in its hands.                *)
PostInFlight == spc \in {"post", "remove"} => post \in Batch

-----------------------------------------------------------------------------
(* Type correctness.                                                       *)

LEMMA WorldKeepsTypes ==
  ASSUME TypeOK, ClockAdvance \/ InstallFacts \/ HotPath
  PROVE  TypeOK'
<1>1. CASE ClockAdvance
  <2>1. clock' \in Window
    BY <1>1 DEF TypeOK, ClockAdvance
  <2>2. pastGrace' \in BOOLEAN
    BY <1>1, Zenon DEF ClockAdvance
  <2>3. settled' \in BOOLEAN
    BY <1>1, Zenon DEF TypeOK, ClockAdvance
  <2>4. UNCHANGED <<facts, hotVars, queue, run, memVars, stateFile, outbox, wake,
                    sendVars, cloud, discarded, histVars>>
    BY <1>1 DEF ClockAdvance
  <2> QED BY <2>1, <2>2, <2>3, <2>4 DEF TypeOK, hotVars, memVars, sendVars, histVars
<1>2. CASE InstallFacts
  BY <1>2 DEF TypeOK, InstallFacts, time, hotVars, memVars, sendVars, histVars
<1>3. ASSUME NEW e \in Events, Serve(e) PROVE TypeOK'
  BY <1>3 DEF TypeOK, Serve, world, time, memVars, sendVars, histVars
<1>4. ASSUME NEW h \in holding, Write(h) PROVE TypeOK'
  <2>1. h \in Stamped
    BY DEF TypeOK
  <2>2. queue' \in Seq(Stamped)
    <3>1. queue \in Seq(Stamped)
      BY DEF TypeOK
    <3>2. queue' = queue \/ queue' = Append(queue, h)
      BY <1>4, Zenon DEF Write
    <3> HIDE DEF Stamped
    <3> QED BY <2>1, <3>1, <3>2, SeqFacts
  <2>3. dropped' \subseteq Events /\ holding' \subseteq Stamped
    BY <1>4, <2>1 DEF TypeOK, Write
  <2>4. UNCHANGED <<world, unserved, sink, run, memVars, stateFile, outbox, wake,
                    sendVars, cloud, discarded, histVars>>
    BY <1>4 DEF Write
  <2> QED BY <2>2, <2>3, <2>4 DEF TypeOK, world, time, memVars, sendVars, histVars
<1> QED BY <1>1, <1>2, <1>3, <1>4 DEF HotPath

LEMMA RunKeepsTypes ==
  ASSUME TypeOK, RunStep
  PROVE  TypeOK'
<1>1. CASE Add
  <2>1. queue # <<>> /\ queue' = Tail(queue)
    BY <1>1 DEF Add
  <2>2. Head(queue) \in Stamped /\ queue' \in Seq(Stamped)
    <3>1. queue \in Seq(Stamped)
      BY DEF TypeOK
    <3> HIDE DEF Stamped
    <3> QED BY <2>1, <3>1, SeqFacts
  <2>3. /\ windows' \in [Window -> SUBSET Events]
        /\ counted' \subseteq Events
    BY <1>1, <2>2 DEF Add, TypeOK
  <2> QED BY <1>1, <2>2, <2>3, SMTT(40) DEF Add, TypeOK, world, time, hotVars, sendVars
<1>2. CASE Tick
  <2>1. /\ openFrom' \in 0..MaxClock
        /\ pending' \subseteq ClosedWindow
        /\ windows' \in [Window -> SUBSET Events]
    BY <1>2, CloseType DEF Tick
  <2>2. /\ stateFile' \in Snapshot /\ durable' \subseteq Events /\ settled' \in BOOLEAN
        /\ todo' \subseteq ClosedWindow
        /\ phase' \in {"select", "flush", "save"}
    <3>1. CASE UNCHANGED <<stateFile, durable, settled>>
      BY <1>2, <2>1, <3>1 DEF Tick, TypeOK
    <3>2. CASE SaveState([openFrom |-> openFrom', windows |-> windows',
                          pending |-> pending']) /\ phase' = "select" /\ todo' = {}
      BY <2>1, <3>2, SaveType
    <3> QED BY <1>2, <3>1, <3>2 DEF Tick
  <2> QED BY <1>2, <2>1, <2>2 DEF Tick, TypeOK, time, hotVars, sendVars
<1>3. CASE PutBatch
  <2>1. PICK first \in todo, last \in todo :
          LET b == [key |-> BatchKey(first, last),
                    rows |-> RowsOf(UpTo(todo, last.start))]
          IN /\ outbox' \in {outbox, Trim(outbox \cup {b}), outbox \cup {b}}
             /\ durable' \in {durable, durable \cup b.rows}
             /\ discarded' \in {discarded,
                                discarded \cup RowsOf((outbox \cup {b}) \ outbox')}
             /\ todo' \in {todo, todo \ UpTo(todo, last.start)}
             /\ phase' \in {"save", "flush"}
    BY <1>3 DEF PutBatch
  <2> DEFINE b == [key |-> BatchKey(first, last), rows |-> RowsOf(UpTo(todo, last.start))]
  <2>2. b \in Batch
    BY RowsType DEF BatchKey, UpTo, TypeOK
  <2>3. outbox' \subseteq Batch
    BY <2>1, <2>2 DEF Trim, TypeOK
  <2>4. RowsOf((outbox \cup {b}) \ outbox') \subseteq Events
    BY <2>2, RowsType DEF TypeOK
  <2>5. /\ durable' \subseteq Events /\ discarded' \subseteq Events
        /\ todo' \subseteq ClosedWindow
    BY <2>1, <2>2, <2>4 DEF TypeOK
  <2>6. phase' \in {"select", "flush", "save"}
    BY <2>1
  <2>7. UNCHANGED <<world, hotVars, queue, run, windows, openFrom, pending,
                    stateFile, wake, sendVars, cloud, counted>>
    BY <1>3 DEF PutBatch
  <2> QED BY <2>3, <2>5, <2>6, <2>7 DEF TypeOK, world, time, hotVars, sendVars
<1>4. CASE FlushSave
  <2>1. stateFile' \in Snapshot /\ durable' \subseteq Events /\ settled' \in BOOLEAN
    BY <1>4, SaveType DEF FlushSave, Unpacked, TypeOK
  <2> QED BY <1>4, <2>1 DEF FlushSave, Unpacked, Poke, TypeOK, time, hotVars, sendVars
<1>5. CASE FinalSave
  <2>1. stateFile' \in Snapshot /\ durable' \subseteq Events /\ settled' \in BOOLEAN
    BY <1>5, SaveType DEF FinalSave, TypeOK
  <2> QED BY <1>5, <2>1 DEF FinalSave, TypeOK, time, hotVars, memVars, sendVars
<1> QED BY <1>1, <1>2, <1>3, <1>4, <1>5 DEF RunStep

LEMMA LifeKeepsTypes ==
  ASSUME TypeOK, Life
  PROVE  TypeOK'
<1>1. CASE Open
  <2>1. /\ openFrom' \in 0..MaxClock
        /\ windows' \in [Window -> SUBSET Events]
        /\ pending' \subseteq ClosedWindow
        /\ stateFile' \in Snapshot
    BY <1>1, EmptyTypes DEF Open, Load, TypeOK
  <2>2. queue' \in Seq(Stamped)
    BY <1>1 DEF Open
  <2> QED BY <1>1, <2>1, <2>2 DEF Open, Load, TypeOK, time, histVars
<1>2. CASE Stop
  <2>1. sink' \in BOOLEAN /\ pastGrace' \in BOOLEAN /\ settled' \in BOOLEAN
        /\ wake' \in BOOLEAN
    BY <1>2, Zenon DEF Stop, TypeOK, world, time
  <2>2. run' = "stopping" /\ UNCHANGED <<world, unserved, holding, dropped, queue,
          memVars, stateFile, outbox, wake, sendVars, cloud, discarded, histVars>>
    BY <1>2 DEF Stop
  <2> QED BY <2>1, <2>2 DEF TypeOK, world, time, memVars, sendVars, histVars
<1>3. CASE Crash
  <2>1. queue' \in Seq(Stamped)
    BY <1>3 DEF Crash
  <2>2. /\ sink' = FALSE /\ wake' = FALSE
        /\ holding' = {} /\ ids' = {} /\ pending' = {} /\ todo' = {}
        /\ run' = "down" /\ phase' = "select" /\ spc' = "off"
        /\ windows' = NoWindows /\ openFrom' = 0 /\ post' = NoBatch
        /\ UNCHANGED <<world, unserved, dropped, stateFile, outbox, cloud,
                       discarded, histVars>>
    BY <1>3 DEF Crash
  <2>3. /\ windows' \in [Window -> SUBSET Events]
        /\ openFrom' \in 0..MaxClock
        /\ post' \in Batch \cup {NoBatch}
    BY <2>2, EmptyTypes
  <2>4. /\ sink' \in BOOLEAN /\ wake' \in BOOLEAN
        /\ pastGrace' \in BOOLEAN /\ settled' \in BOOLEAN
    BY <2>2, Zenon DEF TypeOK, world, time
  <2> QED BY <2>1, <2>2, <2>3, <2>4 DEF TypeOK, world, time, histVars
<1> QED BY <1>1, <1>2, <1>3 DEF Life

LEMMA SenderKeepsTypes ==
  ASSUME TypeOK, PostInFlight, SenderStep
  PROVE  TypeOK'
<1> USE DEF TypeOK, senderRest, world, time, hotVars, memVars, histVars
<1>1. CASE SenderList
  <2>1. ids' \subseteq Window
    <3>1. Keys(outbox) \subseteq Window
      BY DEF Keys
    <3>2. ids' = Keys(outbox) \/ ids' = ids
      BY <1>1, Zenon DEF SenderList
    <3>3. ids \subseteq Window
      OBVIOUS
    <3> QED BY <3>1, <3>2, <3>3, Zenon
  <2>2. pastGrace' \in BOOLEAN /\ settled' \in BOOLEAN /\ sink' \in BOOLEAN
    BY <1>1, Zenon DEF SenderList
  <2>3. /\ spc' \in {"next", "sleep"}
        /\ UNCHANGED <<senderRest, outbox, wake, post, cloud, discarded>>
    BY <1>1 DEF SenderList
  <2> QED BY <2>1, <2>2, <2>3
<1>2. CASE SenderRead
  <2>1. \A b \in outbox : b.rows \subseteq Events
    OBVIOUS
  <2> QED BY <1>2, <2>1 DEF SenderRead
<1>3. CASE SenderPost
  <2>1. post \in Batch
    BY <1>3 DEF SenderPost, PostInFlight
  <2>2. cloud' = cloud \/ cloud' = Append(cloud, post)
    <3>1. CloudTakes(post) \/ cloud' = cloud
      BY <1>3, Zenon DEF SenderPost
    <3>2. CASE \E i \in DOMAIN cloud : cloud[i].key = post.key
      BY <3>1, <3>2, Zenon DEF CloudTakes
    <3>3. CASE ~ \E i \in DOMAIN cloud : cloud[i].key = post.key
      BY <3>1, <3>3, Zenon DEF CloudTakes
    <3> QED BY <3>2, <3>3
  <2>3. cloud' \in Seq(Batch)
    <3>1. cloud \in Seq(Batch)
      OBVIOUS
    <3> HIDE DEF Batch, TypeOK, senderRest
    <3> QED BY <2>1, <2>2, <3>1, SeqFacts
  <2>4. post' \in Batch \cup {NoBatch} /\ ids' \subseteq Window
    BY <1>3 DEF SenderPost
  <2>5. discarded' \subseteq Events
    BY <1>3, <2>1 DEF SenderPost
  <2>6. spc' \in {"remove", "sleep"} /\ UNCHANGED <<senderRest, outbox, wake>>
    BY <1>3 DEF SenderPost
  <2> QED BY <2>3, <2>4, <2>5, <2>6
<1>4. CASE SenderRemove
  BY <1>4 DEF SenderRemove
<1>5. CASE SenderWait
  <2>1. wake' \in BOOLEAN
    BY <1>5, Zenon DEF SenderWait
  <2>2. pastGrace' \in BOOLEAN /\ settled' \in BOOLEAN /\ sink' \in BOOLEAN
    BY <1>5, Zenon DEF SenderWait
  <2>3. spc' = "list" /\ UNCHANGED <<senderRest, outbox, ids, post, cloud, discarded>>
    BY <1>5 DEF SenderWait
  <2> QED BY <2>1, <2>2, <2>3
<1>6. CASE SenderStop
  BY <1>6 DEF SenderStop
<1> QED BY <1>1, <1>2, <1>3, <1>4, <1>5, <1>6 DEF SenderStep

LEMMA PostStaysInFlight ==
  ASSUME TypeOK, PostInFlight, [Next]_vars
  PROVE  PostInFlight'
<1>1. CASE SenderRead
  BY <1>1 DEF SenderRead, PostInFlight, TypeOK
<1>2. CASE SenderPost
  BY <1>2 DEF SenderPost, PostInFlight, TypeOK
<1>3. CASE spc' \notin {"post", "remove"}
  BY <1>3 DEF PostInFlight
<1>4. CASE UNCHANGED <<spc, post>>
  BY <1>4 DEF PostInFlight
<1>5. QED
  <2>1. CASE ClockAdvance \/ InstallFacts \/ HotPath \/ RunStep \/ Stop
    BY <1>4, <2>1 DEF ClockAdvance, InstallFacts, HotPath, Serve, Write, RunStep,
       Add, Tick, PutBatch, FlushSave, FinalSave, Stop, sendVars
  <2>2. CASE Open \/ Crash \/ SenderList \/ SenderRemove \/ SenderWait \/ SenderStop
    BY <1>3, <2>2 DEF Open, Load, Crash, SenderList, SenderRemove, SenderWait, SenderStop
  <2>3. CASE UNCHANGED vars
    BY <1>4, <2>3 DEF vars, sendVars
  <2> QED BY <1>1, <1>2, <2>1, <2>2, <2>3 DEF Next, Life, SenderStep

(* Every variable keeps its type, whatever crashes and fails.              *)
THEOREM TypeCorrect == Spec => [](TypeOK /\ PostInFlight)
<1>1. Init => TypeOK /\ PostInFlight
  <2> SUFFICES ASSUME Init PROVE TypeOK /\ PostInFlight
    OBVIOUS
  <2>1. queue \in Seq(Stamped) /\ cloud \in Seq(Batch)
    BY DEF Init
  <2>2. windows \in [Window -> SUBSET Events] /\ stateFile \in Snapshot
    BY EmptyTypes DEF Init
  <2>3. /\ pastGrace \in BOOLEAN /\ settled \in BOOLEAN
        /\ sink \in BOOLEAN /\ wake \in BOOLEAN
    BY Zenon DEF Init
  <2>4. clock \in Window /\ openFrom \in 0..MaxClock /\ facts \in Facts
    BY DEF Init
  <2>5. /\ run = "down" /\ phase = "select" /\ spc = "off" /\ post = NoBatch
        /\ unserved = Events /\ holding = {} /\ dropped = {} /\ pending = {}
        /\ todo = {} /\ outbox = {} /\ ids = {} /\ discarded = {}
        /\ counted = {} /\ durable = {}
    BY DEF Init
  <2> QED BY <2>1, <2>2, <2>3, <2>4, <2>5 DEF TypeOK, PostInFlight
<1>2. TypeOK /\ PostInFlight /\ [Next]_vars => (TypeOK /\ PostInFlight)'
  <2> SUFFICES ASSUME TypeOK, PostInFlight, [Next]_vars
               PROVE  TypeOK' /\ PostInFlight'
    OBVIOUS
  <2>1. CASE Next
    BY <2>1, WorldKeepsTypes, RunKeepsTypes, LifeKeepsTypes, SenderKeepsTypes,
       PostStaysInFlight DEF Next
  <2>2. CASE UNCHANGED vars
    BY <2>2 DEF vars, world, time, hotVars, memVars, sendVars, histVars, TypeOK,
       PostInFlight
  <2> QED BY <2>1, <2>2
<1> QED BY <1>1, <1>2, PTL DEF Spec

-----------------------------------------------------------------------------
(* Windows that went out do not change.                                    *)

(* What is still to be packed is pending.                                  *)
TodoIsPending == todo \subseteq pending

(* Closing windows by a tick keeps the open and the closed ones apart: a   *)
(* closed window is below the new openFrom, and one that closes now had    *)
(* not closed before.                                                      *)
LEMMA CloseKeepsApart ==
  ASSUME TypeOK, WindowsApart, CloseWindows(Edge)
  PROVE  Apart(openFrom', windows', pending')
<1>1. openFrom' \in 0..MaxClock /\ openFrom' >= openFrom
  BY DEF CloseWindows, Larger, Edge, TypeOK
<1>2. pending' = pending \cup Closed(openFrom')
  BY DEF CloseWindows
<1>3. \A w \in Window : w < openFrom' => windows'[w] = {}
  BY DEF CloseWindows
<1>4. \A x \in Closed(openFrom') : /\ x.start < openFrom'
                                   /\ x.start \in Window
                                   /\ x.rows = windows[x.start] /\ x.rows # {}
                                   /\ x.facts = facts
  BY DEF Closed
<1>5. \A x \in pending : x.start < openFrom /\ x.start \in Window
  BY DEF WindowsApart, Apart, TypeOK
<1>6. \A x \in Closed(openFrom') : x.start >= openFrom
  <2>1. \A w \in Window : w < openFrom => windows[w] = {}
    BY DEF WindowsApart, Apart
  <2>2. openFrom \in Int
    BY DEF TypeOK
  <2> QED BY <1>4, <2>1, <2>2
<1>7. \A x \in pending' : x.start < openFrom'
  BY <1>1, <1>2, <1>4, <1>5 DEF TypeOK
<1>8. \A x, y \in pending' : x.start = y.start => x = y
  <2>1. \A x, y \in pending : x.start = y.start => x = y
    BY DEF WindowsApart, Apart
  <2>2. \A x \in pending, y \in Closed(openFrom') : x.start # y.start
    BY <1>1, <1>4, <1>5, <1>6 DEF TypeOK
  <2>3. \A x, y \in Closed(openFrom') : x.start = y.start => x = y
    BY DEF Closed
  <2> QED BY <1>2, <2>1, <2>2, <2>3
<1> QED BY <1>3, <1>7, <1>8 DEF Apart

(* A state that is saved, or not, leaves the saved windows apart.          *)
LEMMA SaveKeepsApart ==
  ASSUME WindowsApart, NEW from, NEW ws, NEW closed, Apart(from, ws, closed),
         SaveState([openFrom |-> from, windows |-> ws, pending |-> closed])
  PROVE  Apart(stateFile'.openFrom, stateFile'.windows, stateFile'.pending)
BY DEF SaveState, WindowsApart

LEMMA RunKeepsApart ==
  ASSUME TypeOK, WindowsApart, TodoIsPending, RunStep
  PROVE  WindowsApart' /\ TodoIsPending'
<1>1. CASE Add
  <2>1. queue # <<>> /\ Head(queue).at \in Window
    <3>1. queue # <<>> /\ queue \in Seq(Stamped)
      BY <1>1 DEF Add, TypeOK
    <3>2. Head(queue) \in Stamped
      <4> HIDE DEF Stamped
      <4> QED BY <3>1, SeqFacts
    <3> QED BY <3>1, <3>2
  <2>2. /\ WindowFor(Head(queue).at) \in Window
        /\ WindowFor(Head(queue).at) >= openFrom
    BY <2>1, WindowForType DEF TypeOK
  <2>3. windows' = [windows EXCEPT ![WindowFor(Head(queue).at)] = @ \cup {Head(queue).ev}]
    BY <1>1 DEF Add
  <2>4. \A w \in Window : w < openFrom => windows'[w] = {}
    BY <2>2, <2>3 DEF WindowsApart, Apart, TypeOK
  <2> QED BY <1>1, <2>4 DEF Add, WindowsApart, Apart, TodoIsPending
<1>2. CASE Tick
  <2>1. Apart(openFrom', windows', pending')
    BY <1>2, CloseKeepsApart DEF Tick
  <2>2. todo' \subseteq pending'
    BY <1>2 DEF Tick
  <2>3. CASE UNCHANGED stateFile
    BY <2>1, <2>2, <2>3 DEF WindowsApart, TodoIsPending
  <2>4. CASE SaveState([openFrom |-> openFrom', windows |-> windows',
                        pending |-> pending'])
    BY <2>1, <2>2, <2>4, SaveKeepsApart DEF WindowsApart, TodoIsPending
  <2> QED BY <1>2, <2>3, <2>4 DEF Tick
<1>3. CASE PutBatch
  <2>1. todo' \subseteq todo /\ UNCHANGED <<openFrom, windows, pending, stateFile>>
    BY <1>3 DEF PutBatch
  <2> QED BY <2>1 DEF WindowsApart, TodoIsPending
<1>4. CASE FlushSave
  <2>1. /\ pending' = todo /\ todo' = {}
        /\ UNCHANGED <<openFrom, windows>>
        /\ SaveState([openFrom |-> openFrom, windows |-> windows, pending |-> todo])
    BY <1>4 DEF FlushSave, Unpacked
  <2>2. Apart(openFrom, windows, todo)
    BY DEF WindowsApart, TodoIsPending, Apart
  <2> QED BY <2>1, <2>2, SaveKeepsApart DEF WindowsApart, TodoIsPending
<1>5. CASE FinalSave
  <2>1. Apart(openFrom, windows, pending)
    BY DEF WindowsApart
  <2> QED BY <1>5, <2>1, SaveKeepsApart DEF FinalSave, memVars, WindowsApart, TodoIsPending
<1> QED BY <1>1, <1>2, <1>3, <1>4, <1>5 DEF RunStep

LEMMA EmptyIsApart == Apart(0, NoWindows, {})
BY DEF Apart, NoWindows

LEMMA LifeKeepsApart ==
  ASSUME WindowsApart, TodoIsPending, Life
  PROVE  WindowsApart' /\ TodoIsPending'
<1>1. CASE Open
  <2>1. /\ openFrom' = stateFile'.openFrom /\ windows' = stateFile'.windows
        /\ pending' = stateFile'.pending /\ todo' = {}
        /\ UNCHANGED stateFile \/ stateFile' = EmptySnapshot
    BY <1>1 DEF Open, Load
  <2>2. EmptySnapshot.openFrom = 0 /\ EmptySnapshot.windows = NoWindows
        /\ EmptySnapshot.pending = {}
    BY DEF EmptySnapshot
  <2>3. Apart(stateFile'.openFrom, stateFile'.windows, stateFile'.pending)
    BY <2>1, <2>2, EmptyIsApart DEF WindowsApart
  <2> QED BY <2>1, <2>3 DEF WindowsApart, TodoIsPending
<1>2. CASE Stop
  BY <1>2 DEF Stop, memVars, WindowsApart, TodoIsPending
<1>3. CASE Crash
  BY <1>3, EmptyIsApart DEF Crash, WindowsApart, TodoIsPending
<1> QED BY <1>1, <1>2, <1>3 DEF Life

(* A window that went out never changes, and no two closed windows share   *)
(* the start a batch key is derived from — through every interleaving,     *)
(* crash, restart and failed save.                                         *)
THEOREM WindowsStayApart == Spec => []WindowsApart
<1> DEFINE IInv == WindowsApart /\ TodoIsPending
<1>1. Init => IInv
  BY EmptyIsApart DEF Init, EmptySnapshot, WindowsApart, TodoIsPending
<1>2. TypeOK /\ IInv /\ [Next]_vars => IInv'
  <2> SUFFICES ASSUME TypeOK, WindowsApart, TodoIsPending, [Next]_vars
               PROVE  WindowsApart' /\ TodoIsPending'
    OBVIOUS
  <2>1. CASE RunStep
    BY <2>1, RunKeepsApart
  <2>2. CASE Life
    BY <2>2, LifeKeepsApart
  <2>3. CASE UNCHANGED <<memVars, stateFile>>
    BY <2>3 DEF memVars, WindowsApart, TodoIsPending
  <2>4. ClockAdvance \/ InstallFacts \/ HotPath \/ SenderStep \/ UNCHANGED vars
        => UNCHANGED <<memVars, stateFile>>
    BY DEF ClockAdvance, InstallFacts, HotPath, Serve, Write, SenderStep, SenderList,
       SenderRead, SenderPost, SenderRemove, SenderWait, SenderStop, senderRest, vars
  <2> QED BY <2>1, <2>2, <2>3, <2>4 DEF Next
<1> QED BY <1>1, <1>2, TypeCorrect, PTL DEF Spec

-----------------------------------------------------------------------------
(* An Aggregator that is stopped and started but not killed, and whose     *)
(* batch files may fail to be written or read: what reaches the cloud, for *)
(* every value of the other constants.                                     *)

Steady == ~Crashes /\ Faults \subseteq {"write", "read"}

-----------------------------------------------------------------------------
(* The invariant.                                                          *)

(* The closed windows no batch has been put of.                            *)
Waiting == IF phase = "select" THEN pending ELSE todo

(* The batches there are: in the outbox, in the sender's hands, with the   *)
(* cloud.                                                                  *)
InHand == IF spc \in {"post", "remove"} THEN {post} ELSE {}
Parcels == outbox \cup InHand \cup {cloud[i] : i \in DOMAIN cloud}

(* What Run leaves behind when it returns is in the state file.            *)
Saved ==
  run \in {"down", "stopped"} =>
    /\ phase = "select"
    /\ stateFile = [openFrom |-> openFrom, windows |-> windows, pending |-> pending]

(* A key that was given is behind every window that still waits or is      *)
(* open, so that it is not given again: a batch is what its key says.      *)
KeysOld ==
  \A k \in Keys(Parcels) \cup ids :
    k < openFrom /\ \A x \in Waiting : k < x.start

KeysOnce == \A p, q \in Parcels : p.key = q.key => p = q

(* The sender goes through the outbox from its oldest batch on: whatever   *)
(* is not listed is newer than all that is.                                *)
InOrder ==
  /\ WindowsArriveInOrder
  /\ \A i \in DOMAIN cloud, b \in outbox : cloud[i].key <= b.key
  /\ \A i \in DOMAIN cloud, b \in InHand : cloud[i].key <= b.key
  /\ \A a \in InHand, b \in outbox : a.key <= b.key
  /\ spc \in {"next", "post", "remove"} =>
       \A b \in outbox, k \in ids :
         b.key \in ids \/ k < b.key \/ \E a \in InHand : a.key = b.key

(* An event that was counted is in a window that is open or waits, or in a *)
(* batch the outbox has or gave away.                                      *)
Sent == RowsOf(outbox) \cup Reported \cup discarded
Kept ==
  /\ counted \subseteq OpenRows(windows) \cup RowsOf(Waiting) \cup Sent
  /\ spc = "remove" => post.rows \subseteq Reported \cup discarded

(* An event that was not counted is in one place before the windows.       *)
Uncounted ==
  /\ \A e \in unserved : e \notin counted
  /\ \A h \in holding : h.ev \notin counted \cup unserved
  /\ \A g, h \in holding : g.ev = h.ev => g = h
  /\ \A i \in DOMAIN queue :
       /\ queue[i].ev \notin counted \cup unserved
       /\ \A h \in holding : h.ev # queue[i].ev
       /\ \A j \in DOMAIN queue : queue[i].ev = queue[j].ev => i = j

(* One that was is in one window or one batch.                             *)
EachOnce ==
  /\ OpenRows(windows) \cup RowsOf(Waiting) \cup RowsOf(Parcels) \subseteq counted
  /\ \A v, w \in Window : v # w => windows[v] \cap windows[w] = {}
  /\ \A x \in Waiting \cup Parcels, w \in Window : x.rows \cap windows[w] = {}
  /\ \A x, y \in Waiting : x # y => x.rows \cap y.rows = {}
  /\ \A x \in Waiting, p \in Parcels : x.rows \cap p.rows = {}
  /\ \A p, q \in Parcels : p # q => p.rows \cap q.rows = {}

Ordered == Saved /\ TodoIsPending /\ KeysOld /\ KeysOnce

-----------------------------------------------------------------------------
(* Where the batches are: what each step does to Parcels and Waiting.      *)


LEMMA ParcelsType ==
  ASSUME TypeOK, PostInFlight
  PROVE  /\ Parcels \subseteq Batch /\ InHand \subseteq Batch
         /\ Waiting \subseteq ClosedWindow
         /\ \A i \in DOMAIN cloud : cloud[i] \in Batch
<1>1. \A i \in DOMAIN cloud : cloud[i] \in Batch
  <2>1. cloud \in Seq(Batch)
    BY DEF TypeOK
  <2> HIDE DEF Batch
  <2> QED BY <2>1
<1>2. InHand \subseteq Batch
  BY DEF InHand, PostInFlight
<1> QED BY <1>1, <1>2 DEF Parcels, Waiting, TypeOK

(* What the cloud has after it took a batch, or did not.                   *)
LEMMA TakenOnce ==
  ASSUME cloud \in Seq(Batch), NEW b \in Batch, CloudTakes(b) \/ UNCHANGED cloud
  PROVE  \/ cloud' = cloud
         \/ /\ DOMAIN cloud' = DOMAIN cloud \cup {Len(cloud) + 1}
            /\ \A i \in DOMAIN cloud : cloud'[i] = cloud[i] /\ i <= Len(cloud) /\ i \in Nat
            /\ cloud'[Len(cloud) + 1] = b
            /\ \A i \in DOMAIN cloud : cloud[i].key # b.key
<1>1. CASE cloud' = cloud
  BY <1>1
<1>2. CASE cloud' = Append(cloud, b) /\ ~ \E i \in DOMAIN cloud : cloud[i].key = b.key
  <2> HIDE DEF Batch
  <2> QED BY <1>2
<1> QED BY <1>1, <1>2, Zenon DEF CloudTakes

(* The sender makes no batch: it has those of the outbox.                  *)
LEMMA SenderMovesParcels ==
  ASSUME TypeOK, PostInFlight, SenderStep
  PROVE  /\ Parcels' \subseteq Parcels
         /\ ids' \subseteq ids \cup Keys(outbox)
         /\ UNCHANGED <<run, memVars, stateFile, world, hotVars, queue, counted>>
<1> USE DEF senderRest, memVars, histVars
<1>1. CASE SenderList
  BY <1>1 DEF SenderList, Parcels, InHand
<1>2. CASE SenderRead
  <2>1. /\ outbox' \subseteq outbox /\ cloud' = cloud /\ ids' \subseteq ids
        /\ spc' = "next" \/ (spc' = "post" /\ post' \in outbox)
        /\ UNCHANGED senderRest
    BY <1>2 DEF SenderRead
  <2> QED BY <2>1 DEF Parcels, InHand
<1>3. CASE SenderPost
  <2>1. /\ post \in Batch /\ cloud \in Seq(Batch) /\ spc = "post"
        /\ CloudTakes(post) \/ UNCHANGED cloud
        /\ outbox' = outbox /\ ids' \subseteq ids
        /\ (spc' = "remove" /\ post' = post) \/ spc' = "sleep"
        /\ UNCHANGED senderRest
    BY <1>3 DEF SenderPost, PostInFlight, TypeOK
  <2>2. {cloud'[i] : i \in DOMAIN cloud'} \subseteq {cloud[i] : i \in DOMAIN cloud} \cup {post}
    BY <2>1, TakenOnce
  <2> QED BY <2>1, <2>2 DEF Parcels, InHand
<1>4. CASE SenderRemove
  BY <1>4 DEF SenderRemove, Parcels, InHand
<1>5. CASE SenderWait
  BY <1>5 DEF SenderWait, Parcels, InHand
<1>6. CASE SenderStop
  BY <1>6 DEF SenderStop, Parcels, InHand
<1> QED BY <1>1, <1>2, <1>3, <1>4, <1>5, <1>6 DEF SenderStep

(* What is put behind the windows that wait: its key is the first of them, *)
(* and what goes on waiting is newer.                                      *)
LEMMA PutMovesParcels ==
  ASSUME Steady, TypeOK, PostInFlight, Ordered, WindowsApart, PutBatch
  PROVE  \/ /\ Waiting' = Waiting
            /\ UNCHANGED <<outbox, discarded>>
         \/ \E first, last \in Waiting :
              LET b == [key |-> first.start, rows |-> RowsOf(UpTo(Waiting, last.start))]
              IN /\ first.start <= last.start /\ first.start < openFrom
                 /\ Waiting' = Waiting \ UpTo(Waiting, last.start)
                 /\ b.key \notin Keys(Parcels)
                 /\ outbox' = Trim(outbox \cup {b})
                 /\ discarded' = discarded \cup RowsOf((outbox \cup {b}) \ outbox')
<1>1. PICK first \in todo, last \in todo :
        LET b == [key |-> BatchKey(first, last), rows |-> RowsOf(UpTo(todo, last.start))]
        IN /\ IsNextBatch(todo, first, last)
           /\ \/ b.key \in Keys(outbox)
              \/ /\ todo' = todo \ UpTo(todo, last.start)
                 /\ outbox' = Trim(outbox \cup {b})
                 /\ discarded' = discarded \cup RowsOf((outbox \cup {b}) \ outbox')
              \/ todo' = todo /\ UNCHANGED <<outbox, discarded>>
  BY DEF PutBatch, Steady
<1>2. phase = "flush" /\ phase' \in {"flush", "save"}
  BY DEF PutBatch
<1>3. Waiting = todo /\ Waiting' = todo'
  BY <1>2 DEF Waiting
<1>4. first.start <= last.start
  BY <1>1 DEF IsNextBatch
<1>5. first.start < openFrom
  BY DEF Ordered, TodoIsPending, WindowsApart, Apart
<1>6. first.start \notin Keys(Parcels)
  <2>1. first.start \in Nat
    BY DEF TypeOK
  <2> QED BY <1>3, <2>1 DEF Ordered, KeysOld
<1>7. Keys(outbox) \subseteq Keys(Parcels)
  BY DEF Keys, Parcels
<1> QED BY <1>1, <1>3, <1>4, <1>5, <1>6, <1>7 DEF BatchKey

-----------------------------------------------------------------------------
(* No key is given twice.                                                  *)

LEMMA KeysStay ==
  ASSUME Ordered, Parcels' \subseteq Parcels, ids' \subseteq ids \cup Keys(outbox),
         UNCHANGED <<Waiting, openFrom>>
  PROVE  KeysOld' /\ KeysOnce'
<1>1. Keys(outbox) \subseteq Keys(Parcels) /\ Keys(Parcels)' \subseteq Keys(Parcels)
  BY DEF Keys, Parcels
<1>2. KeysOld'
  BY <1>1 DEF Ordered, KeysOld
<1>3. KeysOnce'
  BY DEF Ordered, KeysOnce
<1> QED BY <1>2, <1>3

LEMMA RunKeepsSaved ==
  ASSUME Steady, TypeOK, Saved, RunStep
  PROVE  Saved'
<1>1. CASE Add \/ Tick
  BY <1>1 DEF Add, Tick, Looping, Saved
<1>2. CASE PutBatch \/ FlushSave
  <2>1. run \notin {"down", "stopped"} /\ run' = run
    BY <1>2 DEF PutBatch, FlushSave, Saved
  <2> QED BY <2>1 DEF Saved
<1>3. CASE FinalSave
  BY <1>3 DEF FinalSave, SaveState, Steady, Saved, memVars
<1> QED BY <1>1, <1>2, <1>3 DEF RunStep

(* What closes now comes after what closed before.                         *)
LEMMA TickKeepsKeys ==
  ASSUME TypeOK, PostInFlight, Ordered, WindowsApart, Tick
  PROVE  /\ KeysOld' /\ KeysOnce'
         /\ Waiting = pending /\ Waiting' = pending \cup Closed(openFrom')
         /\ openFrom' >= openFrom
         /\ Parcels' = Parcels
         /\ \A w \in Window : windows'[w] = IF w < openFrom' THEN {} ELSE windows[w]
<1>1. Waiting = pending /\ Waiting' = pending \cup Closed(openFrom')
  BY DEF Tick, Looping, CloseWindows, Waiting
<1>2. openFrom' >= openFrom /\ openFrom' \in Nat /\ openFrom \in Nat
  BY DEF Tick, CloseWindows, Larger, Edge, TypeOK
<1>3. \A x \in Closed(openFrom') : x.start \in Nat /\ x.start >= openFrom
  BY <1>2 DEF Closed, WindowsApart, Apart
<1>4. Parcels' = Parcels /\ ids' = ids
  BY DEF Tick, Parcels, InHand, sendVars
<1>5. KeysOld'
  <2> SUFFICES ASSUME NEW k \in Keys(Parcels) \cup ids
               PROVE  k < openFrom' /\ \A x \in Waiting' : k < x.start
    BY <1>4 DEF KeysOld, Keys
  <2>1. k < openFrom /\ \A x \in Waiting : k < x.start
    BY DEF Ordered, KeysOld
  <2>2. k \in Int
    <3>1. Parcels \subseteq Batch
      BY ParcelsType
    <3>2. CASE k \in Keys(Parcels)
      BY <3>1, <3>2 DEF Keys
    <3>3. CASE k \in ids
      BY <3>3 DEF TypeOK
    <3> QED BY <3>2, <3>3
  <2> QED BY <1>1, <1>2, <1>3, <2>1, <2>2
<1>6. KeysOnce'
  BY <1>4 DEF Ordered, KeysOnce
<1>7. \A w \in Window : windows'[w] = IF w < openFrom' THEN {} ELSE windows[w]
  BY DEF Tick, CloseWindows
<1> QED BY <1>1, <1>2, <1>4, <1>5, <1>6, <1>7

LEMMA PutKeepsKeys ==
  ASSUME Steady, TypeOK, PostInFlight, Ordered, WindowsApart, PutBatch
  PROVE  KeysOld' /\ KeysOnce'
<1>1. UNCHANGED <<openFrom, InHand, cloud, ids>>
  BY DEF PutBatch, sendVars, InHand
<1>2. CASE Waiting' = Waiting /\ UNCHANGED outbox
  BY <1>1, <1>2, KeysStay DEF Parcels
<1>3. CASE ~ (Waiting' = Waiting /\ UNCHANGED outbox)
  <2>1. PICK first \in Waiting, last \in Waiting :
          LET b == [key |-> first.start, rows |-> RowsOf(UpTo(Waiting, last.start))]
          IN /\ first.start <= last.start /\ first.start < openFrom
             /\ Waiting' = Waiting \ UpTo(Waiting, last.start)
             /\ b.key \notin Keys(Parcels)
             /\ outbox' = Trim(outbox \cup {b})
    BY <1>3, PutMovesParcels
  <2> DEFINE b == [key |-> first.start, rows |-> RowsOf(UpTo(Waiting, last.start))]
  <2>2. Parcels' \subseteq Parcels \cup {b}
    BY <1>1, <2>1 DEF Parcels, Trim
  <2>3. Keys(Parcels)' \subseteq Keys(Parcels) \cup {first.start}
    BY <2>2 DEF Keys
  <2>4. \A x \in Waiting : x.start \in Nat
    BY ParcelsType
  <2>5. \A x \in Waiting' : x \in Waiting /\ first.start < x.start
    BY <2>1, <2>4 DEF UpTo
  <2>6. KeysOld'
    BY <1>1, <2>1, <2>3, <2>5 DEF Ordered, KeysOld
  <2>7. KeysOnce'
    BY <2>1, <2>2 DEF Ordered, KeysOnce, Keys
  <2> QED BY <2>6, <2>7
<1> QED BY <1>2, <1>3

LEMMA RunKeepsOrdered ==
  ASSUME Steady, TypeOK, PostInFlight, Ordered, WindowsApart, RunStep
  PROVE  Ordered'
<1>1. Saved' /\ TodoIsPending'
  BY RunKeepsSaved, RunKeepsApart DEF Ordered
<1>2. CASE Tick
  BY <1>1, <1>2, TickKeepsKeys DEF Ordered
<1>3. CASE PutBatch
  BY <1>1, <1>3, PutKeepsKeys DEF Ordered
<1>4. CASE Add \/ FlushSave \/ FinalSave
  <2>1. UNCHANGED <<Waiting, openFrom, outbox, InHand, cloud, ids>>
    BY <1>4 DEF Add, Looping, FlushSave, Unpacked, FinalSave, memVars, sendVars,
       Waiting, InHand
  <2> QED BY <1>1, <2>1, KeysStay DEF Parcels, Ordered
<1> QED BY <1>2, <1>3, <1>4 DEF RunStep

LEMMA LifeKeepsOrdered ==
  ASSUME Steady, WindowsApart, Ordered, Life
  PROVE  /\ Ordered'
         /\ Parcels' \subseteq Parcels /\ UNCHANGED <<Waiting, windows, outbox, cloud>>
<1>1. CASE Open
  <2>1. /\ UNCHANGED <<stateFile, openFrom, windows, pending>>
        /\ phase = "select" /\ phase' = "select" /\ todo' = {} /\ run' = "running"
        /\ ids' = {} /\ spc' = "list" /\ UNCHANGED <<outbox, cloud>>
    BY <1>1 DEF Open, Load, Steady, Ordered, Saved
  <2>2. Parcels' \subseteq Parcels /\ Waiting' = Waiting
    BY <2>1 DEF Parcels, InHand, Waiting
  <2>3. Saved' /\ TodoIsPending'
    BY <2>1 DEF Saved, TodoIsPending
  <2> QED BY <2>1, <2>2, <2>3, KeysStay DEF Ordered
<1>2. CASE Stop
  <2>1. run' = "stopping" /\ UNCHANGED <<memVars, stateFile, outbox, sendVars, cloud>>
    BY <1>2 DEF Stop
  <2>2. Parcels' = Parcels /\ Waiting' = Waiting
    BY <2>1 DEF Parcels, InHand, Waiting, memVars, sendVars
  <2>3. Saved' /\ TodoIsPending'
    BY <2>1 DEF Saved, TodoIsPending, Ordered, memVars
  <2> QED BY <2>1, <2>2, <2>3, KeysStay DEF Ordered, memVars, sendVars
<1> QED BY <1>1, <1>2 DEF Life, Crash, Steady

LEMMA SenderKeepsOrdered ==
  ASSUME Steady, TypeOK, PostInFlight, Ordered, WindowsApart, SenderStep
  PROVE  Ordered'
<1>1. /\ Parcels' \subseteq Parcels /\ ids' \subseteq ids \cup Keys(outbox)
      /\ UNCHANGED <<run, memVars, stateFile>>
  BY SenderMovesParcels
<1>2. Saved' /\ TodoIsPending' /\ UNCHANGED <<Waiting, openFrom>>
  BY <1>1 DEF Ordered, Saved, TodoIsPending, Waiting, memVars
<1> QED BY <1>1, <1>2, KeysStay DEF Ordered

LEMMA WorldKeepsOrdered ==
  ASSUME Ordered, ClockAdvance \/ InstallFacts \/ HotPath \/ UNCHANGED vars
  PROVE  Ordered' /\ UNCHANGED <<Parcels, InHand, Waiting, windows>>
<1>1. UNCHANGED <<run, memVars, stateFile, outbox, sendVars, cloud>>
  BY DEF ClockAdvance, InstallFacts, HotPath, Serve, Write, vars
<1>2. Saved' /\ TodoIsPending' /\ UNCHANGED <<Parcels, InHand, Waiting, windows>>
  BY <1>1 DEF Ordered, Saved, TodoIsPending, Waiting, Parcels, InHand, memVars, sendVars
<1> QED BY <1>1, <1>2, KeysStay DEF Ordered, memVars, sendVars

LEMMA OrderedStep ==
  ASSUME Steady, TypeOK, PostInFlight, WindowsApart, Ordered, [Next]_vars
  PROVE  Ordered'
BY RunKeepsOrdered, LifeKeepsOrdered, SenderKeepsOrdered, WorldKeepsOrdered DEF Next

-----------------------------------------------------------------------------
(* The cloud receives the windows in order.                                *)

LEMMA SenderKeepsInOrder ==
  ASSUME Steady, TypeOK, PostInFlight, Ordered, InOrder, SenderStep
  PROVE  InOrder'
<1> USE DEF senderRest
<1>1. CASE SenderList
  BY <1>1 DEF SenderList, InOrder, InHand, WindowsArriveInOrder, Keys
<1>2. CASE SenderRead
  <2>1. PICK k \in ids :
          /\ IsOldest(k, ids) /\ ids' = ids \ {k} /\ spc = "next" /\ cloud' = cloud
          /\ \/ k \notin Keys(outbox) /\ UNCHANGED <<spc, post, outbox>>
             \/ \E b \in outbox : b.key = k /\ post' = b /\ spc' = "post" /\ UNCHANGED outbox
             \/ \E b \in outbox : b.key = k /\ outbox' = outbox \ {b} /\ UNCHANGED <<spc, post>>
    BY <1>2 DEF SenderRead
  <2>2. \A b \in outbox : b.key \in Nat
    BY DEF TypeOK
  <2>3. k \in Nat /\ \A j \in ids : j \in Nat /\ k <= j
    BY <2>1 DEF IsOldest, TypeOK
  <2>4. \A b \in outbox : k <= b.key
    BY <2>1, <2>2, <2>3 DEF InOrder, InHand
  <2>5. \A b \in outbox, j \in ids' : b.key \in ids' \/ j < b.key \/ b.key = k
    BY <2>1 DEF InOrder, InHand
  <2>6. CASE k \notin Keys(outbox) /\ UNCHANGED <<spc, post, outbox>>
    BY <2>1, <2>5, <2>6 DEF InOrder, InHand, WindowsArriveInOrder, Keys
  <2>7. ASSUME NEW b \in outbox, b.key = k, post' = b, spc' = "post", UNCHANGED outbox
        PROVE  InOrder'
    <3>1. InHand' = {b}
      BY <2>7 DEF InHand
    <3> QED BY <2>1, <2>4, <2>5, <2>7, <3>1 DEF InOrder, WindowsArriveInOrder
  <2>8. ASSUME NEW b \in outbox, b.key = k, outbox' = outbox \ {b}, UNCHANGED <<spc, post>>
        PROVE  InOrder'
    <3>1. \A c \in outbox' : c \in outbox /\ c.key # k
      BY <2>8 DEF Ordered, KeysOnce, Parcels
    <3> QED BY <2>1, <2>5, <2>8, <3>1 DEF InOrder, InHand, WindowsArriveInOrder
  <2> QED BY <2>1, <2>6, <2>7, <2>8
<1>3. CASE SenderPost
  <2>1. /\ post \in Batch /\ cloud \in Seq(Batch) /\ InHand = {post} /\ spc = "post"
        /\ CloudTakes(post) \/ UNCHANGED cloud
        /\ outbox' = outbox
        /\ \/ spc' = "remove" /\ post' = post /\ ids' = ids /\ InHand' = {post}
           \/ spc' = "sleep" /\ InHand' = {}
    BY <1>3 DEF SenderPost, PostInFlight, TypeOK, InHand
  <2>2. \/ cloud' = cloud
        \/ /\ DOMAIN cloud' = DOMAIN cloud \cup {Len(cloud) + 1}
           /\ \A i \in DOMAIN cloud : cloud'[i] = cloud[i] /\ i <= Len(cloud) /\ i \in Nat
           /\ cloud'[Len(cloud) + 1] = post
           /\ \A i \in DOMAIN cloud : cloud[i].key # post.key
    BY <2>1, TakenOnce
  <2>3. /\ \A i \in DOMAIN cloud : cloud[i].key <= post.key /\ cloud[i].key \in Nat
        /\ post.key \in Nat /\ Len(cloud) \in Nat
        /\ \A b \in outbox : post.key <= b.key /\ b.key \in Nat
    <3>1. \A i \in DOMAIN cloud : cloud[i].key \in Nat
      BY ParcelsType
    <3>2. /\ \A i \in DOMAIN cloud : cloud[i].key <= post.key
          /\ \A b \in outbox : post.key <= b.key
      BY <2>1 DEF InOrder
    <3>3. Len(cloud) \in Nat
      <4> HIDE DEF Batch
      <4> QED BY <2>1
    <3>4. post.key \in Nat /\ \A b \in outbox : b.key \in Nat
      BY <2>1 DEF TypeOK
    <3> QED BY <3>1, <3>2, <3>3, <3>4
  <2>4. /\ \A i, j \in DOMAIN cloud' : i < j => cloud'[i].key < cloud'[j].key
        /\ \A i \in DOMAIN cloud' : cloud'[i].key <= post.key
        /\ \A i \in DOMAIN cloud', b \in outbox' : cloud'[i].key <= b.key
    <3>1. CASE cloud' = cloud
      BY <2>1, <2>3, <3>1 DEF InOrder, WindowsArriveInOrder
    <3>2. CASE cloud' # cloud
      <4>1. /\ DOMAIN cloud' = DOMAIN cloud \cup {Len(cloud) + 1}
            /\ \A i \in DOMAIN cloud : cloud'[i].key = cloud[i].key /\ i <= Len(cloud)
                                      /\ i \in Nat /\ cloud[i].key < post.key
            /\ cloud'[Len(cloud) + 1].key = post.key
        BY <2>2, <2>3, <3>2
      <4>2. \A i, j \in DOMAIN cloud : i < j => cloud[i].key < cloud[j].key
        BY DEF InOrder, WindowsArriveInOrder
      <4>3. \A i, j \in DOMAIN cloud' : i < j => cloud'[i].key < cloud'[j].key
        <5> SUFFICES ASSUME NEW i \in DOMAIN cloud', NEW j \in DOMAIN cloud', i < j
                     PROVE  cloud'[i].key < cloud'[j].key
          OBVIOUS
        <5>1. i \in DOMAIN cloud
          BY <2>3, <4>1
        <5> QED BY <4>1, <4>2, <5>1
      <4>4. \A i \in DOMAIN cloud' : cloud'[i].key <= post.key
        BY <2>3, <4>1
      <4>5. \A i \in DOMAIN cloud', b \in outbox' : cloud'[i].key <= b.key
        <5> SUFFICES ASSUME NEW i \in DOMAIN cloud', NEW b \in outbox'
                     PROVE  cloud'[i].key <= b.key
          OBVIOUS
        <5>1. cloud'[i].key \in Nat /\ cloud'[i].key <= post.key
          <6>1. cloud'[i].key <= post.key
            BY <4>4
          <6>2. i \in DOMAIN cloud \/ i = Len(cloud) + 1
            BY <4>1
          <6> QED BY <2>3, <4>1, <6>1, <6>2
        <5>2. post.key \in Nat /\ b.key \in Nat /\ post.key <= b.key
          BY <2>1, <2>3
        <5> QED BY <5>1, <5>2
      <4> QED BY <4>3, <4>4, <4>5
    <3> QED BY <3>1, <3>2
  <2>5. CASE spc' = "remove" /\ ids' = ids /\ InHand' = {post}
    BY <2>1, <2>3, <2>4, <2>5 DEF InOrder, WindowsArriveInOrder
  <2>6. CASE spc' = "sleep" /\ InHand' = {}
    BY <2>1, <2>4, <2>6 DEF InOrder, WindowsArriveInOrder
  <2> QED BY <2>1, <2>5, <2>6
<1>4. CASE SenderRemove
  <2>1. /\ InHand = {post} /\ InHand' = {} /\ ids' = ids /\ cloud' = cloud
        /\ spc = "remove" /\ outbox' = {b \in outbox : b.key # post.key}
    BY <1>4 DEF SenderRemove, InHand
  <2> QED BY <2>1 DEF InOrder, WindowsArriveInOrder
<1>5. CASE SenderWait \/ SenderStop
  <2>1. spc' \in {"list", "off"} /\ UNCHANGED <<outbox, cloud>> /\ InHand' = {}
    BY <1>5 DEF SenderWait, SenderStop, InHand
  <2> QED BY <2>1 DEF InOrder, WindowsArriveInOrder
<1> QED BY <1>1, <1>2, <1>3, <1>4, <1>5 DEF SenderStep

(* A batch that is put is newer than all there are.                        *)
LEMMA PutKeepsInOrder ==
  ASSUME Steady, TypeOK, PostInFlight, Ordered, WindowsApart, InOrder, PutBatch
  PROVE  InOrder'
<1>1. UNCHANGED <<InHand, cloud, ids, spc>>
  BY DEF PutBatch, sendVars, InHand
<1>2. \/ UNCHANGED outbox
      \/ \E first \in Waiting :
            \A b \in outbox' : b \in outbox \/ b.key = first.start
  <2>1. CASE UNCHANGED outbox
    BY <2>1
  <2>2. CASE ~ UNCHANGED outbox
    <3>1. PICK first \in Waiting, last \in Waiting :
            outbox' = Trim(outbox \cup {[key |-> first.start,
                                         rows |-> RowsOf(UpTo(Waiting, last.start))]})
      BY <2>2, PutMovesParcels
    <3> QED BY <3>1 DEF Trim
  <2> QED BY <2>1, <2>2
<1>3. \A first \in Waiting :
        /\ \A p \in Parcels : p.key <= first.start
        /\ \A k \in ids : k < first.start
  <2> SUFFICES ASSUME NEW first \in Waiting
               PROVE  /\ \A p \in Parcels : p.key <= first.start
                      /\ \A k \in ids : k < first.start
    OBVIOUS
  <2>1. first.start \in Nat /\ \A p \in Parcels : p.key \in Nat
    BY ParcelsType
  <2>2. \A p \in Parcels : p.key \in Keys(Parcels)
    BY DEF Keys
  <2>3. \A k \in Keys(Parcels) \cup ids : k < first.start
    BY DEF Ordered, KeysOld
  <2> QED BY <2>1, <2>2, <2>3
<1>4. outbox \subseteq Parcels /\ InHand \subseteq Parcels
      /\ \A i \in DOMAIN cloud : cloud[i] \in Parcels
  BY DEF Parcels
<1>5. CASE UNCHANGED outbox
  BY <1>1, <1>5 DEF InOrder, WindowsArriveInOrder
<1>6. CASE ~ UNCHANGED outbox
  <2>1. PICK first \in Waiting : \A b \in outbox' : b \in outbox \/ b.key = first.start
    BY <1>2, <1>6
  <2> QED BY <1>1, <1>3, <1>4, <2>1 DEF InOrder, WindowsArriveInOrder
<1> QED BY <1>5, <1>6

(* docs/en/protocol/aggregate.md:249: the cloud receives the windows in    *)
(* order, whatever the sender is answered, which batches are trimmed under *)
(* it and how often the aggregator is stopped and started.                 *)
THEOREM SteadyWindowsArriveInOrder ==
  ASSUME Steady
  PROVE  Spec => []WindowsArriveInOrder
<1>1. Init => Ordered /\ InOrder
  BY DEF Init, EmptySnapshot, Ordered, Saved, TodoIsPending, KeysOld, KeysOnce, Keys,
     Waiting, Parcels, InHand, InOrder, WindowsArriveInOrder
<1>2. TypeOK /\ PostInFlight /\ WindowsApart /\ Ordered /\ InOrder /\ [Next]_vars
        => Ordered' /\ InOrder'
  <2> SUFFICES ASSUME TypeOK, PostInFlight, WindowsApart, Ordered, InOrder, [Next]_vars
               PROVE  Ordered' /\ InOrder'
    OBVIOUS
  <2>1. Ordered'
    BY OrderedStep
  <2>2. CASE SenderStep
    BY <2>1, <2>2, SenderKeepsInOrder
  <2>3. CASE PutBatch
    BY <2>1, <2>3, PutKeepsInOrder
  <2>4. CASE Open
    <3>1. spc' = "list" /\ InHand' = {} /\ UNCHANGED <<outbox, cloud>>
      BY <2>4 DEF Open, InHand
    <3> QED BY <2>1, <3>1 DEF InOrder, WindowsArriveInOrder
  <2>5. CASE \/ Add \/ Tick \/ FlushSave \/ FinalSave \/ Stop
             \/ ClockAdvance \/ InstallFacts \/ HotPath \/ UNCHANGED vars
    <3>1. UNCHANGED <<outbox, sendVars, cloud>>
      BY <2>5 DEF Add, Tick, FlushSave, FinalSave, Stop, ClockAdvance, InstallFacts,
         HotPath, Serve, Write, vars
    <3> QED BY <2>1, <3>1 DEF InOrder, InHand, WindowsArriveInOrder, sendVars
  <2> QED BY <2>1, <2>2, <2>3, <2>4, <2>5 DEF Next, RunStep, Life, Crash, Steady
<1>3. InOrder => WindowsArriveInOrder
  BY DEF InOrder
<1> QED BY <1>1, <1>2, <1>3, TypeCorrect, WindowsStayApart, PTL DEF Spec

-----------------------------------------------------------------------------
(* Nothing vanishes.                                                       *)

(* What the cloud has after a batch was posted.                            *)
LEMMA ReportedGrows ==
  ASSUME cloud \in Seq(Batch), NEW b \in Batch, CloudTakes(b) \/ UNCHANGED cloud
  PROVE  Reported \subseteq Reported'
<1>1. CASE cloud' = cloud
  BY <1>1 DEF Reported
<1>2. CASE cloud' # cloud
  <2>1. \A i \in DOMAIN cloud : i \in DOMAIN cloud' /\ cloud'[i] = cloud[i]
    BY <1>2, TakenOnce
  <2> QED BY <2>1 DEF Reported
<1> QED BY <1>1, <1>2

LEMMA TakenIsReported ==
  ASSUME cloud \in Seq(Batch), NEW b \in Batch, CloudTakes(b),
         \A i \in DOMAIN cloud : cloud[i].key = b.key => cloud[i] = b
  PROVE  b.rows \subseteq Reported'
<1>1. CASE \E i \in DOMAIN cloud : cloud[i].key = b.key
  <2>1. cloud' = cloud /\ \E i \in DOMAIN cloud : cloud[i] = b
    BY <1>1, Zenon DEF CloudTakes
  <2> QED BY <2>1 DEF Reported
<1>2. CASE ~ \E i \in DOMAIN cloud : cloud[i].key = b.key
  <2>1. cloud' = Append(cloud, b)
    BY <1>2, Zenon DEF CloudTakes
  <2>2. Len(cloud) + 1 \in DOMAIN cloud' /\ cloud'[Len(cloud) + 1] = b
    <3> HIDE DEF Batch
    <3> QED BY <2>1
  <2> QED BY <2>2 DEF Reported
<1> QED BY <1>1, <1>2

(* What the sender drops from the outbox it has given away.                *)
LEMMA SenderKeepsKept ==
  ASSUME TypeOK, PostInFlight, Ordered, Kept, SenderStep
  PROVE  Kept'
<1>1. UNCHANGED <<windows, Waiting, counted>>
  BY SenderMovesParcels DEF memVars, Waiting
<1>2. /\ Sent \subseteq Sent'
      /\ (spc = "remove" => post.rows \subseteq Reported \cup discarded)'
  <2>1. CASE SenderList \/ SenderWait \/ SenderStop
    BY <2>1 DEF SenderList, SenderWait, SenderStop, Sent, Reported
  <2>2. CASE SenderRead
    <3>1. /\ cloud' = cloud /\ spc' # "remove"
          /\ \/ UNCHANGED <<outbox, discarded>>
             \/ \E b \in outbox : outbox' = outbox \ {b} /\ discarded' = discarded \cup b.rows
      BY <2>2 DEF SenderRead
    <3> QED BY <3>1 DEF Sent, Reported, RowsOf
  <2>3. CASE SenderPost
    <3>1. /\ post \in Batch /\ cloud \in Seq(Batch) /\ InHand = {post}
          /\ CloudTakes(post) \/ UNCHANGED cloud
          /\ outbox' = outbox /\ discarded \subseteq discarded'
          /\ spc' = "remove" => /\ post' = post
                                /\ CloudTakes(post) \/ post.rows \subseteq discarded'
      BY <2>3 DEF SenderPost, PostInFlight, TypeOK, InHand
    <3>2. Reported \subseteq Reported'
      BY <3>1, ReportedGrows
    <3>3. \A i \in DOMAIN cloud : cloud[i].key = post.key => cloud[i] = post
      BY <3>1 DEF Ordered, KeysOnce, Parcels
    <3>4. CloudTakes(post) => post.rows \subseteq Reported'
      BY <3>1, <3>3, TakenIsReported
    <3> QED BY <3>1, <3>2, <3>4 DEF Sent
  <2>4. CASE SenderRemove
    <3>1. /\ cloud' = cloud /\ discarded' = discarded /\ spc' = "next" /\ spc = "remove"
          /\ InHand = {post} /\ outbox' = {b \in outbox : b.key # post.key}
      BY <2>4 DEF SenderRemove, InHand
    <3>2. \A b \in outbox : b \in outbox' \/ b = post
      BY <3>1 DEF Ordered, KeysOnce, Parcels
    <3>3. post.rows \subseteq Reported \cup discarded
      BY <3>1 DEF Kept
    <3> QED BY <3>1, <3>2, <3>3 DEF Sent, Reported, RowsOf
  <2> QED BY <2>1, <2>2, <2>3, <2>4 DEF SenderStep
<1> QED BY <1>1, <1>2 DEF Kept

(* A window that is closed waits; one that is packed is in the outbox, or  *)
(* was trimmed from it.                                                    *)
LEMMA RunKeepsKept ==
  ASSUME Steady, TypeOK, PostInFlight, Ordered, WindowsApart, Kept, RunStep
  PROVE  Kept'
<1>1. UNCHANGED <<spc, post, cloud>> /\ discarded \subseteq discarded'
  BY DEF RunStep, Add, Tick, PutBatch, FlushSave, FinalSave, sendVars
<1>2. (spc = "remove" => post.rows \subseteq Reported \cup discarded)'
  BY <1>1 DEF Kept, Reported
<1>3. CASE Add
  <2>1. Head(queue).at \in Window
    <3>1. queue # <<>> /\ queue \in Seq(Stamped)
      BY <1>3 DEF Add, TypeOK
    <3>2. Head(queue) \in Stamped
      <4> HIDE DEF Stamped
      <4> QED BY <3>1, SeqFacts
    <3> QED BY <3>2
  <2>2. WindowFor(Head(queue).at) \in Window
    BY <2>1, WindowForType DEF TypeOK
  <2>3. /\ windows' = [windows EXCEPT ![WindowFor(Head(queue).at)] = @ \cup {Head(queue).ev}]
        /\ counted' = counted \cup {Head(queue).ev}
        /\ UNCHANGED <<Waiting, Sent>>
    BY <1>3 DEF Add, Waiting, Sent, Reported
  <2>4. OpenRows(windows) \cup {Head(queue).ev} \subseteq OpenRows(windows)'
    BY <2>2, <2>3 DEF OpenRows, TypeOK
  <2> QED BY <1>2, <2>3, <2>4 DEF Kept
<1>4. CASE Tick
  <2>1. /\ Waiting = pending /\ Waiting' = pending \cup Closed(openFrom')
        /\ \A w \in Window : windows'[w] = IF w < openFrom' THEN {} ELSE windows[w]
    BY <1>4, TickKeepsKeys
  <2>2. OpenRows(windows) \subseteq OpenRows(windows)' \cup RowsOf(Closed(openFrom'))
    <3> SUFFICES ASSUME NEW w \in Window, NEW e \in windows[w]
                 PROVE  e \in OpenRows(windows)' \/ e \in RowsOf(Closed(openFrom'))
      BY DEF OpenRows
    <3>1. CASE w < openFrom'
      <4> DEFINE x == [start |-> w, facts |-> facts, rows |-> windows[w]]
      <4>1. x \in Closed(openFrom') /\ e \in x.rows
        BY <3>1 DEF Closed
      <4> QED BY <4>1 DEF RowsOf
    <3>2. CASE ~(w < openFrom')
      BY <2>1, <3>2 DEF OpenRows
    <3> QED BY <3>1, <3>2
  <2>3. UNCHANGED <<counted, Sent>>
    BY <1>4 DEF Tick, Sent, Reported
  <2> QED BY <1>2, <2>1, <2>2, <2>3 DEF Kept, RowsOf
<1>5. CASE PutBatch
  <2>1. UNCHANGED <<counted, windows, cloud>>
    BY <1>5 DEF PutBatch
  <2>2. CASE Waiting' = Waiting /\ UNCHANGED <<outbox, discarded>>
    BY <1>2, <2>1, <2>2 DEF Kept, Sent, Reported
  <2>3. CASE ~(Waiting' = Waiting /\ UNCHANGED <<outbox, discarded>>)
    <3>1. PICK first \in Waiting, last \in Waiting :
            LET b == [key |-> first.start, rows |-> RowsOf(UpTo(Waiting, last.start))]
            IN /\ Waiting' = Waiting \ UpTo(Waiting, last.start)
               /\ discarded' = discarded \cup RowsOf((outbox \cup {b}) \ outbox')
      BY <1>5, <2>3, PutMovesParcels
    <3> DEFINE b == [key |-> first.start, rows |-> RowsOf(UpTo(Waiting, last.start))]
    <3>2. RowsOf(outbox \cup {b}) \subseteq RowsOf(outbox') \cup discarded'
      BY <3>1 DEF RowsOf
    <3>3. RowsOf(Waiting) \subseteq RowsOf(Waiting') \cup b.rows
      BY <3>1 DEF RowsOf
    <3>4. RowsOf(outbox) \cup b.rows \subseteq RowsOf(outbox \cup {b})
      BY DEF RowsOf
    <3> QED BY <1>1, <1>2, <2>1, <3>2, <3>3, <3>4 DEF Kept, Sent, Reported
  <2> QED BY <2>2, <2>3
<1>6. CASE FlushSave \/ FinalSave
  <2>1. UNCHANGED <<counted, windows, Waiting, Sent>>
    BY <1>6 DEF FlushSave, Unpacked, FinalSave, memVars, Waiting, Sent, Reported
  <2> QED BY <1>2, <2>1 DEF Kept
<1> QED BY <1>3, <1>4, <1>5, <1>6 DEF RunStep

LEMMA KeptShows ==
  ASSUME Ordered, Kept
  PROVE  NothingVanishes
BY DEF Kept, Ordered, TodoIsPending, Waiting, Sent, RowsOf, NothingVanishes, InMemory,
   OnDisk

(* Once counted, an event is on the node, with the cloud, or in a batch    *)
(* that a documented rule discarded, over every stop, start, trim and      *)
(* refusal: no batch is taken for another of the same key.                 *)
THEOREM SteadyNothingVanishes ==
  ASSUME Steady
  PROVE  Spec => []NothingVanishes
<1>1. Init => Ordered /\ Kept
  BY DEF Init, EmptySnapshot, Ordered, Saved, TodoIsPending, KeysOld, KeysOnce, Keys,
     Waiting, Parcels, InHand, Kept
<1>2. TypeOK /\ PostInFlight /\ WindowsApart /\ Ordered /\ Kept /\ [Next]_vars
        => Ordered' /\ Kept'
  <2> SUFFICES ASSUME TypeOK, PostInFlight, WindowsApart, Ordered, Kept, [Next]_vars
               PROVE  Ordered' /\ Kept'
    OBVIOUS
  <2>1. Ordered'
    BY OrderedStep
  <2>2. CASE SenderStep
    BY <2>1, <2>2, SenderKeepsKept
  <2>3. CASE RunStep
    BY <2>1, <2>3, RunKeepsKept
  <2>4. CASE Life
    <3>1. UNCHANGED <<Waiting, windows, outbox, cloud>>
      BY <2>4, LifeKeepsOrdered
    <3>2. UNCHANGED <<counted, discarded>> /\ (spc' # "remove" \/ UNCHANGED <<spc, post>>)
      BY <2>4 DEF Life, Open, Stop, Crash, Steady, histVars, sendVars
    <3> QED BY <2>1, <3>1, <3>2 DEF Kept, Sent, Reported
  <2>5. CASE ClockAdvance \/ InstallFacts \/ HotPath \/ UNCHANGED vars
    <3>1. UNCHANGED <<Waiting, windows>>
      BY <2>5, WorldKeepsOrdered
    <3>2. UNCHANGED <<outbox, sendVars, cloud, discarded, counted>>
      BY <2>5 DEF ClockAdvance, InstallFacts, HotPath, Serve, Write, vars, histVars
    <3> QED BY <2>1, <3>1, <3>2 DEF Kept, Sent, Reported, sendVars
  <2> QED BY <2>2, <2>3, <2>4, <2>5 DEF Next
<1>3. Ordered /\ Kept => NothingVanishes
  BY KeptShows
<1> QED BY <1>1, <1>2, <1>3, TypeCorrect, WindowsStayApart, PTL DEF Spec

-----------------------------------------------------------------------------
(* Nothing is counted twice.                                               *)

Places == Uncounted /\ EachOnce

LEMMA QueueType ==
  ASSUME TypeOK
  PROVE  /\ \A i \in DOMAIN queue : queue[i] \in Stamped
         /\ queue # <<>> => /\ Head(queue) = queue[1] /\ 1 \in DOMAIN queue
                           /\ Head(queue) \in Stamped
                           /\ \A i \in DOMAIN Tail(queue) :
                                i + 1 \in DOMAIN queue /\ Tail(queue)[i] = queue[i + 1]
                                /\ i \in Nat /\ i > 0
<1>1. queue \in Seq(Stamped)
  BY DEF TypeOK
<1> HIDE DEF Stamped
<1> QED BY <1>1

(* An event comes to one place, and goes from it to the next.              *)
LEMMA HotPathKeepsUncounted ==
  ASSUME TypeOK, Uncounted, HotPath
  PROVE  Uncounted'
<1>1. ASSUME NEW e \in Events, Serve(e) PROVE Uncounted'
  <2>1. /\ e \in unserved /\ unserved' = unserved \ {e}
        /\ UNCHANGED <<queue, counted>>
        /\ holding' = holding \/ holding' = holding \cup {[ev |-> e, at |-> clock]}
    BY <1>1 DEF Serve, histVars
  <2> QED BY <2>1 DEF Uncounted
<1>2. ASSUME NEW h \in holding, Write(h) PROVE Uncounted'
  <2>1. /\ holding' = holding \ {h} /\ UNCHANGED <<unserved, counted>>
        /\ queue' = queue \/ queue' = Append(queue, h)
    BY <1>2 DEF Write, histVars
  <2>2. CASE queue' = queue
    BY <2>1, <2>2 DEF Uncounted
  <2>3. CASE queue' = Append(queue, h)
    <3>1. /\ DOMAIN queue' = DOMAIN queue \cup {Len(queue) + 1}
          /\ \A i \in DOMAIN queue : queue'[i] = queue[i]
          /\ queue'[Len(queue) + 1] = h
      <4>1. queue \in Seq(Stamped)
        BY DEF TypeOK
      <4> HIDE DEF Stamped
      <4> QED BY <2>3, <4>1
    <3>2. /\ h.ev \notin counted \cup unserved
          /\ \A g \in holding' : g.ev # h.ev
          /\ \A i \in DOMAIN queue : queue[i].ev # h.ev
      BY <2>1 DEF Uncounted
    <3> QED BY <2>1, <3>1, <3>2 DEF Uncounted
  <2> QED BY <2>1, <2>2, <2>3
<1> QED BY <1>1, <1>2 DEF HotPath

LEMMA AddKeepsPlaces ==
  ASSUME TypeOK, PostInFlight, Places, Add
  PROVE  Places'
<1> DEFINE e == Head(queue).ev
           w == WindowFor(Head(queue).at)
<1>1. /\ queue # <<>> /\ queue' = Tail(queue) /\ UNCHANGED <<unserved, holding>>
      /\ windows' = [windows EXCEPT ![w] = @ \cup {e}]
      /\ counted' = counted \cup {e}
      /\ UNCHANGED <<Waiting, Parcels>>
  BY DEF Add, hotVars, sendVars, Waiting, Parcels, InHand
<1>2. e = queue[1].ev /\ 1 \in DOMAIN queue /\ Head(queue) \in Stamped
  BY <1>1, QueueType
<1>3. w \in Window
  BY <1>2, WindowForType DEF TypeOK
<1>4. e \notin counted /\ e \notin unserved /\ \A h \in holding : h.ev # e
  BY <1>2 DEF Places, Uncounted
<1>5. Uncounted'
  <2>1. \A i \in DOMAIN queue' : i + 1 \in DOMAIN queue /\ queue'[i] = queue[i + 1]
                                /\ i \in Nat /\ i > 0
    BY <1>1, QueueType
  <2>2. \A i \in DOMAIN queue' : queue'[i].ev # e
    BY <1>2, <2>1 DEF Places, Uncounted
  <2>3. \A i, j \in DOMAIN queue' : queue'[i].ev = queue'[j].ev => i = j
    BY <2>1 DEF Places, Uncounted
  <2> QED BY <1>1, <1>4, <2>1, <2>2, <2>3 DEF Places, Uncounted
<1>6. EachOnce'
  <2>1. \A v \in Window : windows'[v] \subseteq windows[v] \cup (IF v = w THEN {e} ELSE {})
    BY <1>1, <1>3 DEF TypeOK
  <2>2. \A v \in Window : e \notin windows[v]
    BY <1>4 DEF Places, EachOnce, OpenRows
  <2>3. \A x \in Waiting \cup Parcels : e \notin x.rows
    BY <1>4 DEF Places, EachOnce, RowsOf
  <2>4. \A u, v \in Window : u # v => windows'[u] \cap windows'[v] = {}
    BY <2>1, <2>2 DEF Places, EachOnce
  <2>5. \A x \in Waiting \cup Parcels, v \in Window : x.rows \cap windows'[v] = {}
    BY <2>1, <2>3 DEF Places, EachOnce
  <2>6. OpenRows(windows') \subseteq OpenRows(windows) \cup {e}
    BY <2>1 DEF OpenRows
  <2> QED BY <1>1, <2>4, <2>5, <2>6 DEF Places, EachOnce
<1> QED BY <1>5, <1>6 DEF Places

LEMMA TickKeepsOnce ==
  ASSUME TypeOK, PostInFlight, Ordered, WindowsApart, EachOnce, Tick
  PROVE  EachOnce'
<1>1. /\ Waiting = pending /\ Waiting' = pending \cup Closed(openFrom')
      /\ Parcels' = Parcels
      /\ \A w \in Window : windows'[w] = IF w < openFrom' THEN {} ELSE windows[w]
  BY TickKeepsKeys
<1>2. counted' = counted
  BY DEF Tick
<1>3. \A x \in Closed(openFrom') :
        /\ x.start \in Window /\ x.start < openFrom' /\ x.rows = windows[x.start]
        /\ x = [start |-> x.start, facts |-> facts, rows |-> windows[x.start]]
  BY DEF Closed
<1>4. \A x, y \in Closed(openFrom') : x # y => x.rows \cap y.rows = {}
  <2> SUFFICES ASSUME NEW x \in Closed(openFrom'), NEW y \in Closed(openFrom'), x # y
               PROVE  x.rows \cap y.rows = {}
    OBVIOUS
  <2>1. x.start # y.start
    BY <1>3
  <2> QED BY <1>3, <2>1 DEF EachOnce
<1>5. \A x \in Closed(openFrom') : \A y \in Waiting \cup Parcels : x.rows \cap y.rows = {}
  BY <1>3 DEF EachOnce
<1>6. \A x \in Closed(openFrom'), w \in Window : x.rows \cap windows'[w] = {}
  <2> SUFFICES ASSUME NEW x \in Closed(openFrom'), NEW w \in Window
               PROVE  x.rows \cap windows'[w] = {}
    OBVIOUS
  <2>1. CASE w < openFrom'
    BY <1>1, <2>1
  <2>2. CASE ~(w < openFrom')
    BY <1>1, <1>3, <2>2 DEF EachOnce
  <2> QED BY <2>1, <2>2
<1>7. \A w \in Window : windows'[w] \subseteq windows[w]
  BY <1>1
<1>8. OpenRows(windows') \subseteq OpenRows(windows)
      /\ RowsOf(Closed(openFrom')) \subseteq OpenRows(windows)
  BY <1>3, <1>7 DEF OpenRows, RowsOf
<1>9. RowsOf(Waiting)' \subseteq RowsOf(Waiting) \cup OpenRows(windows)
  BY <1>1, <1>8 DEF RowsOf
<1>10. OpenRows(windows') \cup RowsOf(Waiting)' \cup RowsOf(Parcels)' \subseteq counted'
  BY <1>1, <1>2, <1>8, <1>9 DEF EachOnce, RowsOf
<1>11. \A x \in Waiting' \cup Parcels', w \in Window : x.rows \cap windows'[w] = {}
  BY <1>1, <1>6, <1>7 DEF EachOnce
<1> QED BY <1>1, <1>4, <1>5, <1>7, <1>10, <1>11 DEF EachOnce

LEMMA PutKeepsOnce ==
  ASSUME Steady, TypeOK, PostInFlight, Ordered, WindowsApart, EachOnce, PutBatch
  PROVE  EachOnce'
<1>1. UNCHANGED <<windows, counted, InHand, cloud>>
  BY DEF PutBatch, sendVars, InHand
<1>2. CASE Waiting' = Waiting /\ UNCHANGED outbox
  <2>1. Parcels' = Parcels
    BY <1>1, <1>2 DEF Parcels
  <2> QED BY <1>1, <1>2, <2>1 DEF EachOnce
<1>3. CASE ~(Waiting' = Waiting /\ UNCHANGED outbox)
  <2>1. PICK first \in Waiting, last \in Waiting :
          /\ Waiting' = Waiting \ UpTo(Waiting, last.start)
          /\ outbox' = Trim(outbox \cup {[key |-> first.start,
                                         rows |-> RowsOf(UpTo(Waiting, last.start))]})
    BY <1>3, PutMovesParcels
  <2> DEFINE b == [key |-> first.start, rows |-> RowsOf(UpTo(Waiting, last.start))]
  <2>2. Parcels' \subseteq Parcels \cup {b}
    BY <1>1, <2>1 DEF Parcels, Trim
  <2>3. \A e \in b.rows : \E x \in Waiting : x \notin Waiting' /\ e \in x.rows
    BY <2>1 DEF RowsOf, UpTo
  <2>4. Waiting' \subseteq Waiting
    BY <2>1
  <2>5. \A w \in Window : b.rows \cap windows[w] = {}
    BY <2>3 DEF EachOnce
  <2>6. \A x \in Waiting' : x.rows \cap b.rows = {}
    BY <2>3, <2>4 DEF EachOnce
  <2>7. \A p \in Parcels : p.rows \cap b.rows = {}
    BY <2>3 DEF EachOnce
  <2>8. b.rows \subseteq counted
    BY <2>3 DEF EachOnce, RowsOf
  <2>9. RowsOf(Waiting)' \subseteq RowsOf(Waiting)
        /\ RowsOf(Parcels)' \subseteq RowsOf(Parcels) \cup b.rows
    BY <2>2, <2>4 DEF RowsOf
  <2> HIDE DEF b
  <2> QED BY <1>1, <2>2, <2>4, <2>5, <2>6, <2>7, <2>8, <2>9 DEF EachOnce
<1> QED BY <1>2, <1>3

(* Batches that go, go nowhere else.                                       *)
LEMMA OnceStays ==
  ASSUME EachOnce, Parcels' \subseteq Parcels, UNCHANGED <<Waiting, windows, counted>>
  PROVE  EachOnce'
<1>1. RowsOf(Parcels)' \subseteq RowsOf(Parcels)
  BY DEF RowsOf
<1> QED BY <1>1 DEF EachOnce

LEMMA PlacesStep ==
  ASSUME Steady, TypeOK, PostInFlight, WindowsApart, Ordered, Places, [Next]_vars
  PROVE  Places'
<1>1. CASE HotPath
  <2>1. Uncounted' /\ UNCHANGED <<Parcels, Waiting, windows>>
    BY <1>1, HotPathKeepsUncounted, WorldKeepsOrdered DEF Places
  <2>2. counted' = counted
    BY <1>1 DEF HotPath, Serve, Write, histVars
  <2> QED BY <2>1, <2>2, OnceStays DEF Places
<1>2. CASE ClockAdvance \/ InstallFacts \/ UNCHANGED vars
  <2>1. UNCHANGED <<Parcels, Waiting, windows>>
    BY <1>2, WorldKeepsOrdered
  <2>2. UNCHANGED <<unserved, holding, queue, counted>>
    BY <1>2 DEF ClockAdvance, InstallFacts, vars, hotVars, histVars
  <2> QED BY <2>1, <2>2, OnceStays DEF Places, Uncounted
<1>3. CASE SenderStep
  <2>1. /\ Parcels' \subseteq Parcels /\ UNCHANGED <<Waiting, windows>>
        /\ UNCHANGED <<unserved, holding, queue, counted>>
    BY <1>3, SenderMovesParcels DEF memVars, hotVars, Waiting
  <2> QED BY <2>1, OnceStays DEF Places, Uncounted
<1>4. CASE Life
  <2>1. Parcels' \subseteq Parcels /\ UNCHANGED <<Waiting, windows>>
    BY <1>4, LifeKeepsOrdered
  <2>2. /\ UNCHANGED <<unserved, counted>>
        /\ UNCHANGED <<holding, queue>> \/ (holding' = {} /\ queue' = <<>>)
    BY <1>4 DEF Life, Open, Stop, Crash, Steady, histVars
  <2> QED BY <2>1, <2>2, OnceStays DEF Places, Uncounted
<1>5. CASE Add
  BY <1>5, AddKeepsPlaces
<1>6. CASE Tick
  <2>1. UNCHANGED <<unserved, holding, queue, counted>>
    BY <1>6 DEF Tick, hotVars
  <2> QED BY <1>6, <2>1, TickKeepsOnce DEF Places, Uncounted
<1>7. CASE PutBatch
  <2>1. UNCHANGED <<unserved, holding, queue, counted>>
    BY <1>7 DEF PutBatch, hotVars
  <2> QED BY <1>7, <2>1, PutKeepsOnce DEF Places, Uncounted
<1>8. CASE FlushSave \/ FinalSave
  <2>1. /\ UNCHANGED <<unserved, holding, queue, counted>>
        /\ UNCHANGED <<windows, Waiting, Parcels>>
    BY <1>8 DEF FlushSave, Unpacked, FinalSave, hotVars, memVars, sendVars, Waiting,
       Parcels, InHand
  <2> QED BY <2>1, OnceStays DEF Places, Uncounted
<1> QED BY <1>1, <1>2, <1>3, <1>4, <1>5, <1>6, <1>7, <1>8 DEF Next, RunStep

(* aggregator.go:371: "nothing is counted twice". No event is in two       *)
(* batches the cloud took, though it is posted the same batch again and    *)
(* again.                                                                  *)
THEOREM SteadyNothingCountedTwice ==
  ASSUME Steady
  PROVE  Spec => []NothingCountedTwice
<1>1. Init => Ordered /\ Places
  BY DEF Init, EmptySnapshot, NoWindows, Ordered, Saved, TodoIsPending, KeysOld, KeysOnce,
     Keys, Waiting, Parcels, InHand, Places, Uncounted, EachOnce, OpenRows, RowsOf
<1>2. TypeOK /\ PostInFlight /\ WindowsApart /\ Ordered /\ Places /\ [Next]_vars
        => Ordered' /\ Places'
  BY OrderedStep, PlacesStep
<1>3. WindowsArriveInOrder /\ TypeOK /\ PostInFlight /\ Places => NothingCountedTwice
  <2> SUFFICES ASSUME WindowsArriveInOrder, TypeOK, PostInFlight, EachOnce,
                      NEW i \in DOMAIN cloud, NEW j \in DOMAIN cloud, i # j
               PROVE  cloud[i].rows \cap cloud[j].rows = {}
    BY DEF Places, NothingCountedTwice
  <2>1. i \in Nat /\ j \in Nat /\ cloud[i].key \in Nat /\ cloud[j].key \in Nat
    <3>1. cloud \in Seq(Batch)
      BY DEF TypeOK
    <3>2. i \in Nat /\ j \in Nat
      <4> HIDE DEF Batch
      <4> QED BY <3>1
    <3> QED BY <3>2, ParcelsType
  <2>2. cloud[i].key # cloud[j].key
    BY <2>1 DEF WindowsArriveInOrder
  <2>3. cloud[i] \in Parcels /\ cloud[j] \in Parcels
    BY DEF Parcels
  <2> QED BY <2>2, <2>3 DEF EachOnce
<1> QED BY <1>1, <1>2, <1>3, TypeCorrect, WindowsStayApart, SteadyWindowsArriveInOrder,
         PTL DEF Spec
-----------------------------------------------------------------------------
(* Every aggregator, killed at any moment and with any fault of its disk:  *)
(* it implements EventFate.                                                *)

(* Where the events are that the node has taken past the hot path, and     *)
(* where all are that it has.                                              *)
Behind ==
  {queue[i].ev : i \in DOMAIN queue} \cup OpenRows(windows) \cup RowsOf(pending)
  \cup RowsOf(todo) \cup post.rows \cup OnDisk
Held == InMemory \cup OnDisk

(* An event that has not happened is nowhere; one in the hot path is there *)
(* alone, once; one that was dropped there is nowhere else.                *)
OnePlace ==
  /\ unserved \cap (Held \cup Reported \cup dropped) = {}
  /\ dropped \cap (Held \cup Reported) = {}
  /\ \A h \in holding : h.ev \notin Behind \cup Reported
  /\ \A g, h \in holding : g.ev = h.ev => g = h

LEMMA HeldIsBoth == Held = {h.ev : h \in holding} \cup Behind
BY DEF Held, Behind, InMemory

(* A step that moves no event into the node's hands and reports none may   *)
(* only lose some.                                                         *)
LEMMA LosingIsALoss ==
  ASSUME TypeOK, OnePlace, OnePlace', Held \subseteq Events,
         Held' \subseteq Held, UNCHANGED <<unserved, Reported>>,
         dropped \subseteq dropped', dropped' \subseteq dropped \cup Held
  PROVE  \E S \in SUBSET Events : EventFate!Lose(S)
<1> DEFINE S == {e \in Events : Fate[e] = "held" /\ Fate'[e] = "lost"}
<1>1. \A e \in S : Fate[e] \in {"held"}
  OBVIOUS
<1>2. \A e \in Events : Fate'[e] = IF e \in S THEN "lost" ELSE Fate[e]
  BY DEF Fate, OnePlace, Held
<1>3. Fate' = [e \in Events |-> IF e \in S THEN "lost" ELSE Fate[e]]
  <2> HIDE DEF S
  <2>1. Fate' = [e \in Events |-> Fate'[e]]
    BY DEF Fate
  <2> QED BY <1>2, <2>1, Zenon
<1>4. EventFate!Lose(S)
  <2> HIDE DEF S
  <2> QED BY <1>1, <1>3 DEF EventFate!Lose, EventFate!Move
<1> QED BY <1>4

(* A step that loses nothing it does not report may only report.           *)
LEMMA TakingIsAReport ==
  ASSUME TypeOK, OnePlace, OnePlace', Held \subseteq Events,
         Held' \subseteq Held, Held \subseteq Held' \cup Reported',
         Reported \subseteq Reported', Reported' \subseteq Reported \cup Held,
         UNCHANGED <<unserved, dropped>>
  PROVE  \E S \in SUBSET Events : EventFate!Report(S)
<1> DEFINE S == {e \in Events : Fate[e] = "held" /\ Fate'[e] = "reported"}
<1>1. \A e \in S : Fate[e] \in {"held"}
  OBVIOUS
<1>2. \A e \in Events : Fate'[e] = IF e \in S THEN "reported" ELSE Fate[e]
  BY DEF Fate, OnePlace, Held
<1>3. Fate' = [e \in Events |-> IF e \in S THEN "reported" ELSE Fate[e]]
  <2> HIDE DEF S
  <2>1. Fate' = [e \in Events |-> Fate'[e]]
    BY DEF Fate
  <2> QED BY <1>2, <2>1, Zenon
<1>4. EventFate!Report(S)
  <2> HIDE DEF S
  <2> QED BY <1>1, <1>3 DEF EventFate!Report, EventFate!Move
<1> QED BY <1>4

(* A request that is served is held, or nobody's.                          *)
LEMMA ServingIsServed ==
  ASSUME TypeOK, OnePlace, NEW e \in Events, Serve(e)
  PROVE  OnePlace' /\ EventFate!Serve(e)
<1>1. /\ e \in unserved /\ unserved' = unserved \ {e}
      /\ UNCHANGED <<Behind, Reported, dropped>>
      /\ \/ holding' = holding
         \/ holding' = holding \cup {[ev |-> e, at |-> clock]}
  BY DEF Serve, Behind, OnDisk, Reported, memVars, sendVars
<1>2. Held' = {h.ev : h \in holding'} \cup Behind
  BY <1>1, HeldIsBoth DEF Held, Behind, InMemory
<1>3. Held' = Held \/ Held' = Held \cup {e}
  BY <1>1, <1>2, HeldIsBoth
<1>4. e \notin Held \cup Reported \cup dropped
  BY <1>1 DEF OnePlace
<1>5. OnePlace'
  BY <1>1, <1>3, <1>4, HeldIsBoth DEF OnePlace
<1>6. Fate[e] = "unserved"
  BY <1>1, <1>4 DEF Fate, Held
<1>7. \A x \in Events : x # e => Fate'[x] = Fate[x]
  BY <1>1, <1>3 DEF Fate, Held
<1>8. Fate'[e] \in {"held", "lost"}
  BY <1>1, <1>4 DEF Fate, Held
<1>9. Fate' = [x \in Events |-> IF x \in {e} THEN Fate'[e] ELSE Fate[x]]
  <2>1. Fate' = [x \in Events |-> Fate'[x]]
    BY DEF Fate
  <2> QED BY <1>7, <2>1
<1> QED BY <1>5, <1>6, <1>8, <1>9 DEF EventFate!Serve, EventFate!Move
(* What the hot path puts into the queue, or drops, it had.                *)
LEMMA WritingIsFate ==
  ASSUME TypeOK, OnePlace, NEW h \in holding, Write(h)
  PROVE  /\ OnePlace' /\ Held' \subseteq Held
         /\ UNCHANGED <<unserved, Reported>>
         /\ dropped \subseteq dropped' /\ dropped' \subseteq dropped \cup Held
<1>1. /\ holding' = holding \ {h}
      /\ \/ queue' = Append(queue, h) /\ dropped' = dropped
         \/ queue' = queue /\ dropped' = dropped \cup {h.ev}
      /\ UNCHANGED <<unserved, OpenRows(windows), RowsOf(pending), RowsOf(todo), post,
                     OnDisk, Reported>>
  BY DEF Write, memVars, sendVars, OnDisk, Reported
<1>2. {queue'[i].ev : i \in DOMAIN queue'} \subseteq {queue[i].ev : i \in DOMAIN queue} \cup {h.ev}
  <2>1. queue \in Seq(Stamped) /\ h \in Stamped
    BY DEF TypeOK
  <2>2. \A i \in DOMAIN queue' : queue'[i] = h \/ (i \in DOMAIN queue /\ queue'[i] = queue[i])
    <3> HIDE DEF Stamped
    <3> QED BY <1>1, <2>1
  <2> QED BY <2>2
<1>3. h.ev \notin Behind \cup Reported \cup dropped \cup unserved /\ h.ev \in Held
  BY HeldIsBoth DEF OnePlace
<1>4. /\ Behind' \subseteq Behind \cup {h.ev}
      /\ dropped' # dropped => Behind' = Behind
  BY <1>1, <1>2 DEF Behind
<1>5. Held' = {g.ev : g \in holding'} \cup Behind'
  BY DEF Held, Behind, InMemory
<1>6. Held' \subseteq Held
  BY <1>1, <1>3, <1>4, <1>5, HeldIsBoth
<1>7. \A g \in holding' : g.ev # h.ev
  BY <1>1 DEF OnePlace
<1>8. dropped' # dropped => h.ev \notin Held'
  BY <1>3, <1>4, <1>5, <1>7
<1>9. dropped' \cap (Held \cup Reported)' = {}
  BY <1>1, <1>3, <1>6, <1>8 DEF OnePlace
<1>10. OnePlace'
  BY <1>1, <1>3, <1>4, <1>6, <1>7, <1>9 DEF OnePlace
<1> QED BY <1>1, <1>3, <1>6, <1>10

(* Counting, closing, packing and saving move events the node has.         *)
LEMMA SavedRowsAreHeld ==
  ASSUME NEW s, SaveState(s)
  PROVE  SnapshotRows(stateFile') \subseteq SnapshotRows(stateFile) \cup SnapshotRows(s)
BY DEF SaveState

LEMMA RunMovesRows ==
  ASSUME TypeOK, RunStep
  PROVE  Behind' \subseteq Behind /\ UNCHANGED <<hotVars, cloud>>
<1>1. CASE Add
  <2> DEFINE e == Head(queue).ev
             w == WindowFor(Head(queue).at)
  <2>1. /\ queue # <<>> /\ queue' = Tail(queue)
        /\ windows' = [windows EXCEPT ![w] = @ \cup {e}]
        /\ UNCHANGED <<hotVars, cloud, RowsOf(pending), RowsOf(todo), post, OnDisk>>
    BY <1>1 DEF Add, hotVars, sendVars, OnDisk
  <2>2. e = queue[1].ev /\ 1 \in DOMAIN queue
    BY <2>1, QueueType
  <2>3. {queue'[i].ev : i \in DOMAIN queue'} \subseteq {queue[i].ev : i \in DOMAIN queue}
    BY <2>1, QueueType
  <2>4. OpenRows(windows') \subseteq OpenRows(windows) \cup {e}
    BY <2>1 DEF OpenRows, TypeOK
  <2>5. e \in {queue[i].ev : i \in DOMAIN queue}
    BY <2>2
  <2>6. Behind' = {queue'[i].ev : i \in DOMAIN queue'} \cup OpenRows(windows') \cup RowsOf(pending)
                    \cup RowsOf(todo) \cup post.rows \cup OnDisk
    BY <2>1 DEF Behind
  <2> HIDE DEF e
  <2>7. Behind' \subseteq Behind
    BY <2>3, <2>4, <2>5, <2>6 DEF Behind
  <2> QED BY <2>1, <2>7
<1>2. CASE Tick
  <2>1. /\ pending' = pending \cup Closed(openFrom') /\ todo' \subseteq pending'
        /\ \A w \in Window : windows'[w] \subseteq windows[w]
        /\ UNCHANGED <<queue, post, outbox, hotVars, cloud>>
    BY <1>2 DEF Tick, CloseWindows, sendVars
  <2>2. OpenRows(windows') \subseteq OpenRows(windows)
    BY <2>1 DEF OpenRows
  <2>3. RowsOf(Closed(openFrom')) \subseteq OpenRows(windows)
    BY DEF RowsOf, OpenRows, Closed
  <2>4. RowsOf(pending') \subseteq RowsOf(pending) \cup OpenRows(windows)
    BY <2>1, <2>3 DEF RowsOf
  <2>5. RowsOf(todo') \subseteq RowsOf(pending')
    BY <2>1 DEF RowsOf
  <2>6. \/ stateFile' = stateFile
        \/ SaveState([openFrom |-> openFrom', windows |-> windows', pending |-> pending'])
    BY <1>2 DEF Tick
  <2>7. SnapshotRows(stateFile') \subseteq
          SnapshotRows(stateFile) \cup OpenRows(windows') \cup RowsOf(pending')
    BY <2>6, SavedRowsAreHeld DEF SnapshotRows
  <2>8. Behind' = {queue[i].ev : i \in DOMAIN queue} \cup OpenRows(windows') \cup RowsOf(pending')
                    \cup RowsOf(todo') \cup post.rows \cup SnapshotRows(stateFile')
                    \cup RowsOf(outbox)
    BY <2>1 DEF Behind, OnDisk
  <2>9. UNCHANGED <<hotVars, cloud>>
    BY <2>1
  <2> QED BY <2>2, <2>4, <2>5, <2>7, <2>8, <2>9 DEF Behind, OnDisk
<1>3. CASE PutBatch
  <2>1. PICK first \in todo, last \in todo :
          LET b == [key |-> BatchKey(first, last), rows |-> RowsOf(UpTo(todo, last.start))]
          IN /\ todo' \subseteq todo
             /\ outbox' \subseteq outbox \cup {b}
    BY <1>3 DEF PutBatch, Trim
  <2>2. RowsOf(UpTo(todo, last.start)) \subseteq RowsOf(todo)
    BY DEF RowsOf, UpTo
  <2>3. RowsOf(outbox') \subseteq RowsOf(outbox) \cup RowsOf(todo)
    BY <2>1, <2>2 DEF RowsOf
  <2>4. RowsOf(todo') \subseteq RowsOf(todo)
    BY <2>1 DEF RowsOf
  <2>5. UNCHANGED <<hotVars, cloud, queue, windows, pending, post, stateFile>>
    BY <1>3 DEF PutBatch, sendVars
  <2> QED BY <2>3, <2>4, <2>5 DEF Behind, OnDisk
<1>4. CASE FlushSave
  <2>1. /\ pending' = todo /\ todo' = {}
        /\ SaveState([openFrom |-> openFrom, windows |-> windows, pending |-> todo])
        /\ UNCHANGED <<hotVars, cloud, queue, windows, post, outbox>>
    BY <1>4 DEF FlushSave, Unpacked, sendVars
  <2>2. SnapshotRows(stateFile') \subseteq
          SnapshotRows(stateFile) \cup OpenRows(windows) \cup RowsOf(todo)
    BY <2>1, SavedRowsAreHeld DEF SnapshotRows
  <2>3. RowsOf({}) = {}
    BY DEF RowsOf
  <2> QED BY <2>1, <2>2, <2>3 DEF Behind, OnDisk
<1>5. CASE FinalSave
  <2>1. /\ SaveState([openFrom |-> openFrom, windows |-> windows, pending |-> pending])
        /\ UNCHANGED <<hotVars, cloud, queue, memVars, post, outbox>>
    BY <1>5 DEF FinalSave, sendVars
  <2>2. SnapshotRows(stateFile') \subseteq
          SnapshotRows(stateFile) \cup OpenRows(windows) \cup RowsOf(pending)
    BY <2>1, SavedRowsAreHeld DEF SnapshotRows
  <2> QED BY <2>1, <2>2 DEF Behind, OnDisk, memVars
<1> QED BY <1>1, <1>2, <1>3, <1>4, <1>5 DEF RunStep

(* A process that starts has what is on its disk; one that is killed keeps *)
(* that.                                                                   *)
LEMMA LifeMovesRows ==
  ASSUME TypeOK, Life
  PROVE  /\ Behind' \subseteq Behind /\ holding' \subseteq holding
         /\ UNCHANGED <<unserved, dropped, cloud>>
<1>1. RowsOf({}) = {} /\ OpenRows(NoWindows) = {} /\ NoBatch.rows = {}
  BY DEF RowsOf, OpenRows, NoWindows, NoBatch
<1>2. SnapshotRows(EmptySnapshot) = {}
  BY <1>1 DEF SnapshotRows, EmptySnapshot
<1>3. CASE Open
  <2>1. /\ stateFile' = stateFile \/ stateFile' = EmptySnapshot
        /\ windows' = stateFile'.windows /\ pending' = stateFile'.pending
        /\ holding' = {} /\ queue' = <<>> /\ todo' = {} /\ post' = NoBatch
        /\ UNCHANGED <<unserved, dropped, cloud, outbox>>
    BY <1>3 DEF Open, Load
  <2>2. SnapshotRows(stateFile') \subseteq SnapshotRows(stateFile)
    BY <1>2, <2>1
  <2>3. OpenRows(windows') \cup RowsOf(pending') = SnapshotRows(stateFile')
    BY <2>1 DEF SnapshotRows
  <2>4. {queue'[i].ev : i \in DOMAIN queue'} = {}
    BY <2>1
  <2> QED BY <1>1, <2>1, <2>2, <2>3, <2>4 DEF Behind, OnDisk
<1>4. CASE Stop
  BY <1>4 DEF Stop, memVars, sendVars, Behind, OnDisk
<1>5. CASE Crash
  <2>1. /\ windows' = NoWindows /\ pending' = {} /\ holding' = {} /\ queue' = <<>>
        /\ todo' = {} /\ post' = NoBatch
        /\ UNCHANGED <<unserved, dropped, cloud, outbox, stateFile>>
    BY <1>5 DEF Crash
  <2>2. {queue'[i].ev : i \in DOMAIN queue'} = {}
    BY <2>1
  <2> QED BY <1>1, <2>1, <2>2 DEF Behind, OnDisk
<1> QED BY <1>3, <1>4, <1>5 DEF Life

(* The sender has a batch of the outbox; what the cloud takes of it is     *)
(* reported, and what the node lets go meanwhile is, too.                  *)
LEMMA SenderMovesRows ==
  ASSUME TypeOK, PostInFlight, SenderStep
  PROVE  /\ Behind' \subseteq Behind /\ UNCHANGED hotVars
         /\ \/ Reported' = Reported
            \/ /\ Reported \subseteq Reported' /\ Reported' \subseteq Reported \cup Behind
               /\ Behind \subseteq Behind' \cup Reported'
<1> USE DEF senderRest, memVars, sendVars
<1>1. CASE SenderPost
  <2>1. /\ post \in Batch /\ cloud \in Seq(Batch)
        /\ CloudTakes(post) \/ UNCHANGED cloud
        /\ post' \in {post, NoBatch}
        /\ UNCHANGED <<hotVars, queue, windows, pending, todo, stateFile, outbox>>
    BY <1>1 DEF SenderPost, PostInFlight, TypeOK
  <2>2. NoBatch.rows = {}
    BY DEF NoBatch
  <2>3. post'.rows \subseteq post.rows
    BY <2>1, <2>2
  <2>4. UNCHANGED <<OnDisk, OpenRows(windows), RowsOf(pending), RowsOf(todo),
                    {queue[i].ev : i \in DOMAIN queue}>>
    BY <2>1 DEF OnDisk
  <2>5. Behind' \subseteq Behind /\ Behind \subseteq Behind' \cup post.rows
        /\ post.rows \subseteq Behind
    BY <2>3, <2>4 DEF Behind
  <2>6. \/ Reported' = Reported
        \/ Reported' = Reported \cup post.rows
    <3>1. CASE cloud' = cloud
      BY <3>1 DEF Reported
    <3>2. CASE /\ DOMAIN cloud' = DOMAIN cloud \cup {Len(cloud) + 1}
               /\ \A i \in DOMAIN cloud : cloud'[i] = cloud[i]
               /\ cloud'[Len(cloud) + 1] = post
      BY <3>2 DEF Reported
    <3> QED BY <2>1, <3>1, <3>2, TakenOnce
  <2> QED BY <2>1, <2>5, <2>6
<1>2. ASSUME SenderList \/ SenderRead \/ SenderRemove \/ SenderWait \/ SenderStop
      PROVE  /\ Behind' \subseteq Behind /\ UNCHANGED hotVars /\ Reported' = Reported
  <2>1. UNCHANGED <<hotVars, queue, windows, pending, todo, stateFile, cloud>>
    BY <1>2 DEF SenderList, SenderRead, SenderRemove, SenderWait, SenderStop
  <2>2. outbox' \subseteq outbox /\ (post' = post \/ post' = NoBatch \/ post' \in outbox)
    BY <1>2 DEF SenderList, SenderRead, SenderRemove, SenderWait, SenderStop
  <2>3. RowsOf(outbox') \subseteq RowsOf(outbox)
        /\ post'.rows \subseteq post.rows \cup RowsOf(outbox)
    BY <2>2 DEF RowsOf, NoBatch
  <2>4. UNCHANGED <<SnapshotRows(stateFile), OpenRows(windows), RowsOf(pending), RowsOf(todo),
                    {queue[i].ev : i \in DOMAIN queue}>>
    BY <2>1
  <2> QED BY <2>1, <2>3, <2>4 DEF Behind, OnDisk, Reported
<1> QED BY <1>1, <1>2 DEF SenderStep

(* Away from the hot path, an event goes from where it is, or stays.       *)
LEMMA MovingKeepsOnePlace ==
  ASSUME OnePlace, Behind' \subseteq Behind, holding' \subseteq holding,
         Reported' \subseteq Reported \cup Behind, UNCHANGED <<unserved, dropped>>
  PROVE  OnePlace' /\ Held' \subseteq Held
<1>1. Held' = {h.ev : h \in holding'} \cup Behind'
  BY DEF Held, Behind, InMemory
<1>2. Held' \subseteq Held
  BY <1>1, HeldIsBoth
<1> QED BY <1>2, HeldIsBoth DEF OnePlace

LEMMA HeldType ==
  ASSUME TypeOK
  PROVE  Held \subseteq Events
<1>1. {h.ev : h \in holding} \subseteq Events
  BY DEF TypeOK
<1>2. {queue[i].ev : i \in DOMAIN queue} \subseteq Events
  BY QueueType
<1>3. OpenRows(windows) \subseteq Events
  BY DEF TypeOK, OpenRows
<1>4. RowsOf(pending) \subseteq Events /\ RowsOf(todo) \subseteq Events
      /\ RowsOf(outbox) \subseteq Events
  <2>1. pending \in SUBSET ClosedWindow /\ todo \in SUBSET ClosedWindow
        /\ outbox \in SUBSET Batch
    BY DEF TypeOK
  <2> HIDE DEF ClosedWindow, Batch
  <2> QED BY <2>1, RowsType
<1>5. SnapshotRows(stateFile) \subseteq Events
  <2>1. stateFile \in Snapshot
    BY DEF TypeOK
  <2> HIDE DEF Snapshot
  <2> QED BY <2>1, RowsType
<1>6. post.rows \subseteq Events
  BY DEF TypeOK, NoBatch
<1> QED BY <1>1, <1>2, <1>3, <1>4, <1>5, <1>6 DEF Held, InMemory, OnDisk

LEMMA FateStep ==
  ASSUME TypeOK, PostInFlight, OnePlace, [Next]_vars
  PROVE  OnePlace' /\ [EventFate!Next]_Fate
<1>1. ASSUME NEW e \in Events, Serve(e) PROVE OnePlace' /\ EventFate!Next
  BY <1>1, ServingIsServed DEF EventFate!Next
<1>2. ASSUME NEW h \in holding, Write(h) PROVE OnePlace' /\ EventFate!Next
  BY <1>2, WritingIsFate, LosingIsALoss, HeldType DEF EventFate!Next
<1>3. CASE RunStep \/ Life \/ SenderStep
  <2>1. /\ Behind' \subseteq Behind /\ holding' \subseteq holding
        /\ UNCHANGED <<unserved, dropped>>
        /\ \/ Reported' = Reported
           \/ /\ Reported \subseteq Reported' /\ Reported' \subseteq Reported \cup Behind
              /\ Behind \subseteq Behind' \cup Reported' /\ holding' = holding
    BY <1>3, RunMovesRows, LifeMovesRows, SenderMovesRows DEF hotVars, Reported
  <2>2. OnePlace' /\ Held' \subseteq Held
    BY <2>1, MovingKeepsOnePlace
  <2>3. CASE Reported' = Reported
    BY <2>1, <2>2, <2>3, LosingIsALoss, HeldType DEF EventFate!Next
  <2>4. CASE /\ Reported \subseteq Reported' /\ Reported' \subseteq Reported \cup Behind
             /\ Behind \subseteq Behind' \cup Reported' /\ holding' = holding
    <3>1. Held' = {h.ev : h \in holding'} \cup Behind'
      BY DEF Held, Behind, InMemory
    <3>2. Held \subseteq Held' \cup Reported' /\ Reported' \subseteq Reported \cup Held
      BY <2>4, <3>1, HeldIsBoth
    <3> QED BY <2>1, <2>2, <2>4, <3>2, TakingIsAReport, HeldType DEF EventFate!Next
  <2> QED BY <2>1, <2>2, <2>3, <2>4
<1>4. CASE ClockAdvance \/ InstallFacts \/ UNCHANGED vars
  <2>1. UNCHANGED <<hotVars, queue, memVars, stateFile, outbox, sendVars, cloud>>
    BY <1>4 DEF ClockAdvance, InstallFacts, vars
  <2> QED BY <2>1 DEF OnePlace, Fate, Held, Behind, InMemory, OnDisk, Reported,
             hotVars, memVars, sendVars
<1> QED BY <1>1, <1>2, <1>3, <1>4 DEF Next, HotPath

(* Whatever crashes and fails, and in whichever order: a request that was  *)
(* served is held until it is reported or lost, and neither end is ever    *)
(* left: the aggregate pipeline implements EventFate.                      *)
THEOREM AggregateIsFinal == Spec => ImplementsEventFate
<1>1. Init => OnePlace /\ EventFate!Init
  <2> SUFFICES ASSUME Init PROVE OnePlace /\ EventFate!Init
    OBVIOUS
  <2>1. RowsOf({}) = {} /\ OpenRows(NoWindows) = {} /\ NoBatch.rows = {}
    BY DEF RowsOf, OpenRows, NoWindows, NoBatch
  <2>2. SnapshotRows(EmptySnapshot) = {}
    BY <2>1 DEF SnapshotRows, EmptySnapshot
  <2>3. Held = {} /\ Reported = {}
    BY <2>1, <2>2 DEF Init, Held, InMemory, OnDisk, Reported
  <2>4. OnePlace
    BY <2>3, HeldIsBoth DEF Init, OnePlace
  <2>5. \A e \in Events : Fate[e] = "unserved"
    BY <2>3 DEF Init, Fate, Held
  <2>6. Fate = [e \in Events |-> Fate[e]]
    BY DEF Fate
  <2> QED BY <2>4, <2>5, <2>6 DEF EventFate!Init
<1>2. TypeOK /\ PostInFlight /\ OnePlace /\ [Next]_vars
        => OnePlace' /\ [EventFate!Next]_Fate
  BY FateStep
<1> QED BY <1>1, <1>2, TypeCorrect, PTL DEF Spec, ImplementsEventFate, EventFate!Spec
=============================================================================
