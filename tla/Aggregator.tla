----------------------------- MODULE Aggregator -----------------------------
(***************************************************************************)
(* The aggregate pipeline of internal/aggregate: a served request is an    *)
(* event that the hot path puts into a bounded queue (Aggregator.Write);   *)
(* one goroutine (Aggregator.Run) counts it into a five-minute window,     *)
(* closes finished windows, packs them into batches in an outbox on disk   *)
(* and saves what is open; a second goroutine (sender.run) posts the       *)
(* outbox to the cloud, which drops a batch key it has already taken.      *)
(*                                                                         *)
(* An event is an identity, and a window, a batch or a file is the set of  *)
(* events counted in it: a row's counters say nothing the properties here  *)
(* tell apart. Window n is the n-th five minutes; 0 is the zero time.Time. *)
(* The pending windows are a set: the code sorts them by their start, and  *)
(* WindowsApart says no two have the same one.                             *)
(***************************************************************************)
EXTENDS Integers, Sequences, FiniteSets

CONSTANTS
  Events,        (* the requests the node may serve                        *)
  MaxClock,      (* bound: the last window the clock reaches               *)
  Facts,         (* the versions of the fact set, a set of numbers         *)
  QueueCap,      (* Options.Queue                                          *)
  MaxRows,       (* rows in one batch at most                              *)
  OutboxLimit,   (* unsent batches kept                                    *)
  Crashes,       (* whether the process may be killed                      *)
  Faults         (* the disk operations that may fail in this run          *)

FaultKinds == {"write", "list", "save", "state", "read"}

ASSUME AggregatorAssumption ==
  /\ MaxClock \in Nat \ {0}
  /\ QueueCap \in Nat \ {0}
  /\ MaxRows \in Nat \ {0}
  /\ OutboxLimit \in Nat \ {0}
  /\ Facts \subseteq Nat /\ Facts # {}
  /\ Crashes \in BOOLEAN
  /\ Faults \subseteq FaultKinds
  /\ IsFiniteSet(Events)

Window == 1..MaxClock
ClosedWindow == [start: Window, facts: Facts, rows: SUBSET Events]
Batch == [key: Window, rows: SUBSET Events]
Stamped == [ev: Events, at: Window]
Snapshot == [openFrom: 0..MaxClock, windows: [Window -> SUBSET Events],
             pending: SUBSET ClosedWindow]

NoWindows == [w \in Window |-> {}]
EmptySnapshot == [openFrom |-> 0, windows |-> NoWindows, pending |-> {}]
NoBatch == [key |-> 0, rows |-> {}]

VARIABLES
  clock,      \* the window the wall clock is in
  pastGrace,  \* ten seconds of that window have passed
  facts,      \* the fact set version in force
  settled,    \* Run has saved in this window with every older one closed
  unserved,   \* events that have not happened yet
  sink,       \* aggregateSink.ptr is not nil
  holding,    \* requests that loaded the sink and have not called Write yet
  queue,      \* Aggregator.queue
  dropped,    \* events Aggregator.Dropped counts
  run,        \* the Run goroutine: "down", "running", "stopping", "stopped"
  phase,      \* where Run is: "select", "flush" or "save"
  windows,    \* open windows; {} where there is none
  openFrom,   \* the oldest window that may still be open
  pending,    \* closed windows that wait for a batch
  todo,       \* the pending windows this flush has not put yet
  stateFile,  \* state.json
  outbox,     \* the batch files
  wake,       \* sender.wake holds its token
  spc,        \* where the sender is
  ids,        \* the keys this drain has listed and not handled
  post,       \* the batch being posted
  cloud,      \* the batches the cloud took, in order
  discarded,  \* events of batches thrown away: trimmed, refused, unreadable
  counted,    \* history: events that were added to a window
  durable     \* history: events that reached state.json or the outbox

hotVars == <<unserved, sink, holding, dropped>>
memVars == <<phase, windows, openFrom, pending, todo>>
sendVars == <<spc, ids, post>>
histVars == <<counted, durable>>
time == <<clock, pastGrace>>
world == <<time, facts, settled>>
vars == <<world, hotVars, queue, run, memVars, stateFile, outbox, wake,
          sendVars, cloud, discarded, histVars>>

-----------------------------------------------------------------------------
RowsOf(S) == UNION {x.rows : x \in S}
OpenRows(ws) == UNION {ws[w] : w \in Window}
SnapshotRows(s) == OpenRows(s.windows) \cup RowsOf(s.pending)
Keys(box) == {b.key : b \in box}

Larger(a, b) == IF a > b THEN a ELSE b

Init ==
  /\ clock = 1 /\ pastGrace = FALSE
  /\ facts \in Facts
  /\ settled = TRUE
  /\ unserved = Events
  /\ sink = FALSE /\ holding = {} /\ dropped = {}
  /\ queue = <<>>
  /\ run = "down"
  /\ phase = "select"
  /\ windows = NoWindows /\ openFrom = 0 /\ pending = {} /\ todo = {}
  /\ stateFile = EmptySnapshot
  /\ outbox = {}
  /\ wake = FALSE
  /\ spc = "off" /\ ids = {} /\ post = NoBatch
  /\ cloud = <<>>
  /\ discarded = {}
  /\ counted = {} /\ durable = {}

-----------------------------------------------------------------------------
(* The world: time passes, the fact set is replaced.                       *)

(* Run ticks every second and saves every minute, so a running process     *)
(* does not see five minutes pass without a save past the grace.           *)
ClockAdvance ==
  /\ \/ /\ ~pastGrace
        /\ pastGrace' = TRUE
        /\ UNCHANGED <<clock, settled>>
     \/ /\ pastGrace
        /\ clock < MaxClock
        /\ run \in {"running", "stopping"} => settled
        /\ clock' = clock + 1
        /\ pastGrace' = FALSE
        /\ settled' = FALSE
  /\ UNCHANGED <<facts, hotVars, queue, run, memVars, stateFile, outbox, wake,
                 sendVars, cloud, discarded, histVars>>

InstallFacts ==
  /\ \E v \in Facts : v > facts /\ facts' = v
  /\ UNCHANGED <<time, settled, hotVars, queue, run, memVars, stateFile, outbox, wake,
                 sendVars, cloud, discarded, histVars>>

-----------------------------------------------------------------------------
(* The hot path.                                                           *)

(* aggregateSink.Write loads the pointer; with none, the event is counted  *)
(* nowhere.                                                                *)
Serve(e) ==
  /\ e \in unserved
  /\ unserved' = unserved \ {e}
  /\ holding' = IF sink THEN holding \cup {[ev |-> e, at |-> clock]} ELSE holding
  /\ UNCHANGED <<world, sink, dropped, queue, run, memVars, stateFile,
                 outbox, wake, sendVars, cloud, discarded, histVars>>

(* Mutant of Write: an event counted in Dropped is offered once more.      *)
WriteTwice(h) ==
  /\ h \in holding
  /\ \/ /\ Len(queue) < QueueCap
        /\ queue' = Append(queue, h)
        /\ holding' = holding \ {h}
        /\ UNCHANGED dropped
     \/ /\ Len(queue) >= QueueCap
        /\ dropped' = dropped \cup {h.ev}
        /\ UNCHANGED <<holding, queue>>
  /\ UNCHANGED <<world, unserved, sink, run, memVars, stateFile, outbox,
                 wake, sendVars, cloud, discarded, histVars>>

(* Aggregator.Write never blocks: into the queue, or into Dropped.         *)
Write(h) ==
  /\ h \in holding
  /\ holding' = holding \ {h}
  /\ \/ /\ Len(queue) < QueueCap
        /\ queue' = Append(queue, h)
        /\ UNCHANGED dropped
     \/ /\ Len(queue) >= QueueCap
        /\ dropped' = dropped \cup {h.ev}
        /\ UNCHANGED queue
  /\ UNCHANGED <<world, unserved, sink, run, memVars, stateFile, outbox,
                 wake, sendVars, cloud, discarded, histVars>>

-----------------------------------------------------------------------------
(* The Run goroutine.                                                      *)

Looping == run \in {"running", "stopping"} /\ phase = "select"

(* Mutant of WindowFor: a late event reopens its window.                   *)
WindowForUnclamped(at) == at

(* The window an event falls into: a late one lands in the oldest open     *)
(* window rather than reopening a closed one.                              *)
WindowFor(at) == Larger(at, openFrom)

(* case r := <-a.queue: a.add(r)                                           *)
Add ==
  /\ Looping
  /\ queue # <<>>
  /\ LET h == Head(queue) IN
       /\ windows' = [windows EXCEPT ![WindowFor(h.at)] = @ \cup {h.ev}]
       /\ counted' = counted \cup {h.ev}
  /\ queue' = Tail(queue)
  /\ UNCHANGED <<world, hotVars, run, phase, openFrom, pending, todo,
                 stateFile, outbox, wake, sendVars, cloud, discarded, durable>>

(* save(): the file is replaced whole, or the error is logged.             *)
SaveState(s) ==
  /\ settled' = (settled \/ s.openFrom = clock)
  /\ \/ /\ stateFile' = s
        /\ durable' = durable \cup SnapshotRows(s)
     \/ /\ "save" \in Faults
        /\ UNCHANGED <<stateFile, durable>>

(* Mutant of Edge: the grace is added.                                     *)
EdgeAhead == IF pastGrace THEN clock + 1 ELSE clock

(* now.Add(-grace) truncated to a window.                                  *)
Edge == IF pastGrace THEN clock ELSE clock - 1

(* closeWindows: every open window older than the edge becomes pending.    *)
Closed(from) ==
  {[start |-> w, facts |-> facts, rows |-> windows[w]] :
     w \in {v \in Window : v < from /\ windows[v] # {}}}

CloseWindows(edge) ==
  /\ openFrom' = Larger(openFrom, edge)
  /\ pending' = pending \cup Closed(openFrom')
  /\ windows' = [w \in Window |-> IF w < openFrom' THEN {} ELSE windows[w]]

(* One tick: closeWindows, then flush if it is due (the rest of it is      *)
(* PutBatch and FlushSave), then save if that is due.                      *)
Tick ==
  /\ Looping
  /\ CloseWindows(Edge)
  /\ \/ /\ phase' = "select"
        /\ todo' = {}
        /\ \/ UNCHANGED <<stateFile, durable, settled>>
           \/ SaveState([openFrom |-> openFrom', windows |-> windows',
                         pending |-> pending'])
     \/ /\ pending' # {}
        /\ phase' = "flush"
        /\ todo' = pending'
        /\ UNCHANGED <<stateFile, durable, settled>>
  /\ UNCHANGED <<time, facts, hotVars, queue, run, outbox, wake, sendVars,
                 cloud, discarded, counted>>

(* The windows of s up to the start w.                                     *)
UpTo(s, w) == {x \in s : x.start <= w}

(* One batch names one fact set version and has at most MaxRows rows; a    *)
(* window alone never has more, close() folds it.                          *)
Fits(b) ==
  /\ \A x, y \in b : x.facts = y.facts
  /\ Cardinality(b) > 1 => Cardinality(RowsOf(b)) <= MaxRows

(* flush fills a batch from the oldest window on, as far as they fit.      *)
IsNextBatch(s, first, last) ==
  /\ \A x \in s : first.start <= x.start
  /\ Fits(UpTo(s, last.start))
  /\ \A x \in s : x.start > last.start => ~Fits(UpTo(s, x.start))

(* Mutant of BatchKey: the start of the last window.                       *)
BatchKeyOfLast(first, last) == last.start

(* batchID: the key of a batch is the start of its first window.           *)
BatchKey(first, last) == first.start

(* What is left once the oldest past the limit are removed.                *)
Trim(box) == {b \in box : Cardinality({c \in box : c.key > b.key}) < OutboxLimit}

(* outbox.put of the next batch of the flush. A file already there is      *)
(* kept and the call succeeds; a failure ends the loop over the batches.   *)
PutBatch ==
  /\ phase = "flush"
  /\ \E first, last \in todo :
       LET b == [key |-> BatchKey(first, last), rows |-> RowsOf(UpTo(todo, last.start))]
           left == todo \ UpTo(todo, last.start)
           goOn == todo' = left /\ phase' = IF left = {} THEN "save" ELSE "flush"
           break == todo' = todo /\ phase' = "save"
       IN /\ IsNextBatch(todo, first, last)
          /\ \/ /\ b.key \in Keys(outbox)
                /\ goOn
                /\ UNCHANGED <<outbox, durable, discarded>>
             \/ /\ b.key \notin Keys(outbox)
                /\ outbox' = Trim(outbox \cup {b})
                /\ discarded' = discarded \cup RowsOf((outbox \cup {b}) \ outbox')
                /\ durable' = durable \cup b.rows
                /\ goOn
             \/ /\ "write" \in Faults
                /\ b.key \notin Keys(outbox)
                /\ break
                /\ UNCHANGED <<outbox, durable, discarded>>
             \/ /\ "list" \in Faults
                /\ b.key \notin Keys(outbox)
                /\ outbox' = outbox \cup {b}
                /\ durable' = durable \cup b.rows
                /\ break
                /\ UNCHANGED discarded
  /\ UNCHANGED <<world, hotVars, queue, run, windows, openFrom, pending,
                 stateFile, wake, sendVars, cloud, counted>>

(* Mutants of Unpacked: a batch that failed is forgotten; only the oldest  *)
(* window leaves.                                                          *)
UnpackedNone == {}
UnpackedAllButOldest ==
  IF todo = pending THEN pending
  ELSE {x \in pending : \E y \in pending : y.start < x.start}

(* The pending windows whose rows have not reached the outbox.             *)
Unpacked == todo

(* Mutant of Poke: the channel has no room, and the poke is lost unless    *)
(* run listens.                                                            *)
PokeUnbuffered == wake' = (wake \/ (spc = "next" /\ ids = {}))

(* A token in sender.wake, a channel with room for one.                    *)
Poke == wake' = TRUE

(* The end of flush: the windows that reached the outbox leave pending,    *)
(* the state is saved, the sender is poked.                                *)
FlushSave ==
  /\ phase = "save"
  /\ pending' = Unpacked
  /\ todo' = {}
  /\ phase' = "select"
  /\ SaveState([openFrom |-> openFrom, windows |-> windows, pending |-> Unpacked])
  /\ Poke
  /\ UNCHANGED <<time, facts, hotVars, queue, run, windows, openFrom, outbox,
                 sendVars, cloud, discarded, counted>>

-----------------------------------------------------------------------------
(* Life of the process.                                                    *)

(* load: the saved state, or none when it is unreadable and set aside.     *)
Load ==
  /\ \/ UNCHANGED stateFile
     \/ "state" \in Faults /\ stateFile' = EmptySnapshot
  /\ openFrom' = stateFile'.openFrom
  /\ windows' = stateFile'.windows
  /\ pending' = stateFile'.pending

(* aggregate.Open with load, then Run: from a fresh process, or in a       *)
(* process whose previous aggregator was stopped. A request that still     *)
(* holds the previous aggregator writes into a queue nobody reads.         *)
Open ==
  /\ run \in {"down", "stopped"}
  /\ run' = "running"
  /\ sink' = TRUE
  /\ settled' = TRUE
  /\ holding' = {} /\ queue' = <<>>
  /\ Load
  /\ phase' = "select" /\ todo' = {}
  /\ wake' = FALSE
  /\ spc' = "list" /\ ids' = {} /\ post' = NoBatch
  /\ UNCHANGED <<time, facts, unserved, dropped, outbox, cloud, discarded,
                 histVars>>

(* cloudLink.stopAggregate: the sink is emptied, then the context ends.    *)
Stop ==
  /\ run = "running"
  /\ run' = "stopping"
  /\ sink' = FALSE
  /\ UNCHANGED <<world, unserved, holding, dropped, queue, memVars,
                 stateFile, outbox, wake, sendVars, cloud, discarded, histVars>>

(* Run after ctx.Done(): the queue has been counted, the state is saved,   *)
(* and Run returns once the sender has.                                    *)
FinalSave ==
  /\ run = "stopping" /\ phase = "select"
  /\ queue = <<>>
  /\ spc = "off"
  /\ SaveState([openFrom |-> openFrom, windows |-> windows, pending |-> pending])
  /\ run' = "stopped"
  /\ UNCHANGED <<time, facts, hotVars, queue, memVars, outbox, wake, sendVars,
                 cloud, discarded, counted>>

(* The process is killed: only the disk and the cloud are left.            *)
Crash ==
  /\ Crashes
  /\ run # "down"
  /\ run' = "down"
  /\ sink' = FALSE /\ holding' = {} /\ queue' = <<>>
  /\ phase' = "select"
  /\ windows' = NoWindows /\ openFrom' = 0 /\ pending' = {} /\ todo' = {}
  /\ wake' = FALSE
  /\ spc' = "off" /\ ids' = {} /\ post' = NoBatch
  /\ UNCHANGED <<world, unserved, dropped, stateFile, outbox, cloud,
                 discarded, histVars>>

-----------------------------------------------------------------------------
(* The sender goroutine.                                                   *)

senderRest == <<world, hotVars, queue, run, memVars, stateFile, histVars>>

(* drain lists the outbox once; a directory it cannot read puts it to      *)
(* sleep.                                                                  *)
SenderList ==
  /\ spc = "list"
  /\ \/ /\ spc' = "next"
        /\ ids' = Keys(outbox)
     \/ /\ "list" \in Faults
        /\ spc' = "sleep"
        /\ UNCHANGED ids
  /\ UNCHANGED <<senderRest, outbox, wake, post, cloud, discarded>>

(* Mutant of IsOldest: the newest first.                                   *)
IsNewest(k, ks) == \A j \in ks : k >= j

(* The keys come sorted by name, and a name begins with the start.         *)
IsOldest(k, ks) == \A j \in ks : k <= j

(* The next listed batch: skipped when it was trimmed meanwhile, removed   *)
(* when it cannot be read.                                                 *)
SenderRead ==
  /\ spc = "next"
  /\ run = "running"
  /\ \E k \in ids :
       /\ IsOldest(k, ids)
       /\ ids' = ids \ {k}
       /\ \/ /\ k \notin Keys(outbox)
             /\ UNCHANGED <<spc, post, outbox, discarded>>
          \/ \E b \in outbox :
               /\ b.key = k
               /\ post' = b
               /\ spc' = "post"
               /\ UNCHANGED <<outbox, discarded>>
          \/ \E b \in outbox :
               /\ "read" \in Faults
               /\ b.key = k
               /\ outbox' = outbox \ {b}
               /\ discarded' = discarded \cup b.rows
               /\ UNCHANGED <<spc, post>>
  /\ UNCHANGED <<senderRest, wake, cloud>>

(* The cloud takes a batch unless it already has its key.                  *)
CloudTakes(b) ==
  cloud' = IF \E i \in DOMAIN cloud : cloud[i].key = b.key
           THEN cloud ELSE Append(cloud, b)

(* sender.post and the switch over its outcome: 2xx; 400 or 413; 401 or    *)
(* 403; anything else, an answer that never came included — then the cloud *)
(* may or may not have taken the batch.                                    *)
SenderPost ==
  /\ spc = "post"
  /\ \/ /\ CloudTakes(post)
        /\ spc' = "remove"
        /\ UNCHANGED discarded
     \/ /\ spc' = "remove"
        /\ discarded' = discarded \cup post.rows
        /\ UNCHANGED cloud
     \/ /\ spc' = "sleep"
        /\ UNCHANGED <<cloud, discarded>>
     \/ /\ CloudTakes(post)
        /\ spc' = "sleep"
        /\ UNCHANGED discarded
  /\ post' = IF spc' = "remove" THEN post ELSE NoBatch
  /\ ids' = IF spc' = "remove" THEN ids ELSE {}
  /\ UNCHANGED <<senderRest, outbox, wake>>

SenderRemove ==
  /\ spc = "remove"
  /\ outbox' = {b \in outbox : b.key # post.key}
  /\ post' = NoBatch
  /\ spc' = "next"
  /\ UNCHANGED <<senderRest, ids, wake, cloud, discarded>>

(* run waits: for a poke when the outbox was drained, for the backoff      *)
(* after a failure. A select may take it though the context has ended.     *)
SenderWait ==
  /\ run \in {"running", "stopping"}
  /\ \/ /\ spc = "next" /\ ids = {}
        /\ wake
        /\ wake' = FALSE
     \/ /\ spc = "sleep"
        /\ UNCHANGED wake
  /\ spc' = "list"
  /\ UNCHANGED <<senderRest, outbox, ids, post, cloud, discarded>>

(* The context ended: a wait or the loop over the batches returns.         *)
SenderStop ==
  /\ run = "stopping"
  /\ spc \in {"next", "sleep"}
  /\ spc' = "off"
  /\ ids' = {}
  /\ UNCHANGED <<senderRest, outbox, wake, post, cloud, discarded>>

-----------------------------------------------------------------------------
RunStep == Add \/ Tick \/ PutBatch \/ FlushSave \/ FinalSave
SenderStep ==
  SenderList \/ SenderRead \/ SenderPost \/ SenderRemove \/ SenderWait \/ SenderStop
HotPath == (\E e \in Events : Serve(e)) \/ (\E h \in holding : Write(h))
Life == Open \/ Stop \/ Crash

Next == ClockAdvance \/ InstallFacts \/ HotPath \/ Life \/ RunStep \/ SenderStep

Spec == Init /\ [][Next]_vars

(* The goroutines keep running, timers fire and the cloud answers; what    *)
(* may never happen is a request, a stop, a crash or a new fact set. The   *)
(* answer the cloud gives is left open: that it is infinitely often 2xx is *)
(* a hypothesis of the property that needs it.                             *)
Fairness ==
  /\ WF_vars(SenderList) /\ WF_vars(SenderRead) /\ WF_vars(SenderPost)
  /\ WF_vars(SenderRemove) /\ WF_vars(SenderWait)
  /\ WF_vars(PutBatch) /\ WF_vars(FlushSave)

FairSpec == Spec /\ Fairness

-----------------------------------------------------------------------------
(* Properties.                                                             *)

(* The type of every variable.                                             *)
TypeOK ==
  /\ clock \in Window
  /\ pastGrace \in BOOLEAN
  /\ facts \in Facts
  /\ settled \in BOOLEAN
  /\ unserved \subseteq Events
  /\ sink \in BOOLEAN
  /\ holding \subseteq Stamped
  /\ queue \in Seq(Stamped)
  /\ dropped \subseteq Events
  /\ run \in {"down", "running", "stopping", "stopped"}
  /\ phase \in {"select", "flush", "save"}
  /\ windows \in [Window -> SUBSET Events]
  /\ openFrom \in 0..MaxClock
  /\ pending \subseteq ClosedWindow
  /\ todo \subseteq ClosedWindow
  /\ stateFile \in Snapshot
  /\ outbox \subseteq Batch
  /\ wake \in BOOLEAN
  /\ spc \in {"off", "list", "next", "post", "remove", "sleep"}
  /\ ids \subseteq Window
  /\ post \in Batch \cup {NoBatch}
  /\ cloud \in Seq(Batch)
  /\ discarded \subseteq Events
  /\ counted \subseteq Events
  /\ durable \subseteq Events

(* add: "a window that went out must not change". In memory and in the     *)
(* saved state every closed window is older than openFrom, no open one is, *)
(* and no two closed ones have one start — so two batches of one flush     *)
(* never share a first window, which is what batchID rests on.             *)
Apart(from, ws, closed) ==
  /\ \A w \in Window : w < from => ws[w] = {}
  /\ \A x \in closed : x.start < from
  /\ \A x, y \in closed : x.start = y.start => x = y

WindowsApart ==
  /\ Apart(openFrom, windows, pending)
  /\ Apart(stateFile.openFrom, stateFile.windows, stateFile.pending)

(* flush: "Even then nothing is counted twice — the batch key is derived   *)
(* from the windows, so the repeat carries the same key." No event is in   *)
(* two batches the cloud took.                                             *)
NothingCountedTwice ==
  \A i, j \in DOMAIN cloud : i # j => cloud[i].rows \cap cloud[j].rows = {}

(* Where an event is on this node: in memory, or on its disk.              *)
InMemory ==
  {h.ev : h \in holding} \cup {queue[i].ev : i \in DOMAIN queue}
  \cup OpenRows(windows) \cup RowsOf(pending) \cup RowsOf(todo) \cup post.rows
OnDisk == SnapshotRows(stateFile) \cup RowsOf(outbox)
Reported == UNION {cloud[i].rows : i \in DOMAIN cloud}

(* Once counted, an event is on the node or with the cloud until the node  *)
(* discards its batch by one of the documented rules.                      *)
NothingVanishes == counted \subseteq InMemory \cup OnDisk \cup Reported \cup discarded

(* docs/en/protocol/aggregate.md:258: the open window is saved once a      *)
(* minute, and a crash loses at most a minute of counting: what state.json *)
(* or the outbox ever held is still held, or was reported or discarded.    *)
SavedIsNotLost == durable \subseteq InMemory \cup OnDisk \cup Reported \cup discarded

(* docs/en/protocol/aggregate.md:249: "the oldest first ...: the cloud     *)
(* receives the windows in order".                                         *)
WindowsArriveInOrder ==
  \A i, j \in DOMAIN cloud : i < j => cloud[i].key < cloud[j].key

(* No wake-up is lost between flush, which pokes, and run, which listens   *)
(* only when drain found nothing: while the node runs and a cloud that is  *)
(* asked again and again gives its answer now and then, every batch leaves *)
(* the outbox.                                                             *)
CloudAnswers == []<>(spc = "post") => []<>(spc = "remove")
OutboxDrains ==
  (<>[](run = "running") /\ CloudAnswers) =>
    \A k \in Window : k \in Keys(outbox) ~> k \notin Keys(outbox)

(* What the aggregate promises of one event, whatever crashes: EventFate.  *)
Fate == [e \in Events |->
           IF e \in Reported THEN "reported"
           ELSE IF e \in dropped THEN "lost"
           ELSE IF e \in InMemory \cup OnDisk THEN "held"
           ELSE IF e \in unserved THEN "unserved" ELSE "lost"]
EventFate == INSTANCE EventFate WITH fate <- Fate
ImplementsEventFate == EventFate!Spec
=============================================================================
