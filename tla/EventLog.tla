------------------------------- MODULE EventLog -------------------------------
(***************************************************************************)
(* The event log of a node: events.Log takes events of finished requests   *)
(* into a bounded queue, and one goroutine writes them into files, a new   *)
(* one for each day and whenever the last is full, and removes the files   *)
(* of days long past.                                                      *)
(*                                                                         *)
(* A line is the request it is about; Torn is what a failed write leaves   *)
(* behind without an end, Joined a line appended to that. A file that is   *)
(* empty is one that is not there. The clock goes in days, which is all    *)
(* the log asks of a time.                                                 *)
(***************************************************************************)
EXTENDS Integers, Sequences, FiniteSets, SequencesExt

CONSTANTS
  Requests,    (* requests that come in                                    *)
  MaxDay,      (* bound: the last day of the clock                         *)
  LogQueue,    (* Options.Queue                                            *)
  MaxSize,     (* Options.MaxSize, in lines                                *)
  KeepDays,    (* Options.KeepDays                                         *)
  Faults       (* what may fail: "open", "line"                            *)

Torn == "torn"
Joined == "joined"

EventLogAssumption ==
  /\ IsFiniteSet(Requests) /\ Torn \notin Requests /\ Joined \notin Requests
  /\ MaxDay \in Nat
  /\ LogQueue \in Nat \ {0} /\ MaxSize \in Nat \ {0} /\ KeepDays \in Nat

Days == 0..MaxDay
Numbers == 0..Cardinality(Requests)
Names == Days \X Numbers
NoFile == [name |-> <<0, 0>>, size |-> 0, failed |-> FALSE, unlinked |-> FALSE]

Never == -1

VARIABLES
  now,       \* the day of the wall clock
  at,        \* the day each request came in
  handled,   \* the requests being handled
  life,      \* the process: "up", "closed" (the queue is), "down"
  queue,     \* Log.queue
  dropped,   \* Log.Dropped
  opened,    \* whether a file is open
  file,      \* the open file: its name, its size, whether its encoder has
             \* failed, whether it was removed from the directory
  disk,      \* the files
  accepted,  \* history: the requests that got into the queue, in order
  lost       \* history: those lost to a kill or a fault

log == <<queue, dropped, opened, file, disk, accepted, lost>>
vars == <<now, at, handled, life, log>>

-----------------------------------------------------------------------------
(* Mutant of HasRoom: one too many.                                        *)
HasRoomForOneMore == Len(queue) <= LogQueue

(* Write: the select on the queue.                                         *)
HasRoom == Len(queue) < LogQueue

(* The end of a request. It is in the queue or counted in Dropped.         *)
Report(r) ==
  /\ life = "up" /\ r \in handled
  /\ handled' = handled \ {r}
  /\ IF HasRoom
     THEN queue' = Append(queue, r) /\ accepted' = Append(accepted, r) /\ UNCHANGED dropped
     ELSE dropped' = dropped + 1 /\ UNCHANGED <<queue, accepted>>
  /\ UNCHANGED <<now, at, life, opened, file, disk, lost>>

(* Shutdown waits for a handler ten seconds and no longer: one that comes  *)
(* to Write later sends on a closed channel, and net/http recovers the     *)
(* panic. The event is nowhere.                                            *)
ReportPanics(r) ==
  /\ life = "closed" /\ r \in handled
  /\ handled' = handled \ {r}
  /\ UNCHANGED <<now, at, life, log>>

(* Mutant of FreeName: numbers are tried from the last.                    *)
FreeNameDown(day) ==
  CHOOSE name \in {day} \X Numbers :
    /\ Len(disk[name]) < MaxSize
    /\ \A n \in Numbers : n > name[2] => Len(disk[<<day, n>>]) >= MaxSize

(* Mutant of FreeName: another limit than the one rotation goes by.        *)
FreeNameOver(day) ==
  CHOOSE name \in {day} \X Numbers :
    /\ Len(disk[name]) <= MaxSize
    /\ \A n \in 0..(name[2] - 1) : Len(disk[<<day, n>>]) > MaxSize

(* freeName: the first file of the day that is not full.                   *)
FreeName(day) ==
  CHOOSE name \in {day} \X Numbers :
    /\ Len(disk[name]) < MaxSize
    /\ \A n \in 0..(name[2] - 1) : Len(disk[<<day, n>>]) >= MaxSize

(* prepareFile: the file that is open, or the one to be opened.            *)
Stays(r) == opened /\ file.name[1] = at[r]
Prepared(r) ==
  IF Stays(r) THEN file
  ELSE LET name == FreeName(at[r])
       IN [NoFile EXCEPT !.name = name, !.size = Len(disk[name])]

(* A line after a torn one is not a line of its own.                       *)
WithLine(lines, line) ==
  IF lines # <<>> /\ Last(lines) = Torn THEN Append(Front(lines), Joined)
  ELSE Append(lines, line)

Written(f, line) ==
  disk' = IF f.unlinked THEN disk ELSE [disk EXCEPT ![f.name] = WithLine(@, line)]

LogRuns == life # "down" /\ queue # <<>>

(* write: the file is prepared, the line encoded, a full file closed.      *)
LogWrites ==
  /\ LogRuns
  /\ LET r == Head(queue)
         f == Prepared(r)
         size == IF f.unlinked THEN f.size + 1 ELSE Len(WithLine(disk[f.name], r))
     IN /\ ~f.failed
        /\ Written(f, r)
        /\ lost' = IF r \in ToSet(disk'[f.name]) \/ f.unlinked THEN lost ELSE lost \cup {r}
        /\ opened' = (size < MaxSize)
        /\ file' = IF size < MaxSize THEN [f EXCEPT !.size = size] ELSE NoFile
  /\ queue' = Tail(queue)
  /\ UNCHANGED <<now, at, handled, life, dropped, accepted>>

(* The line is not written, or written in part. The file stays open.       *)
LineFails ==
  /\ LogRuns
  /\ "line" \in Faults
  /\ LET f == Prepared(Head(queue)) IN
       /\ ~f.failed
       /\ Written(f, Torn) \/ UNCHANGED disk
       /\ opened' = TRUE
       /\ file' = [f EXCEPT !.failed = TRUE]
  /\ lost' = lost \cup {Head(queue)}
  /\ queue' = Tail(queue)
  /\ UNCHANGED <<now, at, handled, life, dropped, accepted>>

(* A json.Encoder that has failed once returns that error ever after.      *)
LineRefused ==
  /\ LogRuns
  /\ Stays(Head(queue)) /\ file.failed
  /\ lost' = lost \cup {Head(queue)}
  /\ queue' = Tail(queue)
  /\ UNCHANGED <<now, at, handled, life, dropped, opened, file, disk, accepted>>

(* freeName, OpenFile or the Stat after it fails.                          *)
OpenFails ==
  /\ LogRuns
  /\ "open" \in Faults
  /\ ~Stays(Head(queue))
  /\ opened' = FALSE
  /\ file' = NoFile
  /\ lost' = lost \cup {Head(queue)}
  /\ queue' = Tail(queue)
  /\ UNCHANGED <<now, at, handled, life, dropped, disk, accepted>>

(* removeOld: the open file may be among them. What is written to it then  *)
(* is gone when it is closed.                                              *)
RemoveOld ==
  /\ life # "down"
  /\ KeepDays > 0
  /\ LET old == {n \in Names : n[1] < now - KeepDays /\ disk[n] # <<>>} IN
       /\ old # {}
       /\ disk' = [n \in Names |-> IF n \in old THEN <<>> ELSE disk[n]]
       /\ file' = IF opened /\ file.name \in old THEN [file EXCEPT !.unlinked = TRUE]
                  ELSE file
  /\ UNCHANGED <<now, at, handled, life, queue, dropped, opened, accepted, lost>>

(* Close closes the queue and waits for run to end.                        *)
Close ==
  /\ life = "up"
  /\ life' = "closed"
  /\ UNCHANGED <<now, at, handled, log>>

(* Mutant of Drained: what is queued is not waited for.                    *)
DrainedOrNot == TRUE

(* The receive from the closed queue says so only when it is empty.        *)
Drained == queue = <<>>

(* The process is gone, and with it what it counted in Dropped.            *)
Gone ==
  /\ life' = "down"
  /\ handled' = {}
  /\ queue' = <<>>
  /\ dropped' = 0
  /\ opened' = FALSE
  /\ file' = NoFile
  /\ UNCHANGED <<now, at, disk, accepted>>

(* run ends, Close returns, the process ends.                              *)
RunEnds ==
  /\ life = "closed" /\ Drained
  /\ Gone
  /\ UNCHANGED lost

Kill ==
  /\ life # "down"
  /\ Gone
  /\ lost' = lost \cup ToSet(queue)

(* Open.                                                                   *)
Open ==
  /\ life = "down"
  /\ life' = "up"
  /\ UNCHANGED <<now, at, handled, log>>

-----------------------------------------------------------------------------
Tick ==
  /\ now < MaxDay
  /\ now' = now + 1
  /\ UNCHANGED <<at, handled, life, log>>

(* The event carries the time the request came in.                         *)
Arrive(r) ==
  /\ life = "up" /\ at[r] = Never
  /\ at' = [at EXCEPT ![r] = now]
  /\ handled' = handled \cup {r}
  /\ UNCHANGED <<now, life, log>>

Init ==
  /\ now = 0
  /\ at = [r \in Requests |-> Never]
  /\ handled = {} /\ life = "up"
  /\ queue = <<>> /\ dropped = 0
  /\ opened = FALSE /\ file = NoFile
  /\ disk = [n \in Names |-> <<>>]
  /\ accepted = <<>> /\ lost = {}

Next ==
  \/ Tick
  \/ \E r \in Requests : Arrive(r) \/ Report(r) \/ ReportPanics(r)
  \/ LogWrites \/ LineFails \/ LineRefused \/ OpenFails \/ RemoveOld
  \/ Close \/ RunEnds \/ Kill \/ Open

Spec == Init /\ [][Next]_vars

TypeOK ==
  /\ now \in Days
  /\ at \in [Requests -> Days \cup {Never}]
  /\ handled \subseteq Requests
  /\ life \in {"up", "closed", "down"}
  /\ queue \in Seq(Requests) /\ Len(queue) <= LogQueue
  /\ dropped \in 0..Cardinality(Requests)
  /\ opened \in BOOLEAN
  /\ file \in [name: Names, size: 0..MaxSize, failed: BOOLEAN, unlinked: BOOLEAN]
  /\ disk \in [Names -> Seq(Requests \cup {Torn, Joined})]
  /\ accepted \in Seq(Requests)
  /\ lost \subseteq Requests

-----------------------------------------------------------------------------
(* Files: events.Read gives line i of file f before line j of file g.      *)
ReadBefore(f, i, g, j) ==
  \/ f[1] < g[1]
  \/ f[1] = g[1] /\ (f[2] < g[2] \/ (f[2] = g[2] /\ i < j))

(* events/read.go: "the difference between real numbers and invented ones" *)
(* in a replay is the order: what is read of a day comes in the order the  *)
(* requests ended, however files were filled, left and opened again.       *)
LogInOrder ==
  \A f \in Names : \A i \in DOMAIN disk[f] :
    \A g \in {f[1]} \X Numbers : \A j \in DOMAIN disk[g] :
      /\ disk[f][i] \in Requests /\ disk[g][j] \in Requests
      /\ ReadBefore(f, i, g, j)
      => \E a, b \in DOMAIN accepted :
           a < b /\ accepted[a] = disk[f][i] /\ accepted[b] = disk[g][j]

(* log.go:199: no file grows past its limit, by whatever way it is come to *)
(* again.                                                                  *)
FilesBounded == \A n \in Names : Len(disk[n]) <= MaxSize

(* An event that got into the queue is there, or on disk for a reader to   *)
(* find, for as long as it is to be kept: neither a change of file, nor    *)
(* the cleanup, nor the end of the node leaves one behind, save by a kill  *)
(* or a fault of the disk.                                                 *)
NothingLeftBehind ==
  \A r \in ToSet(accepted) \ lost :
    \/ r \in ToSet(queue)
    \/ \E n \in Names : r \in ToSet(disk[n])
    \/ KeepDays > 0 /\ at[r] < now - KeepDays
===============================================================================
