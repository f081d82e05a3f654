------------------------------- MODULE Tokens -------------------------------
(***************************************************************************)
(* The tokens of the node's API: one file, the memory the admin UI keeps   *)
(* of it, its requests, and the commands of antibot-admin, each of which   *)
(* is a process of its own (admin/tokens.go, admin/tokens_page.go,         *)
(* requireToken of admin/api.go, cmd/antibot-admin/apitoken.go).           *)
(*                                                                         *)
(* A token is its value; what the file holds of it is the hash.            *)
(***************************************************************************)
EXTENDS Naturals, FiniteSets

CONSTANTS
  Values,     \* the tokens that may be issued
  Name,       \* the name each one is issued under
  Days,       \* the lives a token may be given
  UsedEvery,  \* how often the last use is written down
  Requests,   \* requests of the admin UI that may be under way at once
  Commands,   \* commands that may run at once
  MaxTime     \* bound: how long time goes on

TokensAssumption ==
  /\ IsFiniteSet(Values) /\ DOMAIN Name = Values
  /\ Days \subseteq Nat \ {0} /\ UsedEvery \in Nat \ {0}
  /\ IsFiniteSet(Requests) /\ IsFiniteSet(Commands) /\ Requests \cap Commands = {}
  /\ MaxTime \in Nat \ {0}

Actors == Requests \cup Commands

VARIABLES
  file,    \* the tokens in the file, and its stamp
  memory,  \* Tokens.list of the admin UI, and the stamp it was read with
  now,
  pc,      \* where each actor is: its process's lock is held but for "idle"
  next,    \* the list it is about to write
  used,    \* the token whose use that is, if it is only a use
  passed,  \* the actors whose step came after another process's write
  issued,  \* history: the tokens whose issue was written
  revoked, \* history: the tokens whose revocation was written
  crossed  \* history: another process wrote the file between two steps of a write

vars == <<file, memory, now, pc, next, used, passed, issued, revoked, crossed>>
history == <<issued, revoked, crossed>>

Ends == {t + d : t \in 1..MaxTime, d \in Days}
Token == [until: Ends, used: 0..MaxTime, revoked: BOOLEAN]
NoTokens == [v \in {} |-> 0]
NoFile == [list |-> NoTokens, stamp |-> 0]

\* State: 0 stands for never used.
Live(tok) == ~tok.revoked /\ now < tok.until

Init ==
  /\ file = NoFile /\ memory = NoFile /\ now = 1
  /\ pc = [a \in Actors |-> "idle"]
  /\ next = [a \in Actors |-> NoTokens] /\ used = [a \in Actors |-> {}]
  /\ passed = {}
  /\ issued = {} /\ revoked = {} /\ crossed = FALSE

\* reloadLocked: a file that has not changed is not read. A command opens
\* the file anew.
Reread(a) == IF a \in Commands \/ memory.stamp # file.stamp THEN file ELSE memory
Remembers(a) == memory' = IF a \in Commands THEN memory ELSE Reread(a)

OtherProcess(a, b) == a # b /\ {a, b} \cap Commands # {}

\* Mutant of Locked: the lock is let go while a use is written down.
LockedForChanges(a) == \A b \in Actors : pc[b] = "idle" \/ used[b] # {} \/ OtherProcess(a, b)

\* Tokens.mu can be taken: the requests are of one process.
Locked(a) == \A b \in Actors : pc[b] = "idle" \/ OtherProcess(a, b)

Begins(a, list, use) ==
  /\ Locked(a) /\ pc[a] = "idle" /\ pc' = [pc EXCEPT ![a] = "write"]
  /\ next' = [next EXCEPT ![a] = list] /\ used' = [used EXCEPT ![a] = use]
  /\ Remembers(a)
  /\ UNCHANGED <<file, now, passed, history>>

Issue(a) ==
  LET list == Reread(a).list
  IN \E v \in Values \ DOMAIN list, d \in Days :
       /\ v \notin issued /\ \A b \in Actors : v \notin DOMAIN next[b]
       /\ \A w \in DOMAIN list : Name[w] = Name[v] => ~Live(list[w])
       /\ Begins(a, [w \in DOMAIN list \cup {v} |->
                       IF w = v THEN [until |-> now + d, used |-> 0, revoked |-> FALSE]
                       ELSE list[w]], {})

Revoke(a) ==
  LET list == Reread(a).list
  IN \E v \in DOMAIN list :
       /\ Live(list[v])
       /\ Begins(a, [w \in DOMAIN list |->
                       IF Name[w] = Name[v] /\ Live(list[w]) THEN [list[w] EXCEPT !.revoked = TRUE]
                       ELSE list[w]], {})

\* Check of a live token whose last use is long ago; the request goes on.
Due(tok) == tok.used = 0 \/ now - tok.used >= UsedEvery
CheckAndNote(r) ==
  LET list == Reread(r).list
  IN \E v \in DOMAIN list :
       /\ Live(list[v]) /\ Due(list[v])
       /\ Begins(r, [list EXCEPT ![v].used = now], {v})

\* Any other check, and List: the file is looked at, nothing is written.
Look(r) ==
  /\ Locked(r) /\ Remembers(r)
  /\ UNCHANGED <<file, now, pc, next, used, passed, history>>

\* What the list an actor writes adds to the one it has read.
Renames(a) ==
  /\ pc[a] = "write" /\ pc' = [pc EXCEPT ![a] = "stat"]
  /\ file' = [list |-> next[a], stamp |-> file.stamp + 1]
  /\ passed' = (passed \ {a}) \cup {b \in Actors : pc[b] # "idle" /\ OtherProcess(a, b)}
  /\ crossed' = (crossed \/ a \in passed)
  /\ issued' = issued \cup DOMAIN next[a]
  /\ revoked' = revoked \cup {v \in DOMAIN next[a] : next[a][v].revoked}
  /\ UNCHANGED <<memory, now, next, used>>

IsOver(a) ==
  /\ pc' = [pc EXCEPT ![a] = "idle"]
  /\ next' = [next EXCEPT ![a] = NoTokens] /\ used' = [used EXCEPT ![a] = {}]
  /\ passed' = passed \ {a}
  /\ UNCHANGED <<file, now, issued, revoked>>

\* The stamp is taken after the rename: it may be another process's.
Stats(a) ==
  /\ pc[a] = "stat" /\ IsOver(a)
  /\ memory' = IF a \in Commands THEN memory ELSE [list |-> next[a], stamp |-> file.stamp]
  /\ crossed' = (crossed \/ (a \in Requests \cap passed))

\* One step of the write fails; a use is remembered all the same. A command
\* that is killed ends so too.
WriteFails(a) ==
  /\ pc[a] # "idle" /\ IsOver(a)
  /\ memory' = [memory EXCEPT !.list = [v \in DOMAIN memory.list |->
       IF v \in used[a] THEN [memory.list[v] EXCEPT !.used = next[a][v].used] ELSE memory.list[v]]]
  /\ UNCHANGED crossed

\* The admin UI is restarted, or killed: OpenTokens reads the file.
Restart ==
  /\ memory' = file
  /\ pc' = [a \in Actors |-> IF a \in Commands THEN pc[a] ELSE "idle"]
  /\ next' = [a \in Actors |-> IF a \in Commands THEN next[a] ELSE NoTokens]
  /\ used' = [a \in Actors |-> {}]
  /\ passed' = passed \cap Commands
  /\ UNCHANGED <<file, now, history>>

Tick == now < MaxTime /\ now' = now + 1 /\ UNCHANGED <<file, memory, pc, next, used, passed, history>>

Next ==
  \/ \E a \in Actors : Issue(a) \/ Revoke(a) \/ Renames(a) \/ Stats(a) \/ WriteFails(a)
  \/ \E r \in Requests : CheckAndNote(r) \/ Look(r)
  \/ Restart \/ Tick

Spec == Init /\ [][Next]_vars

(***************************************************************************)
(* Properties.                                                             *)
(***************************************************************************)
Lists == UNION {[vs -> Token] : vs \in SUBSET Values}
TypeOK ==
  /\ file \in [list: Lists, stamp: Nat] /\ memory \in [list: Lists, stamp: 0..file.stamp]
  /\ now \in 1..MaxTime
  /\ pc \in [Actors -> {"idle", "write", "stat"}] /\ next \in [Actors -> Lists]
  /\ used \in [Actors -> SUBSET Values] /\ passed \subseteq Actors /\ crossed \in BOOLEAN
  /\ issued \subseteq Values /\ revoked \subseteq Values

\* tokens.go: "The node and the command both reread before they write, so
\* neither undoes the other's change." A token that was issued stays in the
\* file, and one that was revoked stays revoked, whatever uses are noted,
\* tokens issued or revoked at the same moment; unless another process wrote
\* the file between the reading and the writing.
NeitherUndoes ==
  crossed \/ /\ issued \subseteq DOMAIN file.list
             /\ \A v \in revoked : file.list[v].revoked

\* apitoken.go says of a revoked token that "a running node refuses it from
\* its next request": what a check of the admin UI reads has it revoked,
\* with the same exception.
RevokedIsRefused ==
  crossed \/ \A r \in Requests, v \in revoked :
    Locked(r) /\ v \in DOMAIN Reread(r).list => ~Live(Reread(r).list[v])

TokensStand == NeitherUndoes /\ RevokedIsRefused
============================================================================
