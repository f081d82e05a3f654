------------------------------ MODULE Accounts ------------------------------
(***************************************************************************)
(* Who may log into the admin UI, and who is: the file of accounts, which  *)
(* the commands of antibot-admin write, the copy the admin UI takes of it  *)
(* when it starts, and the sessions in its memory (admin/auth.go, login    *)
(* and logout of admin/pages.go, admin/confirm.go,                         *)
(* cmd/antibot-admin/accounts.go and serve.go).                            *)
(*                                                                         *)
(* An account is a name and its password, which the file has the hash of.  *)
(***************************************************************************)
EXTENDS Naturals

CONSTANTS
  Names,      \* names an account may have
  Passwords,  \* passwords that are long enough
  Keys,       \* bound: the sessions that may be open at once
  Ttl,        \* how long a session lasts
  Requests,   \* requests of the admin UI that may be under way at once
  Commands,   \* commands that may run at once
  MaxTime,    \* bound: how long time goes on
  MaxWrites   \* bound: how often the file is written

AccountsAssumption ==
  /\ Ttl \in Nat \ {0} /\ MaxTime \in Nat \ {0} /\ MaxWrites \in Nat
  /\ Requests \cap Commands = {}

VARIABLES
  file,      \* the accounts in the file
  memory,    \* Users.users of the admin UI, while it is up
  life,      \* "up" or "down"
  sessions,  \* Sessions.live, by key; history: the password that was given
  now,
  pc,        \* where each request or command is
  form,      \* what a request under way brought
  next,      \* what a command under way is about to write
  writes     \* history: how often the file was written

vars == <<file, memory, life, sessions, now, pc, form, next, writes>>

Accounts == UNION {[S -> Passwords] : S \in SUBSET Names}
Nobody == [n \in {} |-> 0]
NoSessions == [k \in {} |-> 0]
Forms == [to: {"log in", "confirm"}, name: Names, password: Passwords, at: 1..MaxTime]
NoForm == [to |-> "log in", name |-> "", password |-> "", at |-> 0]

Without(f, S) == [x \in DOMAIN f \ S |-> f[x]]

Init ==
  /\ file = Nobody /\ memory = Nobody /\ life = "down"
  /\ sessions = NoSessions /\ now = 1
  /\ pc = [a \in Requests \cup Commands |-> "idle"]
  /\ form = [r \in Requests |-> NoForm] /\ next = [c \in Commands |-> Nobody]
  /\ writes = 0

-----------------------------------------------------------------------------
(* The commands: OpenUsers, Set or Remove, write.                          *)

CommandOpens(c) ==
  /\ pc[c] = "idle"
  /\ pc' = [pc EXCEPT ![c] = "write"]
  /\ \/ \E n \in Names, p \in Passwords :
          next' = [next EXCEPT ![c] = [m \in DOMAIN file \cup {n} |->
                                         IF m = n THEN p ELSE file[m]]]
     \/ \E n \in DOMAIN file : next' = [next EXCEPT ![c] = Without(file, {n})]
  /\ UNCHANGED <<file, memory, life, sessions, now, form, writes>>

CommandEnds(c) ==
  /\ pc[c] = "write" /\ pc' = [pc EXCEPT ![c] = "idle"]
  /\ next' = [next EXCEPT ![c] = Nobody]
  /\ UNCHANGED <<memory, life, sessions, now, form>>

CommandWrites(c) ==
  /\ CommandEnds(c)
  /\ writes < MaxWrites
  /\ file' = next[c] /\ writes' = writes + 1

CommandFails(c) == CommandEnds(c) /\ UNCHANGED <<file, writes>>

-----------------------------------------------------------------------------
(* The life of the admin UI: it reads the accounts once, and does not come *)
(* up without one.                                                         *)

AdminStarts ==
  /\ life = "down" /\ file # Nobody
  /\ life' = "up" /\ memory' = file
  /\ UNCHANGED <<file, sessions, now, pc, form, next, writes>>

\* Mutant of Forgotten: sessions outlive the process.
Remembered == sessions

\* Sessions are in the process's memory.
Forgotten == NoSessions

AdminStops ==
  /\ life = "up" /\ life' = "down" /\ memory' = Nobody
  /\ sessions' = Forgotten
  /\ pc' = [a \in DOMAIN pc |-> IF a \in Requests THEN "idle" ELSE pc[a]]
  /\ form' = [r \in Requests |-> NoForm]
  /\ UNCHANGED <<file, now, next, writes>>

Passes ==
  /\ now < MaxTime /\ now' = now + 1
  /\ UNCHANGED <<file, memory, life, sessions, pc, form, next, writes>>

-----------------------------------------------------------------------------
(* The handlers. Each may answer that there were too many attempts, and is *)
(* over then.                                                              *)

Over(k) == now >= sessions[k].until

Brings(r, f) ==
  /\ life = "up" /\ pc[r] = "idle"
  /\ pc' = [pc EXCEPT ![r] = "check"] /\ form' = [form EXCEPT ![r] = f]
  /\ UNCHANGED <<file, memory, life, sessions, now, next, writes>>

LogIn(r) ==
  \E n \in Names, p \in Passwords :
    Brings(r, [to |-> "log in", name |-> n, password |-> p, at |-> now])

\* requireLogin, then an action that asks for the password once more.
Confirm(r) ==
  \E k \in DOMAIN sessions, p \in Passwords :
    /\ ~Over(k)
    /\ Brings(r, [to |-> "confirm", name |-> sessions[k].name, password |-> p, at |-> now])

Holds(accounts, f) == f.name \in DOMAIN accounts /\ accounts[f.name] = f.password

Ends(r) == pc' = [pc EXCEPT ![r] = "idle"] /\ form' = [form EXCEPT ![r] = NoForm]

\* Users.Check. It takes half a second: the request goes on later.
Matches(r) == Holds(memory, form[r])

Checks(r) ==
  /\ pc[r] = "check" /\ Matches(r)
  /\ pc' = [pc EXCEPT ![r] = "goes on"]
  /\ UNCHANGED <<file, memory, life, sessions, now, form, next, writes>>

Refuses(r) ==
  /\ pc[r] = "check" /\ ~Matches(r)
  /\ Ends(r)
  /\ UNCHANGED <<file, memory, life, sessions, now, next, writes>>

TooMany(r) ==
  /\ pc[r] = "check" /\ Ends(r)
  /\ UNCHANGED <<file, memory, life, sessions, now, next, writes>>

\* Sessions.Start sweeps, and gives a key nobody has. What a confirmed
\* request does then is its component's.
GoesOn(r) ==
  /\ pc[r] = "goes on" /\ Ends(r)
  /\ \/ /\ form[r].to = "log in"
        /\ LET kept == Without(sessions, {k \in DOMAIN sessions : form[r].at >= sessions[k].until})
           IN \E k \in Keys \ DOMAIN kept :
                sessions' = [l \in DOMAIN kept \cup {k} |->
                               IF l = k THEN [name |-> form[r].name, until |-> form[r].at + Ttl,
                                              given |-> form[r].password]
                               ELSE kept[l]]
     \/ form[r].to = "confirm" /\ UNCHANGED sessions
  /\ UNCHANGED <<file, memory, life, now, next, writes>>

\* Whose of a session that is over, and logout.
SessionEnds ==
  /\ \E k \in DOMAIN sessions : sessions' = Without(sessions, {k})
  /\ UNCHANGED <<file, memory, life, now, pc, form, next, writes>>

-----------------------------------------------------------------------------
Next ==
  \/ \E c \in Commands : CommandOpens(c) \/ CommandWrites(c) \/ CommandFails(c)
  \/ AdminStarts \/ AdminStops \/ Passes \/ SessionEnds
  \/ \E r \in Requests :
       LogIn(r) \/ Confirm(r) \/ Checks(r) \/ Refuses(r) \/ TooMany(r) \/ GoesOn(r)

Spec == Init /\ [][Next]_vars

TypeOK ==
  /\ {file, memory} \subseteq Accounts
  /\ life \in {"up", "down"} /\ now \in 1..MaxTime
  /\ \A k \in DOMAIN sessions :
       k \in Keys /\ sessions[k] \in [name: Names, until: 1..MaxTime + Ttl, given: Passwords]
  /\ pc \in [Requests \cup Commands -> {"idle", "write", "check", "goes on"}]
  /\ form \in [Requests -> Forms \cup {NoForm}]
  /\ next \in [Commands -> Accounts]

\* Who is logged in gave a password the admin UI goes by now: whoever was
\* removed, or whose password was changed, is out once it has been started
\* again, wherever his requests were then.
EntryIsEarned ==
  /\ \A k \in DOMAIN sessions :
       /\ life = "up"
       /\ Holds(memory, [name |-> sessions[k].name, password |-> sessions[k].given])
  /\ \A r \in Requests : pc[r] = "goes on" => Holds(memory, form[r])
=============================================================================
