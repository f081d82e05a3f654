-------------------------- MODULE AdminAccessProofs --------------------------
(***************************************************************************)
(* Theorems about what lets somebody in or out: the file of API tokens, for*)
(* any number of tokens, of requests of the admin UI and of commands beside*)
(* it; the accounts of the admin UI and their sessions; the link to the    *)
(* cloud, for any number of requests under way at once. Whatever fails.    *)
(***************************************************************************)
EXTENDS AdminChanges, FiniteSets, TLAPS

-----------------------------------------------------------------------------
(* Tokens: the inductive invariant, part by part.                          *)

(* Tokens.mu: of the requests of one process only one is under way.        *)
Exclusive == \A a, b \in Handlers : a = b \/ pc[a] = "idle" \/ pc[b] = "idle"

(* Two lists with the same tokens, of which the same are revoked.          *)
Agree(l, m) == DOMAIN l = DOMAIN m /\ \A v \in DOMAIN l : l[v].revoked = m[v].revoked

(* A list with the tokens of another at least, and its revocations.        *)
Keeps(l, m) == DOMAIN m \subseteq DOMAIN l /\ \A v \in DOMAIN m : m[v].revoked => l[v].revoked

(* A memory that has the stamp of the file has its list.                   *)
Fresh == memory.stamp = file.stamp => Agree(memory.list, file.list)

(* What an actor is to write, unless another process wrote since it read,  *)
(* undoes nothing of what is in the file; and once written is what is in   *)
(* it.                                                                     *)
Based == \A a \in T!Actors \ passed : pc[a] = "write" => Keeps(next[a], file.list)
Left == \A a \in T!Actors \ passed : pc[a] = "stat" => file.list = next[a]

(* A use is noted of a token that is in the list.                          *)
Listed == \A a \in T!Actors : used[a] \subseteq DOMAIN next[a]

(* Everything that was written is still there.                             *)
Kept ==
  /\ issued \subseteq DOMAIN file.list
  /\ \A v \in revoked : v \in DOMAIN file.list /\ file.list[v].revoked

Whole == crossed \/ (Fresh /\ Kept /\ Based)
TokensInv == T!TypeOK /\ Exclusive /\ Left /\ Listed /\ Whole

-----------------------------------------------------------------------------
(* Lists.                                                                  *)

LEMMA ListsOK ==
  ASSUME NEW l
  PROVE  l \in T!Lists <=> DOMAIN l \subseteq Values /\ l \in [DOMAIN l -> T!Token]
  BY DEF T!Lists

LEMMA KeepsItself ==
  ASSUME NEW l
  PROVE  Keeps(l, l)
  BY DEF Keeps

LEMMA TokensRereadOK ==
  ASSUME T!TypeOK, NEW a \in T!Actors
  PROVE  /\ T!Reread(a) \in [list: T!Lists, stamp: 0..file.stamp]
         /\ Fresh => Agree(T!Reread(a).list, file.list)
  BY DEF T!TypeOK, T!Reread, Fresh, Agree

-----------------------------------------------------------------------------
LEMMA TokensInitOK ==
  ASSUME T!TokensAssumption, T!Init
  PROVE  TokensInv
<1>1. T!NoTokens \in T!Lists
  BY ListsOK DEF T!NoTokens
<1>2. T!NoFile \in [list: T!Lists, stamp: Nat] /\ T!NoFile.stamp = 0 /\ T!NoFile.list = T!NoTokens
  BY <1>1 DEF T!NoFile
<1>3. memory \in [list: T!Lists, stamp: 0..file.stamp] /\ now \in 1..MaxTime
  BY <1>2 DEF T!Init, T!TokensAssumption, T!NoFile
<1>4. T!TypeOK
  BY <1>1, <1>2, <1>3 DEF T!Init, T!TypeOK
<1>5. Exclusive /\ Left /\ Listed
  BY DEF T!Init, Exclusive, Left, Listed, T!Actors
<1>6. Whole
  BY DEF T!Init, Whole, Fresh, Agree, Kept, Based
<1>. QED  BY <1>4, <1>5, <1>6 DEF TokensInv

-----------------------------------------------------------------------------
(* What begins under the lock of its process.                              *)

LEMMA BeginsOK ==
  ASSUME T!TokensAssumption, TokensInv, NEW a \in T!Actors,
         NEW tokens \in T!Lists, NEW use \in SUBSET DOMAIN tokens,
         T!Begins(a, tokens, use), Keeps(tokens, T!Reread(a).list)
  PROVE  TokensInv'
<1>. USE DEF T!Begins, T!Remembers, T!history
<1>1. \A b \in T!Actors : pc'[b] = (IF b = a THEN "write" ELSE pc[b])
                        /\ next'[b] = (IF b = a THEN tokens ELSE next[b])
  BY DEF TokensInv, T!TypeOK
<1>2. T!TypeOK'
  BY TokensRereadOK, ListsOK DEF TokensInv, T!TypeOK
<1>3. Exclusive'
  BY <1>1 DEF TokensInv, Exclusive, T!Locked, T!OtherProcess, T!Actors, T!TokensAssumption
<1>4. Left' /\ Listed'
  BY <1>1 DEF TokensInv, T!TypeOK, Left, Listed
<1>5. Whole'
  <2>. SUFFICES ASSUME ~crossed, Fresh, Kept, Based
       PROVE  Fresh' /\ Kept' /\ Based'
    BY DEF TokensInv, Whole
  <2>1. Agree(T!Reread(a).list, file.list)
    BY TokensRereadOK DEF TokensInv
  <2>2. Fresh'
    BY <2>1 DEF Fresh, Agree
  <2>3. Kept'
    BY DEF Kept
  <2>4. Based'
    BY <1>1, <2>1 DEF Based, Keeps, Agree
  <2>. QED  BY <2>2, <2>3, <2>4
<1>. QED  BY <1>2, <1>3, <1>4, <1>5 DEF TokensInv

LEMMA IssueOK ==
  ASSUME T!TokensAssumption, TokensInv, NEW a \in T!Actors, T!Issue(a)
  PROVE  TokensInv'
<1>. DEFINE tokens == T!Reread(a).list
<1>1. PICK v \in Values \ DOMAIN tokens, d \in Days :
        T!Begins(a, [w \in DOMAIN tokens \cup {v} |->
                     IF w = v THEN [until |-> now + d, used |-> 0, revoked |-> FALSE]
                     ELSE tokens[w]], {})
  BY DEF T!Issue
<1>. DEFINE longer == [w \in DOMAIN tokens \cup {v} |->
                         IF w = v THEN [until |-> now + d, used |-> 0, revoked |-> FALSE]
                         ELSE tokens[w]]
<1>2. tokens \in T!Lists
  BY TokensRereadOK DEF TokensInv
<1>3. [until |-> now + d, used |-> 0, revoked |-> FALSE] \in T!Token
  <2>1. now + d \in T!Ends /\ 0 \in 0..MaxTime
    BY DEF T!Ends, TokensInv, T!TypeOK, T!TokensAssumption
  <2>. QED  BY <2>1 DEF T!Token
<1>4. longer \in T!Lists
  BY <1>2, <1>3, ListsOK
<1>5. Keeps(longer, tokens)
  BY DEF Keeps
<1>. QED  BY <1>1, <1>4, <1>5, BeginsOK

LEMMA RevokeOK ==
  ASSUME T!TokensAssumption, TokensInv, NEW a \in T!Actors, T!Revoke(a)
  PROVE  TokensInv'
<1>. DEFINE tokens == T!Reread(a).list
<1>1. PICK v \in DOMAIN tokens :
        T!Begins(a, [w \in DOMAIN tokens |->
                     IF Name[w] = Name[v] /\ T!Live(tokens[w]) THEN [tokens[w] EXCEPT !.revoked = TRUE]
                     ELSE tokens[w]], {})
  BY DEF T!Revoke
<1>. DEFINE fewer == [w \in DOMAIN tokens |->
                        IF Name[w] = Name[v] /\ T!Live(tokens[w])
                        THEN [tokens[w] EXCEPT !.revoked = TRUE] ELSE tokens[w]]
<1>2. tokens \in T!Lists
  BY TokensRereadOK DEF TokensInv
<1>3. \A tok \in T!Token : [tok EXCEPT !.revoked = TRUE] \in T!Token
                         /\ [tok EXCEPT !.revoked = TRUE].revoked
  BY DEF T!Token
<1>4. fewer \in T!Lists
  BY <1>2, <1>3, ListsOK
<1>5. Keeps(fewer, tokens)
  BY <1>2, <1>3, ListsOK DEF Keeps
<1>. QED  BY <1>1, <1>4, <1>5, BeginsOK

LEMMA CheckAndNoteOK ==
  ASSUME T!TokensAssumption, TokensInv, NEW r \in Handlers, T!CheckAndNote(r)
  PROVE  TokensInv'
<1>. DEFINE tokens == T!Reread(r).list
<1>. r \in T!Actors
  BY DEF T!Actors
<1>1. PICK v \in DOMAIN tokens : T!Begins(r, [tokens EXCEPT ![v].used = now], {v})
  BY DEF T!CheckAndNote
<1>. DEFINE noted == [tokens EXCEPT ![v].used = now]
<1>2. tokens \in T!Lists
  BY TokensRereadOK DEF TokensInv
<1>3. \A tok \in T!Token : [tok EXCEPT !.used = now] \in T!Token
                         /\ [tok EXCEPT !.used = now].revoked = tok.revoked
  BY DEF T!Token, TokensInv, T!TypeOK
<1>4. noted \in T!Lists /\ {v} \in SUBSET DOMAIN noted
  BY <1>2, <1>3, ListsOK
<1>5. Keeps(noted, tokens)
  BY <1>2, <1>3, ListsOK DEF Keeps
<1>. QED  BY <1>1, <1>4, <1>5, BeginsOK

LEMMA LookOK ==
  ASSUME T!TokensAssumption, TokensInv, NEW r \in Handlers, T!Look(r)
  PROVE  TokensInv'
<1>. USE DEF T!Look, T!Remembers, T!history
<1>. r \in T!Actors
  BY DEF T!Actors
<1>1. T!TypeOK'
  BY TokensRereadOK DEF TokensInv, T!TypeOK
<1>2. Exclusive' /\ Left' /\ Listed'
  BY DEF TokensInv, Exclusive, Left, Listed
<1>3. Whole'
  <2>1. Fresh => Fresh'
    BY TokensRereadOK DEF TokensInv, Fresh, Agree, T!Reread
  <2>. QED  BY <2>1 DEF TokensInv, Whole, Kept, Based
<1>. QED  BY <1>1, <1>2, <1>3 DEF TokensInv

-----------------------------------------------------------------------------
(* The two steps of a write, and its failure.                              *)

LEMMA RenamesOK ==
  ASSUME T!TokensAssumption, TokensInv, NEW a \in T!Actors, T!Renames(a)
  PROVE  TokensInv'
<1>. USE DEF T!Renames
<1>1. \A b \in T!Actors : pc'[b] = IF b = a THEN "stat" ELSE pc[b]
  BY DEF TokensInv, T!TypeOK
<1>2. \A b \in T!Actors : b # a /\ pc[b] # "idle" => b \in passed'
  BY DEF TokensInv, Exclusive, T!OtherProcess, T!Actors
<1>3. next[a] \in T!Lists /\ file'.list = next[a] /\ file'.stamp = file.stamp + 1
  BY DEF TokensInv, T!TypeOK
<1>4. T!TypeOK'
  <2>1. file' \in [list: T!Lists, stamp: Nat] /\ memory' \in [list: T!Lists, stamp: 0..file'.stamp]
    BY <1>3 DEF TokensInv, T!TypeOK
  <2>2. issued' \subseteq Values /\ revoked' \subseteq Values
    BY <1>3, ListsOK DEF TokensInv, T!TypeOK
  <2>3. crossed' \in BOOLEAN /\ passed' \subseteq T!Actors
    BY DEF TokensInv, T!TypeOK
  <2>. QED  BY <2>1, <2>2, <2>3 DEF TokensInv, T!TypeOK
<1>5. Exclusive'
  BY <1>1 DEF TokensInv, Exclusive, T!Actors
<1>6. Left' /\ Listed'
  BY <1>1, <1>2, <1>3 DEF TokensInv, Left, Listed
<1>7. Whole'
  <2>. SUFFICES ASSUME ~crossed'
       PROVE  Fresh' /\ Kept' /\ Based'
    BY DEF Whole
  <2>1. Fresh /\ Kept /\ Keeps(next[a], file.list)
    BY DEF TokensInv, Whole, Based
  <2>2. Fresh'
    BY <1>3 DEF Fresh, TokensInv, T!TypeOK
  <2>3. Kept'
    BY <1>3, <2>1 DEF Kept, Keeps
  <2>4. Based'
    BY <1>1, <1>2 DEF Based
  <2>. QED  BY <2>2, <2>3, <2>4
<1>. QED  BY <1>4, <1>5, <1>6, <1>7 DEF TokensInv

(* A write that is over leaves the file and the other actors alone.        *)
LEMMA EndsOK ==
  ASSUME T!TokensAssumption, TokensInv, NEW a \in T!Actors, T!IsOver(a), crossed => crossed',
         crossed' \in BOOLEAN, memory' \in [list: T!Lists, stamp: 0..file.stamp],
         crossed' \/ (Fresh => Fresh')
  PROVE  TokensInv'
<1>. USE DEF T!IsOver
<1>1. \A b \in T!Actors : pc'[b] = (IF b = a THEN "idle" ELSE pc[b])
                        /\ (b # a => next'[b] = next[b] /\ (b \in passed' <=> b \in passed))
  BY DEF TokensInv, T!TypeOK
<1>2. T!NoTokens \in T!Lists
  BY ListsOK DEF T!NoTokens
<1>3. T!TypeOK'
  BY <1>2 DEF TokensInv, T!TypeOK
<1>4. Exclusive' /\ Left' /\ Listed'
  BY <1>1 DEF TokensInv, T!TypeOK, Exclusive, Left, Listed, T!Actors
<1>5. Whole'
  BY <1>1 DEF TokensInv, Whole, Kept, Based
<1>. QED  BY <1>3, <1>4, <1>5 DEF TokensInv

LEMMA StatsOK ==
  ASSUME T!TokensAssumption, TokensInv, NEW a \in T!Actors, T!Stats(a)
  PROVE  TokensInv'
<1>. USE DEF T!Stats
<1>1. crossed' \in BOOLEAN /\ (crossed => crossed') /\ file' = file
  BY DEF TokensInv, T!TypeOK, T!IsOver
<1>2. memory' \in [list: T!Lists, stamp: 0..file.stamp]
  BY DEF TokensInv, T!TypeOK
<1>3. crossed' \/ (Fresh => Fresh')
  <2>1. CASE a \in Commands
    BY <1>1, <2>1 DEF Fresh
  <2>2. CASE a \in Handlers \ Commands
    <3>1. a \in passed \/ file.list = next[a]
      BY DEF TokensInv, Left
    <3>. QED  BY <1>1, <2>2, <3>1 DEF Fresh, Agree
  <2>. QED  BY <2>1, <2>2 DEF T!Actors
<1>. QED  BY <1>1, <1>2, <1>3, EndsOK

LEMMA WriteFailsOK ==
  ASSUME T!TokensAssumption, TokensInv, NEW a \in T!Actors, T!WriteFails(a)
  PROVE  TokensInv'
<1>. DEFINE noted == [v \in DOMAIN memory.list |->
                        IF v \in used[a] THEN [memory.list[v] EXCEPT !.used = next[a][v].used]
                        ELSE memory.list[v]]
<1>1. memory.list \in T!Lists /\ next[a] \in T!Lists /\ used[a] \subseteq DOMAIN next[a]
  BY DEF TokensInv, T!TypeOK, Listed
<1>2. \A tok \in T!Token, n \in 0..MaxTime : [tok EXCEPT !.used = n] \in T!Token
                                    /\ [tok EXCEPT !.used = n].revoked = tok.revoked
  BY DEF T!Token
<1>3. \A v \in used[a] : next[a][v].used \in 0..MaxTime
  BY <1>1, ListsOK DEF T!Token
<1>4. noted \in T!Lists /\ Agree(noted, memory.list)
  BY <1>1, <1>2, <1>3, ListsOK DEF Agree
<1>5. memory' = [memory EXCEPT !.list = noted] /\ file' = file /\ crossed' = crossed /\ T!IsOver(a)
  BY DEF T!WriteFails, T!IsOver
<1>6. memory' \in [list: T!Lists, stamp: 0..file.stamp] /\ (Fresh => Fresh')
  BY <1>4, <1>5 DEF TokensInv, T!TypeOK, Fresh, Agree
<1>. QED  BY <1>5, <1>6, EndsOK DEF TokensInv, T!TypeOK

-----------------------------------------------------------------------------
(* Restarts and time.                                                      *)

LEMMA TokensRestartOK ==
  ASSUME T!TokensAssumption, TokensInv, T!Restart
  PROVE  TokensInv'
<1>. USE DEF T!Restart, T!history
<1>1. \A b \in T!Actors :
        IF b \in Commands
        THEN pc'[b] = pc[b] /\ next'[b] = next[b] /\ (b \in passed' <=> b \in passed)
        ELSE pc'[b] = "idle"
  OBVIOUS
<1>2. T!NoTokens \in T!Lists
  BY ListsOK DEF T!NoTokens
<1>3. T!TypeOK'
  BY <1>2 DEF TokensInv, T!TypeOK
<1>4. Exclusive' /\ Left' /\ Listed'
  BY <1>1 DEF TokensInv, Exclusive, Left, Listed, T!Actors, T!TokensAssumption
<1>5. Whole'
  BY <1>1 DEF TokensInv, Whole, Fresh, Agree, Kept, Based
<1>. QED  BY <1>3, <1>4, <1>5 DEF TokensInv

LEMMA TickOK ==
  ASSUME T!TokensAssumption, TokensInv, T!Tick \/ UNCHANGED T!vars
  PROVE  TokensInv'
<1>. USE DEF T!Tick, T!vars, T!history
<1>1. T!TypeOK'
  BY DEF TokensInv, T!TypeOK, T!TokensAssumption
<1>2. Exclusive' /\ Left' /\ Listed'
  BY DEF TokensInv, Exclusive, Left, Listed
<1>3. Whole'
  BY DEF TokensInv, Whole, Fresh, Kept, Based
<1>. QED  BY <1>1, <1>2, <1>3 DEF TokensInv

-----------------------------------------------------------------------------
(* Accounts: the inductive invariant, part by part.                        *)

(* While the admin UI is down it has no sessions and works off nothing.    *)
Silent == life = "down" => A!NoSessions = sessions /\ \A r \in Handlers : pc[r] = "idle"

(* What is under way brought a form.                                       *)
Formed == \A r \in Handlers : pc[r] # "idle" => form[r] \in A!Forms

AccountsInv == A!TypeOK /\ A!EntryIsEarned /\ Silent /\ Formed

LEMMA AccountsAre ==
  ASSUME NEW f
  PROVE  f \in A!Accounts <=> DOMAIN f \subseteq Logins /\ f \in [DOMAIN f -> Passwords]
  BY DEF A!Accounts

LEMMA NobodyOK == A!Nobody \in A!Accounts /\ DOMAIN A!NoSessions = {}
  BY AccountsAre DEF A!Nobody, A!NoSessions

LEMMA AccountsInitOK ==
  ASSUME A!AccountsAssumption, A!Init
  PROVE  AccountsInv
<1>1. A!TypeOK
  BY NobodyOK DEF A!Init, A!TypeOK, A!AccountsAssumption
<1>2. A!EntryIsEarned /\ Silent /\ Formed
  BY NobodyOK DEF A!Init, A!EntryIsEarned, Silent, Formed
<1>. QED  BY <1>1, <1>2 DEF AccountsInv

(* A step that leaves the memory, the sessions and the life of the admin UI*)
(* alone; of the requests, some may end or, while it is up, begin.         *)
LEMMA NothingGained ==
  ASSUME AccountsInv, A!TypeOK', UNCHANGED <<memory, life, sessions>>,
         \A r \in Handlers :
           \/ pc'[r] = "idle"
           \/ pc'[r] = pc[r] /\ form'[r] = form[r]
           \/ life = "up" /\ pc'[r] = "check" /\ form'[r] \in A!Forms
  PROVE  AccountsInv'
<1>1. A!EntryIsEarned'
  BY DEF AccountsInv, A!EntryIsEarned, A!Holds
<1>2. Silent' /\ Formed'
  BY DEF AccountsInv, Silent, Formed
<1>. QED  BY <1>1, <1>2 DEF AccountsInv

LEMMA CommandsOK ==
  ASSUME A!AccountsAssumption, AccountsInv, NEW c \in Commands,
         A!CommandOpens(c) \/ A!CommandWrites(c) \/ A!CommandFails(c)
  PROVE  AccountsInv'
<1>. USE DEF A!CommandWrites, A!CommandFails, A!CommandEnds
<1>1. file \in A!Accounts /\ next \in [Commands -> A!Accounts]
      /\ pc \in [Handlers \cup Commands -> {"idle", "write", "check", "goes on"}]
  BY DEF AccountsInv, A!TypeOK
<1>2. next' \in [Commands -> A!Accounts]
  <2>1. CASE A!CommandOpens(c)
    <3>1. ASSUME NEW n \in Logins, NEW p \in Passwords
          PROVE  [m \in DOMAIN file \cup {n} |-> IF m = n THEN p ELSE file[m]] \in A!Accounts
      <4>1. DOMAIN file \subseteq Logins /\ file \in [DOMAIN file -> Passwords]
        BY <1>1, AccountsAre
      <4>. DEFINE more == [m \in DOMAIN file \cup {n} |-> IF m = n THEN p ELSE file[m]]
      <4>2. DOMAIN more \subseteq Logins /\ more \in [DOMAIN more -> Passwords]
        BY <4>1
      <4>. HIDE DEF more
      <4>3. more \in A!Accounts
        BY <4>2, AccountsAre
      <4>. QED  BY <4>3 DEF more
    <3>2. ASSUME NEW n \in DOMAIN file
          PROVE  A!Without(file, {n}) \in A!Accounts
      <4>1. A!Without(file, {n}) = [m \in DOMAIN file \ {n} |-> file[m]]
        BY DEF A!Without
      <4>2. DOMAIN file \subseteq Logins /\ file \in [DOMAIN file -> Passwords]
        BY <1>1, AccountsAre
      <4>3. A!Without(file, {n}) \in [DOMAIN file \ {n} -> Passwords]
        BY <4>1, <4>2
      <4>. HIDE DEF A!Without
      <4>. QED  BY <4>1, <4>2, <4>3, AccountsAre
    <3>. QED  BY <1>1, <2>1, <3>1, <3>2 DEF A!CommandOpens
  <2>2. CASE A!CommandWrites(c) \/ A!CommandFails(c)
    BY <1>1, <2>2, NobodyOK
  <2>. QED  BY <2>1, <2>2
<1>3. file' \in A!Accounts
  <2>1. next[c] \in A!Accounts
    BY <1>1
  <2>. QED  BY <1>1, <2>1 DEF A!CommandOpens
<1>4. \A r \in Handlers : pc'[r] = pc[r]
  BY <1>1 DEF A!CommandOpens, A!AccountsAssumption
<1>5. pc' \in [Handlers \cup Commands -> {"idle", "write", "check", "goes on"}]
      /\ UNCHANGED <<memory, life, sessions, now, form>>
  BY <1>1 DEF A!CommandOpens
<1>6. A!TypeOK'
  BY <1>2, <1>3, <1>5 DEF AccountsInv, A!TypeOK
<1>. QED  BY <1>4, <1>5, <1>6, NothingGained

LEMMA LifeOK ==
  ASSUME A!AccountsAssumption, AccountsInv, A!AdminStarts \/ A!AdminStops
  PROVE  AccountsInv'
<1>1. pc \in [Handlers \cup Commands -> {"idle", "write", "check", "goes on"}]
      /\ file \in A!Accounts /\ memory \in A!Accounts
  BY DEF AccountsInv, A!TypeOK
<1>2. CASE A!AdminStarts
  <2>1. sessions' = A!NoSessions /\ \A r \in Handlers : pc'[r] = "idle"
    BY <1>2 DEF A!AdminStarts, AccountsInv, Silent
  <2>2. A!TypeOK'
    BY <1>2 DEF A!AdminStarts, AccountsInv, A!TypeOK
  <2>3. A!EntryIsEarned' /\ Silent'
    BY <1>2, <2>1, NobodyOK DEF A!AdminStarts, A!EntryIsEarned, Silent
  <2>4. Formed'
    BY <2>1 DEF Formed
  <2>. QED  BY <2>2, <2>3, <2>4 DEF AccountsInv
<1>3. CASE A!AdminStops
  <2>1. /\ sessions' = A!NoSessions /\ \A r \in Handlers : pc'[r] = "idle"
        /\ pc' \in [Handlers \cup Commands -> {"idle", "write", "check", "goes on"}]
    BY <1>1, <1>3 DEF A!AdminStops, A!Forgotten
  <2>2. A!TypeOK'
    BY <1>3, <2>1, NobodyOK DEF A!AdminStops, AccountsInv, A!TypeOK
  <2>3. A!EntryIsEarned' /\ Silent'
    BY <2>1, NobodyOK DEF A!EntryIsEarned, Silent
  <2>4. Formed'
    BY <2>1 DEF Formed
  <2>. QED  BY <2>2, <2>3, <2>4 DEF AccountsInv
<1>. QED  BY <1>2, <1>3

LEMMA PassesOK ==
  ASSUME A!AccountsAssumption, AccountsInv, A!Passes \/ UNCHANGED A!vars
  PROVE  AccountsInv'
<1>1. now' \in 1..MaxDays
  <2>1. now \in 1..MaxDays /\ MaxDays \in Nat
    BY DEF AccountsInv, A!TypeOK, A!AccountsAssumption
  <2>. QED  BY <2>1 DEF A!Passes, A!vars
<1>2. A!TypeOK'
  BY <1>1 DEF AccountsInv, A!TypeOK, A!Passes, A!vars
<1>. QED  BY <1>2, NothingGained DEF A!Passes, A!vars

LEMMA RequestsOK ==
  ASSUME A!AccountsAssumption, AccountsInv, NEW r \in Handlers,
         A!LogIn(r) \/ A!Confirm(r) \/ A!Checks(r) \/ A!Refuses(r) \/ A!TooMany(r)
  PROVE  AccountsInv'
<1>. USE DEF A!Ends
<1>1. /\ pc \in [Handlers \cup Commands -> {"idle", "write", "check", "goes on"}]
      /\ form \in [Handlers -> A!Forms \cup {A!NoForm}] /\ now \in 1..MaxDays
  BY DEF AccountsInv, A!TypeOK
<1>2. pc[r] # "idle" => life = "up"
  BY DEF AccountsInv, Silent, A!TypeOK
<1>3. ASSUME NEW f \in A!Forms, A!Brings(r, f) PROVE AccountsInv'
  <2>1. A!TypeOK'
    BY <1>1, <1>3 DEF AccountsInv, A!TypeOK, A!Brings
  <2>. QED  BY <1>1, <1>3, <2>1, NothingGained DEF A!Brings
<1>4. CASE A!LogIn(r)
  BY <1>1, <1>3, <1>4 DEF A!LogIn, A!Forms
<1>5. CASE A!Confirm(r)
  <2>1. PICK k \in DOMAIN sessions, p \in Passwords :
          A!Brings(r, [to |-> "confirm", name |-> sessions[k].name, password |-> p, at |-> now])
    BY <1>5 DEF A!Confirm
  <2>2. sessions[k].name \in Logins
    BY DEF AccountsInv, A!TypeOK
  <2>. QED  BY <1>1, <1>3, <2>1, <2>2 DEF A!Forms
<1>6. CASE A!Checks(r)
  <2>1. \A q \in Handlers : pc'[q] = IF q = r THEN "goes on" ELSE pc[q]
    BY <1>1, <1>6 DEF A!Checks
  <2>2. A!TypeOK'
    BY <1>1, <1>6 DEF AccountsInv, A!TypeOK, A!Checks
  <2>3. A!EntryIsEarned'
    <3>1. A!EntryIsEarned /\ UNCHANGED <<memory, life, sessions, form>>
      BY <1>6 DEF AccountsInv, A!Checks
    <3>2. A!Holds(memory, form[r])
      BY <1>6 DEF A!Checks, A!Matches
    <3>. QED  BY <2>1, <3>1, <3>2 DEF A!EntryIsEarned, A!Holds
  <2>4. Silent' /\ Formed'
    BY <1>2, <1>6, <2>1 DEF AccountsInv, Silent, Formed, A!Checks
  <2>. QED  BY <2>2, <2>3, <2>4 DEF AccountsInv
<1>7. CASE A!Refuses(r) \/ A!TooMany(r)
  <2>1. A!TypeOK'
    BY <1>1, <1>7 DEF AccountsInv, A!TypeOK, A!Refuses, A!TooMany
  <2>2. \A q \in Handlers : q # r => pc'[q] = pc[q] /\ form'[q] = form[q]
    BY <1>1, <1>7 DEF A!Refuses, A!TooMany
  <2>3. pc'[r] = "idle" /\ life = "up"
    BY <1>1, <1>2, <1>7 DEF A!Refuses, A!TooMany
  <2>4. UNCHANGED <<memory, life, sessions>>
    BY <1>7 DEF A!Refuses, A!TooMany
  <2>. QED  BY <2>1, <2>2, <2>3, <2>4, NothingGained DEF AccountsInv, A!TypeOK
<1>. QED  BY <1>4, <1>5, <1>6, <1>7

(* Sessions of which each is an old one, or one that is earned.            *)
LEMMA SessionsOK ==
  ASSUME AccountsInv, A!TypeOK', UNCHANGED <<memory, life>>, life = "up",
         \A k \in DOMAIN sessions' :
           \/ k \in DOMAIN sessions /\ sessions'[k] = sessions[k]
           \/ A!Holds(memory, [name |-> sessions'[k].name, password |-> sessions'[k].given]),
         \A r \in Handlers : pc'[r] = "idle" \/ (pc'[r] = pc[r] /\ form'[r] = form[r])
  PROVE  AccountsInv'
<1>1. A!EntryIsEarned'
  <2>1. A!EntryIsEarned
    BY DEF AccountsInv
  <2>2. ASSUME NEW k \in DOMAIN sessions'
        PROVE  A!Holds(memory', [name |-> sessions'[k].name, password |-> sessions'[k].given])
    BY <2>1, <2>2 DEF A!EntryIsEarned, A!Holds
  <2>3. ASSUME NEW r \in Handlers, pc'[r] = "goes on"
        PROVE  A!Holds(memory', form'[r])
    BY <2>1, <2>3 DEF A!EntryIsEarned, A!Holds
  <2>. QED  BY <2>2, <2>3 DEF A!EntryIsEarned, A!Holds
<1>2. Silent' /\ Formed'
  BY DEF AccountsInv, Silent, Formed
<1>. QED  BY <1>1, <1>2 DEF AccountsInv

LEMMA UntilOK ==
  ASSUME NEW m \in Nat, NEW t \in Nat, NEW n \in 1..m
  PROVE  n + t \in 1..(m + t)
  OBVIOUS

LEMMA GoesOnOK ==
  ASSUME A!AccountsAssumption, AccountsInv, NEW r \in Handlers, A!GoesOn(r)
  PROVE  AccountsInv'
<1>. USE DEF A!GoesOn, A!Ends
<1>1. /\ pc \in [Handlers \cup Commands -> {"idle", "write", "check", "goes on"}]
      /\ form \in [Handlers -> A!Forms \cup {A!NoForm}]
  BY DEF AccountsInv, A!TypeOK
<1>2. life = "up" /\ A!Holds(memory, form[r])
  BY DEF AccountsInv, Silent, A!EntryIsEarned, A!TypeOK
<1>3. \A q \in Handlers : pc'[q] = "idle" \/ (pc'[q] = pc[q] /\ form'[q] = form[q])
  BY <1>1
<1>4. /\ pc' \in [Handlers \cup Commands -> {"idle", "write", "check", "goes on"}]
      /\ form' \in [Handlers -> A!Forms \cup {A!NoForm}]
      /\ UNCHANGED <<file, memory, life, now, next>>
  BY <1>1
<1>5. CASE UNCHANGED sessions
  <2>1. A!TypeOK'
    <3>1. A!TypeOK
      BY DEF AccountsInv
    <3>. QED  BY <1>4, <1>5, <3>1 DEF A!TypeOK
  <2>. QED  BY <1>2, <1>3, <1>4, <1>5, <2>1, SessionsOK
<1>6. CASE form[r].to = "log in" /\ ~UNCHANGED sessions
  <2>. DEFINE kept == A!Without(sessions, {k \in DOMAIN sessions : form[r].at >= sessions[k].until})
              new == [name |-> form[r].name, until |-> form[r].at + Ttl,
                      given |-> form[r].password]
  <2>1. PICK k \in Keys \ DOMAIN kept :
          sessions' = [l \in DOMAIN kept \cup {k} |-> IF l = k THEN new ELSE kept[l]]
    BY <1>6
  <2>2. \A l \in DOMAIN kept : l \in DOMAIN sessions /\ kept[l] = sessions[l]
    BY DEF A!Without
  <2>3. form[r] \in A!Forms
    BY DEF AccountsInv, Formed
  <2>4. new \in [name: Logins, until: 1..MaxDays + Ttl, given: Passwords]
    <3>1. /\ form[r].name \in Logins /\ form[r].password \in Passwords
          /\ form[r].at \in 1..MaxDays /\ Ttl \in Nat /\ MaxDays \in Nat
      BY <2>3 DEF A!Forms, A!AccountsAssumption
    <3>2. form[r].at + Ttl \in 1..(MaxDays + Ttl)
      BY <3>1, UntilOK
    <3>. QED  BY <3>1, <3>2
  <2>5. A!Holds(memory, [name |-> new.name, password |-> new.given])
    BY <1>2 DEF A!Holds
  <2>. HIDE DEF kept, new
  <2>6. A!TypeOK'
    <3>1. \A l \in DOMAIN sessions' :
            l \in Keys /\ sessions'[l] \in [name: Logins, until: 1..MaxDays + Ttl, given: Passwords]
      BY <2>1, <2>2, <2>4 DEF AccountsInv, A!TypeOK
    <3>2. {file, memory} \subseteq A!Accounts /\ next \in [Commands -> A!Accounts]
          /\ life \in {"up", "down"} /\ now \in 1..MaxDays
      BY DEF AccountsInv, A!TypeOK
    <3>. QED  BY <1>4, <3>1, <3>2 DEF A!TypeOK
  <2>7. \A l \in DOMAIN sessions' :
          \/ l \in DOMAIN sessions /\ sessions'[l] = sessions[l]
          \/ A!Holds(memory, [name |-> sessions'[l].name, password |-> sessions'[l].given])
    BY <2>1, <2>2, <2>5
  <2>. QED  BY <1>2, <1>3, <1>4, <2>6, <2>7, SessionsOK
<1>. QED  BY <1>5, <1>6

LEMMA SessionEndsOK ==
  ASSUME AccountsInv, A!SessionEnds
  PROVE  AccountsInv'
<1>1. PICK k \in DOMAIN sessions : sessions' = A!Without(sessions, {k})
  BY DEF A!SessionEnds
<1>2. life = "up"
  BY <1>1 DEF AccountsInv, A!EntryIsEarned
<1>3. \A l \in DOMAIN sessions' : l \in DOMAIN sessions /\ sessions'[l] = sessions[l]
  BY <1>1 DEF A!Without
<1>4. A!TypeOK'
  BY <1>3 DEF A!SessionEnds, AccountsInv, A!TypeOK
<1>. QED  BY <1>2, <1>3, <1>4, SessionsOK DEF A!SessionEnds

LEMMA AccountsStep ==
  ASSUME A!AccountsAssumption, AccountsInv, [A!Next]_(A!vars)
  PROVE  AccountsInv'
  BY CommandsOK, LifeOK, PassesOK, RequestsOK, GoesOnOK, SessionEndsOK DEF A!Next

-----------------------------------------------------------------------------
(* CloudLink: the inductive invariant, part by part.                       *)

(* cloudLink.mu is held by whoever is inside apply or stop, and by nobody  *)
(* else; the goroutine of serveCommand makes no requests.                  *)
Holding == {"send", "wait"}
Locks ==
  /\ \A p \in L!Callers : pc[p] \in Holding <=> mu = p
  /\ pc[L!Main] \in {"idle", "apply", "send", "wait", "serving"}

(* The loops are what agg and sink say, but while an aggregator that was   *)
(* cancelled is waited for.                                                *)
Waits == \E p \in L!Callers : pc[p] = "wait"
Loops ==
  IF Waits THEN agg /\ ~sink /\ loops.on = 0 /\ loops.ending \in {0, 1}
  ELSE loops.on = (IF agg THEN 1 ELSE 0) /\ loops.ending = 0 /\ sink = agg

(* When nobody is about to take the lock, whoever has it acts on what is   *)
(* asked for now.                                                          *)
Applies == \E p \in L!Callers : pc[p] = "apply"
Applied ==
  life = "up" /\ ~Applies =>
    /\ fetch = L!Effective.facts
    /\ mu = "free" => agg = L!Effective.aggregates \/ (unopened /\ ~agg)
    /\ mu # "free" => want = L!Effective
    /\ Waits => ~want.aggregates

(* The file and the memory agree while the process lives, and nobody is    *)
(* anywhere when it does not.                                              *)
Written ==
  /\ L!Alive => state = disk
  /\ ~L!Alive => \A p \in L!Callers : pc[p] = "idle"

LinkInv == L!TypeOK /\ Locks /\ Loops /\ Applied /\ Written /\ L!TokenIsKept

-----------------------------------------------------------------------------
(* What is asked for, as values.                                           *)

LEMMA EffectiveOK ==
  ASSUME config \in L!Configs, state \in L!State
  PROVE  /\ L!Effective \in L!Boxes
         /\ L!Effective.facts \in BOOLEAN /\ L!Effective.aggregates \in BOOLEAN
  BY DEF L!Effective, L!HasToken, L!Configs, L!State, L!Boxes

LEMMA ChangedOK ==
  ASSUME L!TypeOK, NEW r \in Handlers, L!Changing(r)
  PROVE  /\ L!Changed(r) \in L!State
         /\ pc[r] = "keep" => L!Changed(r).token
         /\ pc[r] = "answer" => L!Changed(r).token = state.token
<1>1. asked[r] \in L!Boxes /\ state \in L!State
  BY DEF L!TypeOK
<1>2. L!Kept(state) \in L!State /\ L!Kept(state).token
  BY <1>1 DEF L!Kept, L!State
<1>3. L!Answered(state, asked[r]) \in L!State /\ L!Answered(state, asked[r]).token = state.token
  BY <1>1 DEF L!Answered, L!State, L!Boxes
<1>4. L!Forgotten(state) \in L!State
  BY <1>1 DEF L!Forgotten, L!State
<1>. QED  BY <1>2, <1>3, <1>4 DEF L!Changing, L!Changed

LEMMA StartingOK ==
  ASSUME L!LinkAssumption
  PROVE  /\ L!Resting \in [L!Callers -> {"idle"}]
         /\ L!Starting \in [L!Callers -> {"idle", "apply"}]
         /\ L!Starting[L!Main] = "apply" /\ \A r \in Handlers : L!Starting[r] = "idle"
         /\ L!Main \in L!Callers /\ "free" \notin L!Callers
  BY DEF L!LinkAssumption, L!Starting, L!Resting, L!Callers, L!Main

LEMMA AfterOK ==
  ASSUME L!LinkAssumption, L!TypeOK, NEW p \in L!Callers
  PROVE  /\ L!After(p) \in {"answer", "serving", "idle"}
         /\ p = L!Main => L!After(p) \in {"serving", "idle"}
  BY DEF L!LinkAssumption, L!TypeOK, L!After

-----------------------------------------------------------------------------
(* The start.                                                              *)

LEMMA LinkInitOK ==
  ASSUME L!LinkAssumption, L!Init
  PROVE  LinkInv
<1>1. L!Unasked \in L!State /\ L!NoBox \in L!Boxes /\ L!NoLoop \in [on: Nat, ending: Nat]
  BY DEF L!Unasked, L!State, L!NoBox, L!Boxes, L!NoLoop
<1>2. pc \in [L!Callers -> {"idle", "register", "keep", "answer", "forget", "apply",
                          "send", "wait", "serving"}]
  BY StartingOK DEF L!Init
<1>3. asked \in [Handlers -> L!Boxes] /\ begun \in 0..MaxRequests
  BY <1>1 DEF L!Init, L!LinkAssumption
<1>4. L!TypeOK
  BY <1>1, <1>2, <1>3 DEF L!Init, L!TypeOK
<1>5. \A p \in L!Callers : pc[p] \in {"idle", "apply"}
  BY StartingOK DEF L!Init
<1>6. Locks
  BY <1>5, StartingOK DEF L!Init, Locks, Holding
<1>7. Loops
  BY <1>5 DEF L!Init, Loops, Waits, L!NoLoop
<1>8. Applied /\ Written /\ L!TokenIsKept
  BY StartingOK DEF L!Init, Applied, Applies, Written, L!Alive, L!TokenIsKept
<1>. QED  BY <1>4, <1>6, <1>7, <1>8 DEF LinkInv

-----------------------------------------------------------------------------
(* The owner's requests.                                                   *)

(* A request that goes from one place to another outside apply concerns    *)
(* neither the lock, nor the loops, nor what is asked for.                 *)
LEMMA Elsewhere ==
  ASSUME L!LinkAssumption, LinkInv, NEW r \in Handlers, L!Alive,
         pc[r] \notin Holding \cup {"apply"},
         NEW to, to \notin Holding \cup {"apply"}, pc' = [pc EXCEPT ![r] = to],
         disk' = disk, state' = state,
         UNCHANGED <<L!runs, L!node, mu, want>>
  PROVE  Locks' /\ Loops' /\ Applied' /\ Written'
<1>. r \in L!Callers /\ r # L!Main
  BY DEF L!Callers, L!LinkAssumption
<1>1. \A p \in L!Callers : pc'[p] = IF p = r THEN to ELSE pc[p]
  BY DEF LinkInv, L!TypeOK
<1>2. Locks'
  BY <1>1 DEF LinkInv, Locks, Holding
<1>3. Waits' = Waits /\ Applies' = Applies
  BY <1>1 DEF Waits, Applies, Holding
<1>4. Loops'
  BY <1>3 DEF LinkInv, Loops, L!runs
<1>5. Applied'
  BY <1>3 DEF LinkInv, Applied, L!runs, L!node, L!Effective, L!HasToken
<1>6. Written'
  BY DEF LinkInv, Written, L!Alive, L!node
<1>. QED  BY <1>2, <1>4, <1>5, <1>6

LEMMA SaveCloudOK ==
  ASSUME L!LinkAssumption, LinkInv, NEW r \in Handlers, L!SaveCloud(r)
  PROVE  LinkInv'
<1>. USE DEF L!SaveCloud, L!Serving, L!Alive, L!Goes, L!answer, L!runs, L!node
<1>1. PICK b \in L!Boxes :
        /\ asked' = [asked EXCEPT ![r] = b]
        /\ L!Goes(r, "idle", IF (b.facts \/ b.aggregates) /\ ~L!HasToken THEN "register" ELSE "answer")
  OBVIOUS
<1>2. PICK to \in {"register", "answer"} : pc[r] = "idle" /\ pc' = [pc EXCEPT ![r] = to]
  BY <1>1
<1>3. Locks' /\ Loops' /\ Applied' /\ Written'
  BY <1>2, Elsewhere DEF Holding
<1>4. L!TypeOK'
  BY <1>1, <1>2 DEF LinkInv, L!TypeOK, L!LinkAssumption, L!Callers
<1>5. L!TokenIsKept'
  BY <1>2 DEF LinkInv, L!TypeOK, L!TokenIsKept, L!Callers
<1>. QED  BY <1>3, <1>4, <1>5 DEF LinkInv

LEMMA ForgetCloudOK ==
  ASSUME L!LinkAssumption, LinkInv, NEW r \in Handlers, L!ForgetCloud(r)
  PROVE  LinkInv'
<1>. USE DEF L!ForgetCloud, L!Serving, L!Alive, L!Goes, L!answer, L!runs, L!node
<1>1. Locks' /\ Loops' /\ Applied' /\ Written'
  BY Elsewhere DEF Holding
<1>2. L!TypeOK'
  BY DEF LinkInv, L!TypeOK, L!LinkAssumption, L!Callers
<1>3. L!TokenIsKept'
  BY DEF LinkInv, L!TypeOK, L!TokenIsKept, L!Callers
<1>. QED  BY <1>1, <1>2, <1>3 DEF LinkInv

(* However a registration ends.                                            *)
LEMMA RegisteredOK ==
  ASSUME L!LinkAssumption, LinkInv, NEW r \in Handlers,
         L!Created(r) \/ L!NotCreated(r) \/ L!CreatedUnheard(r)
  PROVE  LinkInv'
<1>. USE DEF L!Created, L!NotCreated, L!CreatedUnheard, L!Goes, L!answer, L!runs, L!node, L!request
<1>1. PICK to \in {"keep", "idle"} : pc[r] = "register" /\ pc' = [pc EXCEPT ![r] = to]
  OBVIOUS
<1>2. Locks' /\ Loops' /\ Applied' /\ Written'
  BY <1>1, Elsewhere DEF Holding
<1>3. L!TypeOK'
  <2>1. pc' \in [L!Callers -> {"idle", "register", "keep", "answer", "forget", "apply", "send",
                            "wait", "serving"}]
    BY <1>1 DEF LinkInv, L!TypeOK, L!Callers
  <2>2. issued' \in BOOLEAN /\ lost' \in BOOLEAN
    BY DEF LinkInv, L!TypeOK
  <2>. QED  BY <2>1, <2>2 DEF LinkInv, L!TypeOK
<1>4. L!TokenIsKept'
  BY DEF LinkInv, L!TypeOK, L!TokenIsKept, L!Callers
<1>. QED  BY <1>2, <1>3, <1>4 DEF LinkInv

LEMMA ChangeOK ==
  ASSUME L!LinkAssumption, LinkInv, NEW r \in Handlers, L!Change(r)
  PROVE  LinkInv'
<1>. USE DEF L!Change, L!runs, L!node
<1>. r \in L!Callers /\ r # L!Main /\ L!Changing(r)
  BY DEF L!Callers, L!LinkAssumption
<1>1. \A p \in L!Callers : pc'[p] = IF p = r THEN "apply" ELSE pc[p]
  BY DEF LinkInv, L!TypeOK
<1>2. L!TypeOK'
  <2>1. disk' \in L!State /\ state' \in L!State
    BY ChangedOK DEF LinkInv
  <2>2. lost' \in BOOLEAN /\ due' \subseteq Handlers
    BY DEF LinkInv, L!TypeOK, L!State
  <2>. QED  BY <2>1, <2>2 DEF LinkInv, L!TypeOK
<1>3. Locks'
  BY <1>1 DEF LinkInv, Locks, Holding, L!Changing
<1>4. Waits' = Waits /\ Applies'
  BY <1>1 DEF Waits, Applies, L!Changing
<1>5. Loops' /\ Applied' /\ Written'
  BY <1>4 DEF LinkInv, Loops, Applied, Written, L!Changing, L!Alive
<1>6. L!TokenIsKept'
  <2>. SUFFICES ASSUME issued, ~lost, ~(pc[r] = "forget" /\ state.token), ~disk'.token
       PROVE  \E q \in Handlers : pc'[q] = "keep"
    BY DEF L!TokenIsKept
  <2>1. pc[r] # "keep"
    BY ChangedOK DEF LinkInv
  <2>2. ~disk.token
    BY <2>1, ChangedOK DEF LinkInv, L!Changing, Written
  <2>3. PICK q \in Handlers : pc[q] = "keep"
    BY <2>2 DEF LinkInv, L!TokenIsKept
  <2>. QED  BY <1>1, <2>1, <2>3 DEF L!Callers
<1>. QED  BY <1>2, <1>3, <1>5, <1>6 DEF LinkInv

LEMMA ChangeFailsOK ==
  ASSUME L!LinkAssumption, LinkInv, NEW r \in Handlers, L!ChangeFails(r)
  PROVE  LinkInv'
<1>. USE DEF L!ChangeFails, L!runs, L!node
<1>1. Locks' /\ Loops' /\ Applied' /\ Written'
  BY Elsewhere DEF Holding, L!Changing
<1>2. L!TypeOK'
  BY DEF LinkInv, L!TypeOK, L!Callers
<1>3. L!TokenIsKept'
  BY DEF LinkInv, L!TypeOK, L!TokenIsKept, L!Callers
<1>. QED  BY <1>1, <1>2, <1>3 DEF LinkInv

-----------------------------------------------------------------------------
(* The supervisor.                                                         *)

(* The lock is free, so nobody waits; whoever takes it knows what is asked *)
(* for.                                                                    *)
LEMMA ApplyFetchOK ==
  ASSUME L!LinkAssumption, LinkInv, NEW p \in L!Callers, L!ApplyFetch(p)
  PROVE  LinkInv'
<1>. USE DEF L!ApplyFetch, L!Goes, L!Wanted, L!answer, L!node, L!request, L!Alive
<1>1. \A q \in L!Callers : pc'[q] = IF q = p THEN "send" ELSE pc[q]
  BY DEF LinkInv, L!TypeOK
<1>2. L!Effective \in L!Boxes /\ L!Effective.facts \in BOOLEAN /\ L!Effective' = L!Effective
  BY EffectiveOK DEF LinkInv, L!TypeOK, L!Effective, L!HasToken
<1>3. p # "free" /\ "free" \notin L!Callers
  BY StartingOK
<1>4. L!TypeOK'
  BY <1>2 DEF LinkInv, L!TypeOK
<1>5. Locks'
  BY <1>1, <1>3 DEF LinkInv, Locks, Holding
<1>6. ~Waits /\ ~Waits'
  BY <1>1, <1>3 DEF LinkInv, Locks, Holding, Waits
<1>7. Loops'
  BY <1>6 DEF LinkInv, Loops
<1>8. Applied'
  BY <1>2, <1>3, <1>6 DEF Applied
<1>9. Written' /\ L!TokenIsKept'
  BY <1>1 DEF LinkInv, Written, L!TokenIsKept, L!Callers
<1>. QED  BY <1>4, <1>5, <1>7, <1>8, <1>9 DEF LinkInv

(* Whoever sends has the lock, and nobody waits.                           *)
LEMMA SendsAlone ==
  ASSUME L!LinkAssumption, LinkInv, NEW p \in L!Callers, pc[p] = "send"
  PROVE  mu = p /\ mu # "free" /\ ~Waits
  BY StartingOK DEF LinkInv, Locks, Holding, Waits

(* The loops when nobody waits, and what starting or cancelling one makes  *)
(* of them.                                                                *)
LEMMA LoopsOK ==
  ASSUME LinkInv, ~Waits
  PROVE  /\ loops.on = (IF agg THEN 1 ELSE 0) /\ loops.ending = 0 /\ sink = agg
         /\ ~agg /\ loops' = [loops EXCEPT !.on = @ + 1] =>
              loops' \in [on: Nat, ending: Nat] /\ loops'.on = 1 /\ loops'.ending = 0
         /\ agg /\ loops' = [on |-> loops.on - 1, ending |-> loops.ending + 1] =>
              loops' \in [on: Nat, ending: Nat] /\ loops'.on = 0 /\ loops'.ending = 1
<1>1. loops.on = (IF agg THEN 1 ELSE 0) /\ loops.ending = 0 /\ sink = agg
  BY DEF LinkInv, Loops
<1>2. loops \in [on: Nat, ending: Nat]
  BY DEF LinkInv, L!TypeOK
<1>. QED  BY <1>1, <1>2

LEMMA ApplySendOK ==
  ASSUME L!LinkAssumption, LinkInv, NEW p \in L!Callers, L!ApplySend(p)
  PROVE  LinkInv'
<1>. USE DEF L!ApplySend, L!Releases, L!answer, L!node, L!request, L!Alive
<1>1. /\ mu = p /\ mu # "free" /\ ~Waits /\ "free" \notin L!Callers
      /\ L!After(p) \in {"answer", "serving", "idle"}
      /\ p = L!Main => L!After(p) \in {"serving", "idle"}
  BY SendsAlone, AfterOK, StartingOK DEF LinkInv
<1>2. \A q \in L!Callers : pc'[q] = IF q = p THEN L!After(p) ELSE pc[q]
  BY DEF LinkInv, L!TypeOK
<1>3. \/ UNCHANGED L!runs /\ ~L!Starts
      \/ agg' /\ sink' /\ L!Starts /\ loops' = [loops EXCEPT !.on = @ + 1]
           /\ ~unopened' /\ fetch' = fetch
      \/ unopened' /\ L!Starts /\ UNCHANGED <<fetch, agg, sink, loops>>
  OBVIOUS
<1>4. /\ loops' \in [on: Nat, ending: Nat] /\ sink' = agg'
      /\ loops'.on = (IF agg' THEN 1 ELSE 0) /\ loops'.ending = 0
  <2>1. CASE agg' /\ sink' /\ L!Starts /\ loops' = [loops EXCEPT !.on = @ + 1]
    BY <1>1, <2>1, LoopsOK DEF L!Starts, LinkInv, L!TypeOK
  <2>2. CASE UNCHANGED <<agg, sink, loops>>
    BY <1>1, <2>2, LoopsOK DEF LinkInv, L!TypeOK
  <2>. QED  BY <1>3, <2>1, <2>2 DEF L!runs
<1>5. L!TypeOK'
  <2>1. fetch' \in BOOLEAN /\ agg' \in BOOLEAN /\ sink' \in BOOLEAN /\ unopened' \in BOOLEAN
    BY <1>3 DEF LinkInv, L!TypeOK, L!runs
  <2>. QED  BY <1>1, <1>4, <2>1 DEF LinkInv, L!TypeOK
<1>6. Locks'
  BY <1>1, <1>2 DEF LinkInv, Locks, Holding
<1>7. ~Waits' /\ (~Applies' => ~Applies)
  BY <1>1, <1>2 DEF Waits, Applies
<1>8. Loops'
  BY <1>4, <1>7 DEF Loops
<1>9. Applied'
  <2>. SUFFICES ASSUME life = "up", ~Applies
       PROVE  fetch' = L!Effective.facts
              /\ (agg' = L!Effective.aggregates \/ (unopened' /\ ~agg'))
    BY <1>7 DEF Applied, L!Effective, L!HasToken
  <2>1. fetch = L!Effective.facts /\ want = L!Effective /\ want.aggregates \in BOOLEAN
    BY <1>1, EffectiveOK DEF LinkInv, L!TypeOK, Applied
  <2>. QED  BY <1>3, <2>1 DEF L!runs, L!Starts, L!Stops, LinkInv, L!TypeOK
<1>10. Written' /\ L!TokenIsKept'
  BY <1>2 DEF LinkInv, Written, L!TokenIsKept, L!Callers
<1>. QED  BY <1>5, <1>6, <1>8, <1>9, <1>10 DEF LinkInv

LEMMA ApplyStopOK ==
  ASSUME L!LinkAssumption, LinkInv, NEW p \in L!Callers, L!ApplyStop(p)
  PROVE  LinkInv'
<1>. USE DEF L!ApplyStop, L!Goes, L!Cancels, L!Stops, L!answer, L!node, L!request, L!Alive
<1>1. mu = p /\ mu # "free" /\ ~Waits
  BY SendsAlone
<1>2. \A q \in L!Callers : pc'[q] = IF q = p THEN "wait" ELSE pc[q]
  BY DEF LinkInv, L!TypeOK
<1>3. /\ loops' \in [on: Nat, ending: Nat] /\ loops'.on = 0 /\ loops'.ending = 1
      /\ agg' /\ ~sink'
  BY <1>1, LoopsOK
<1>4. L!TypeOK'
  BY <1>3 DEF LinkInv, L!TypeOK
<1>5. Locks'
  BY <1>1, <1>2 DEF LinkInv, Locks, Holding
<1>6. Waits' /\ Applies' = Applies
  BY <1>2 DEF Waits, Applies
<1>7. Loops'
  BY <1>3, <1>6 DEF Loops
<1>8. Applied'
  BY <1>1, <1>6 DEF LinkInv, Applied, L!Effective, L!HasToken
<1>9. Written' /\ L!TokenIsKept'
  BY <1>2 DEF LinkInv, Written, L!TokenIsKept, L!Callers
<1>. QED  BY <1>4, <1>5, <1>7, <1>8, <1>9 DEF LinkInv

LEMMA StopEndsOK ==
  ASSUME L!LinkAssumption, LinkInv, NEW p \in L!Callers, L!StopEnds(p)
  PROVE  LinkInv'
<1>. USE DEF L!StopEnds, L!Releases, L!Ended, L!answer, L!node, L!request, L!Alive
<1>1. /\ mu = p /\ mu # "free" /\ Waits /\ "free" \notin L!Callers
      /\ L!After(p) \in {"answer", "serving", "idle"}
      /\ p = L!Main => L!After(p) \in {"serving", "idle"}
      /\ \A q \in L!Callers : pc[q] = "wait" => q = p
  BY AfterOK, StartingOK DEF LinkInv, Locks, Holding, Waits
<1>2. \A q \in L!Callers : pc'[q] = IF q = p THEN L!After(p) ELSE pc[q]
  BY DEF LinkInv, L!TypeOK
<1>3. loops.on = 0 /\ loops.ending = 0 /\ ~sink
  BY <1>1 DEF LinkInv, Loops
<1>4. L!TypeOK'
  BY <1>1 DEF LinkInv, L!TypeOK
<1>5. Locks'
  BY <1>1, <1>2 DEF LinkInv, Locks, Holding
<1>6. ~Waits' /\ (~Applies' => ~Applies)
  BY <1>1, <1>2 DEF Waits, Applies
<1>7. Loops'
  BY <1>3, <1>6 DEF LinkInv, L!TypeOK, Loops
<1>8. Applied'
  <2>. SUFFICES ASSUME life = "up", ~Applies
       PROVE  fetch = L!Effective.facts /\ ~L!Effective.aggregates
    BY <1>6, EffectiveOK DEF LinkInv, L!TypeOK, Applied, L!Effective, L!HasToken
  <2>. QED  BY <1>1 DEF LinkInv, Applied
<1>9. Written' /\ L!TokenIsKept'
  BY <1>2 DEF LinkInv, Written, L!TokenIsKept, L!Callers
<1>. QED  BY <1>4, <1>5, <1>7, <1>8, <1>9 DEF LinkInv

LEMMA AggregatorEndsOK ==
  ASSUME L!LinkAssumption, LinkInv, L!AggregatorEnds
  PROVE  LinkInv'
<1>. USE DEF L!AggregatorEnds, L!CanEnd, L!answer, L!node, L!request
<1>1. Waits /\ loops.ending = 1 /\ loops' = [on |-> 0, ending |-> 0]
  BY DEF LinkInv, Loops, L!TypeOK
<1>2. L!TypeOK'
  BY <1>1 DEF LinkInv, L!TypeOK
<1>3. Loops'
  BY <1>1 DEF LinkInv, Loops, Waits
<1>4. Locks' /\ Applied'
  BY DEF LinkInv, Locks, Applied, Waits, Applies, L!Effective, L!HasToken
<1>5. Written' /\ L!TokenIsKept'
  BY DEF LinkInv, Written, L!TokenIsKept, L!Alive
<1>. QED  BY <1>2, <1>3, <1>4, <1>5 DEF LinkInv

-----------------------------------------------------------------------------
(* The end of the node and its start.                                      *)

LEMMA SignalOK ==
  ASSUME L!LinkAssumption, LinkInv, L!Signal
  PROVE  LinkInv'
<1>. USE DEF L!Signal, L!Serving, L!answer, L!runs, L!request
<1>1. L!TypeOK' /\ Locks' /\ Loops'
  BY DEF LinkInv, L!TypeOK, Locks, Loops, Waits
<1>2. Applied' /\ Written' /\ L!TokenIsKept'
  BY DEF LinkInv, Applied, Written, L!TokenIsKept, L!Alive
<1>. QED  BY <1>1, <1>2 DEF LinkInv

LEMMA StopLinkOK ==
  ASSUME L!LinkAssumption, LinkInv, L!StopLink
  PROVE  LinkInv'
<1>. USE DEF L!StopLink, L!Cancels, L!answer, L!request
<1>1. L!Main \in L!Callers /\ "free" \notin L!Callers /\ ~Waits
  BY StartingOK DEF LinkInv, Locks, Holding, Waits
<1>2. PICK to \in {"wait", "idle"} :
        /\ pc' = [pc EXCEPT ![L!Main] = to] /\ (to = "wait") = agg
        /\ mu' = IF to = "wait" THEN L!Main ELSE "free"
  BY DEF LinkInv, L!TypeOK
<1>3. \A q \in L!Callers : pc'[q] = IF q = L!Main THEN to ELSE pc[q]
  BY <1>2 DEF LinkInv, L!TypeOK
<1>4. ASSUME agg PROVE L!TypeOK' /\ Loops'
  <2>1. /\ loops' \in [on: Nat, ending: Nat] /\ loops'.on = 0 /\ loops'.ending = 1
        /\ agg' /\ ~sink'
    BY <1>1, <1>4, LoopsOK
  <2>2. L!TypeOK'
    BY <1>1, <1>4, <2>1 DEF LinkInv, L!TypeOK
  <2>3. Loops'
    BY <1>1, <1>2, <1>3, <1>4, <2>1 DEF Loops, Waits
  <2>. QED  BY <2>2, <2>3
<1>5. ASSUME ~agg PROVE L!TypeOK' /\ Loops'
  <2>1. L!TypeOK'
    BY <1>1, <1>5 DEF LinkInv, L!TypeOK
  <2>2. ~Waits'
    BY <1>1, <1>2, <1>3, <1>5 DEF Waits
  <2>3. Loops'
    BY <1>1, <1>5, <2>2, LoopsOK DEF Loops
  <2>. QED  BY <2>1, <2>3
<1>6. Locks'
  BY <1>1, <1>2, <1>3 DEF LinkInv, Locks, Holding
<1>7. Applied' /\ Written'
  BY DEF LinkInv, Applied, Written, L!Alive
<1>8. L!TokenIsKept'
  BY <1>3 DEF LinkInv, L!TokenIsKept, L!Callers, L!LinkAssumption
<1>. QED  BY <1>4, <1>5, <1>6, <1>7, <1>8 DEF LinkInv

LEMMA ExitOK ==
  ASSUME L!LinkAssumption, LinkInv, L!Exit
  PROVE  LinkInv'
<1>. USE DEF L!Exit
<1>1. L!NoBox \in L!Boxes /\ L!NoLoop \in [on: Nat, ending: Nat]
  BY DEF L!NoBox, L!Boxes, L!NoLoop
<1>2. \A p \in L!Callers : pc'[p] = "idle"
  BY StartingOK
<1>3. L!TypeOK'
  BY <1>1, StartingOK DEF LinkInv, L!TypeOK
<1>4. Locks'
  BY <1>2, StartingOK DEF Locks, Holding
<1>5. Loops' /\ Applied' /\ Written'
  BY <1>2 DEF Loops, Waits, L!NoLoop, Applied, Written, L!Alive
<1>6. L!TokenIsKept'
  BY DEF LinkInv, L!TokenIsKept
<1>. QED  BY <1>3, <1>4, <1>5, <1>6 DEF LinkInv

LEMMA StartOK ==
  ASSUME L!LinkAssumption, LinkInv, L!Start
  PROVE  LinkInv'
<1>. USE DEF L!Start, L!runs, L!request
<1>1. \A p \in L!Callers : pc[p] = "idle" /\ pc'[p] \in {"idle", "apply"}
  BY StartingOK DEF LinkInv, Written, L!Alive
<1>2. L!TypeOK'
  BY StartingOK DEF LinkInv, L!TypeOK
<1>3. Locks'
  BY <1>1, StartingOK DEF LinkInv, Locks, Holding
<1>4. ~Waits /\ ~Waits' /\ Applies'
  BY <1>1, StartingOK DEF Waits, Applies
<1>5. Loops' /\ Applied' /\ Written'
  BY <1>4 DEF LinkInv, Loops, Applied, Written, L!Alive
<1>6. L!TokenIsKept'
  BY <1>1 DEF LinkInv, L!TokenIsKept, L!Callers
<1>. QED  BY <1>2, <1>3, <1>5, <1>6 DEF LinkInv

-----------------------------------------------------------------------------
(* The steps and what the invariants say.                                  *)

LEMMA TokensStep ==
  ASSUME T!TokensAssumption, TokensInv, [T!Next]_(T!vars)
  PROVE  TokensInv'
  BY IssueOK, RevokeOK, CheckAndNoteOK, LookOK, RenamesOK, StatsOK, WriteFailsOK,
     TokensRestartOK, TickOK DEF T!Next

LEMMA TokensHold ==
  ASSUME T!TokensAssumption, TokensInv
  PROVE  T!TypeOK /\ T!TokensStand
<1>1. T!NeitherUndoes
  BY DEF TokensInv, Whole, Kept, T!NeitherUndoes
<1>2. T!RevokedIsRefused
  <2>. SUFFICES ASSUME ~crossed, NEW r \in Handlers, NEW v \in revoked,
                       v \in DOMAIN T!Reread(r).list
       PROVE  ~T!Live(T!Reread(r).list[v])
    BY DEF T!RevokedIsRefused
  <2>1. Agree(T!Reread(r).list, file.list) /\ file.list[v].revoked
    BY TokensRereadOK DEF TokensInv, Whole, Kept, T!Actors
  <2>. QED  BY <2>1 DEF Agree, T!Live
<1>. QED  BY <1>1, <1>2 DEF T!TokensStand, TokensInv

LEMMA LinkStep ==
  ASSUME L!LinkAssumption, LinkInv, [L!Next]_(L!vars)
  PROVE  LinkInv'
<1>1. ASSUME NEW r \in Handlers, L!RequestStep(r) PROVE LinkInv'
  BY <1>1, SaveCloudOK, ForgetCloudOK, RegisteredOK, ChangeOK, ChangeFailsOK DEF L!RequestStep
<1>2. ASSUME NEW p \in L!Callers, L!LinkStep(p) PROVE LinkInv'
  BY <1>2, ApplyFetchOK, ApplySendOK, ApplyStopOK, StopEndsOK DEF L!LinkStep
<1>3. CASE UNCHANGED L!vars
  <2>1. L!TypeOK' /\ Locks' /\ Loops'
    BY <1>3 DEF L!vars, LinkInv, L!TypeOK, Locks, Loops, Waits
  <2>2. Applied' /\ Written' /\ L!TokenIsKept'
    BY <1>3 DEF L!vars, LinkInv, Applied, Waits, Applies, L!Effective, L!HasToken, Written, L!Alive,
                L!TokenIsKept
  <2>. QED  BY <2>1, <2>2 DEF LinkInv
<1>. QED  BY <1>1, <1>2, <1>3, AggregatorEndsOK, SignalOK, StopLinkOK, ExitOK, StartOK DEF L!Next

LEMMA LinkHolds ==
  ASSUME LinkInv
  PROVE  L!TypeOK /\ L!RunsAsAnswered /\ L!OneAggregator /\ L!TokenIsKept
<1>1. L!RunsAsAnswered
  BY DEF LinkInv, Applied, Applies, L!RunsAsAnswered
<1>2. L!OneAggregator
  BY DEF LinkInv, Loops, L!OneAggregator
<1>. QED  BY <1>1, <1>2 DEF LinkInv

-----------------------------------------------------------------------------
(* The theorems.                                                           *)

(* The file of tokens, by itself: no change of it is undone, and a revoked *)
(* token is refused by the next check, unless another process writes       *)
(* between the steps of a write, for any number of requests that check,    *)
(* issue and revoke at once, of commands beside them, and whatever fails.  *)
THEOREM TokensStandAlways ==
  ASSUME T!TokensAssumption
  PROVE  T!Spec => [](T!TypeOK /\ T!TokensStand)
<1>1. T!Init => TokensInv
  BY TokensInitOK
<1>2. TokensInv /\ [T!Next]_(T!vars) => TokensInv'
  BY TokensStep
<1>3. TokensInv => T!TypeOK /\ T!TokensStand
  BY TokensHold
<1>. QED  BY <1>1, <1>2, <1>3, PTL DEF T!Spec

(* The link to the cloud, by itself: what runs is what the settings and    *)
(* the recorded answer ask for, when no change waits to be applied, in     *)
(* whatever order any number of changes was made and applied; no second    *)
(* aggregator is opened over the state directory of one that runs or is    *)
(* saving; a token the cloud issued is in the file, or about to be written,*)
(* until the owner forgets it or a fault takes it.                         *)
THEOREM LinkFollowsTheAnswer ==
  ASSUME L!LinkAssumption
  PROVE  L!Spec => [](L!TypeOK /\ L!RunsAsAnswered /\ L!OneAggregator /\ L!TokenIsKept)
<1>1. L!Init => LinkInv
  BY LinkInitOK
<1>2. LinkInv /\ [L!Next]_(L!vars) => LinkInv'
  BY LinkStep
<1>3. LinkInv => L!TypeOK /\ L!RunsAsAnswered /\ L!OneAggregator /\ L!TokenIsKept
  BY LinkHolds
<1>. QED  BY <1>1, <1>2, <1>3, PTL DEF L!Spec

(* The accounts, by themselves: who is logged in gave a password the admin *)
(* UI goes by, for any accounts, passwords and sessions, requests that     *)
(* wait while their password is compared, and commands that rewrite the    *)
(* file meanwhile.                                                         *)
THEOREM EntriesAreEarned ==
  ASSUME A!AccountsAssumption
  PROVE  A!Spec => [](A!TypeOK /\ A!EntryIsEarned)
<1>1. A!Init => AccountsInv
  BY AccountsInitOK
<1>2. AccountsInv /\ [A!Next]_(A!vars) => AccountsInv'
  BY AccountsStep
<1>3. AccountsInv => A!TypeOK /\ A!EntryIsEarned
  BY DEF AccountsInv
<1>. QED  BY <1>1, <1>2, <1>3, PTL DEF A!Spec

AccessInv ==
  /\ part = "tokens" => TokensInv
  /\ part = "accounts" => AccountsInv
  /\ part = "cloud" => LinkInv

LEMMA AccessInvariance == Spec => []AccessInv
<1>. USE AdminAssumption DEF AdminAssumption
<1>1. Init => AccessInv
  <2>1. ASSUME Init, part = "tokens" PROVE TokensInv
    BY <2>1, TokensInitOK DEF Init
  <2>2. ASSUME Init, part = "accounts" PROVE AccountsInv
    BY <2>2, AccountsInitOK DEF Init
  <2>3. ASSUME Init, part = "cloud" PROVE LinkInv
    BY <2>3, LinkInitOK DEF Init
  <2>. QED  BY <2>1, <2>2, <2>3 DEF AccessInv
<1>2. AccessInv /\ [Next]_all => AccessInv'
  <2>. SUFFICES ASSUME AccessInv, [Next]_all PROVE AccessInv'
    OBVIOUS
  <2>1. part' = part
    BY DEF Next, Alone, all
  <2>2. ASSUME part = "tokens" PROVE TokensInv'
    <3>1. [T!Next]_(T!vars)
      BY <2>2 DEF Next, Alone, all, T!vars, T!history
    <3>. QED  BY <2>2, <3>1, TokensStep DEF AccessInv
  <2>3. ASSUME part = "accounts" PROVE AccountsInv'
    <3>1. [A!Next]_(A!vars)
      BY <2>3 DEF Next, Alone, all, A!vars
    <3>. QED  BY <2>3, <3>1, AccountsStep DEF AccessInv
  <2>4. ASSUME part = "cloud" PROVE LinkInv'
    <3>1. [L!Next]_(L!vars)
      BY <2>4 DEF Next, Alone, all, L!vars, L!answer, L!runs, L!node, L!request
    <3>. QED  BY <2>4, <3>1, LinkStep DEF AccessInv
  <2>. QED  BY <2>1, <2>2, <2>3, <2>4 DEF AccessInv
<1>. QED  BY <1>1, <1>2, PTL DEF Spec

(* The same among the other parts of the admin UI: the tokens ...          *)
THEOREM OwnersTokensStand == Spec => []TokensStand
<1>1. AccessInv => TokensStand
  BY AdminAssumption, TokensHold DEF AdminAssumption, AccessInv, TokensStand
<1>. QED  BY <1>1, AccessInvariance, PTL

(* ... the accounts and sessions ...                                       *)
THEOREM OwnersEntriesAreEarned == Spec => []EntryIsEarned
<1>1. AccessInv => EntryIsEarned
  BY DEF AccessInv, AccountsInv, EntryIsEarned
<1>. QED  BY <1>1, AccessInvariance, PTL

(* ... what runs of the link to the cloud ...                              *)
THEOREM OwnersAnswerRuns == Spec => []RunsAsAnswered
<1>1. AccessInv => RunsAsAnswered
  BY LinkHolds DEF AccessInv, RunsAsAnswered
<1>. QED  BY <1>1, AccessInvariance, PTL

(* ... and the token it has of the cloud.                                  *)
THEOREM OwnersCloudTokenIsKept == Spec => []TokenIsKept
<1>1. AccessInv => TokenIsKept
  BY LinkHolds DEF AccessInv, TokenIsKept
<1>. QED  BY <1>1, AccessInvariance, PTL

=============================================================================
