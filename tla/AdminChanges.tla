----------------------------- MODULE AdminChanges -----------------------------
(***************************************************************************)
(* What the owner changes through the admin UI and the commands: a         *)
(* behaviour is one of Domains, Certificates, Crawlers, Tokens, Accounts   *)
(* and CloudLink, which share no file and no memory. The variables the     *)
(* others have keep the value Idle.                                        *)
(***************************************************************************)
EXTENDS Naturals

CONSTANTS
  Requests,      \* requests of the admin UI to Domains, Certificates, Crawlers
  Handlers,      \* and those to Tokens, CloudLink and Accounts
  Commands,      \* commands that may run at once
  Asked,         \* the hosts clients ask for
  Names, Places, Upstreams, ByHand, MaxWrites,    \* of Domains
  Paths, Issued, NotAfter, LeafNames, MaxPuts,    \* of Certificates
  Owners, MaxHeld, MaxEdits,                      \* of Crawlers
  Values, Name, Days, UsedEvery, MaxTime,         \* of Tokens
  MaxRequests, Faults,                            \* of CloudLink
  Logins, Passwords, Keys, Ttl, MaxDays, MaxSaves \* of Accounts

Idle == 0

VARIABLES
  part,  \* which of the six
  routes, file, list, known, mu, router, pc, left, seen, built, writes,
  steady, crossed, disk, puts, job, reachable, current, scan, admin, core,
  draft, memory, now, next, used, passed, issued, revoked, state, config, life,
  asked, due, want, fetch, agg, sink, loops, begun, unopened, lost,
  sessions, form

all == <<part, routes, file, list, known, mu, router, pc, left, seen, built,
         writes, steady, crossed, disk, puts, job, reachable,
         current, scan, admin, core, draft, memory, now, next,
         used, passed, issued, revoked, state, config, life, asked, due,
         want, fetch, agg, sink, loops, begun, unopened, lost,
         sessions, form>>

D == INSTANCE Domains
C == INSTANCE Certificates
W == INSTANCE Crawlers
T == INSTANCE Tokens WITH Requests <- Handlers
L == INSTANCE CloudLink WITH Requests <- Handlers
A == INSTANCE Accounts WITH
  Names <- Logins, Requests <- Handlers, MaxTime <- MaxDays, MaxWrites <- MaxSaves

AdminAssumption ==
  /\ D!DomainsAssumption
  /\ C!PairFilesAssumption /\ C!CertificatesAssumption
  /\ W!CrawlersAssumption
  /\ T!TokensAssumption
  /\ L!LinkAssumption
  /\ A!AccountsAssumption

ASSUME AdminAssumption

onlyAccounts == <<sessions, form>>

notDomains == <<passed, disk, puts, job, reachable, current, scan, admin, core,
                draft, memory, now, next, used, issued,
                revoked, state, config, life, asked, due,
                want, fetch, agg, sink, loops, begun,
                unopened, lost, onlyAccounts>>
notCertificates == <<passed, routes, file, list, known, mu, router, left, seen,
                     built, writes, steady, crossed,
                     admin, core, draft, memory, now,
                     next, used, issued, revoked,
                     state, config, life, asked, due,
                     want, fetch, agg, sink, loops,
                     begun, unopened, lost, onlyAccounts>>
notCrawlers == <<passed, routes, list, known, mu, router, left, seen, built, writes,
                 steady, crossed, disk, puts, job,
                 reachable, current, scan, memory, now,
                 next, used, issued, revoked, state,
                 config, life, asked, due, want, fetch,
                 agg, sink, loops, begun, unopened, lost, onlyAccounts>>
notTokens == <<routes, list, known, mu, router, left, seen, built, writes,
               steady, disk, puts, job, reachable,
               current, scan, admin, core, draft, state,
               config, life, asked, due, want, fetch, agg,
               sink, loops, begun, unopened, lost, onlyAccounts>>
notCloud == <<passed, routes, file, list, known, router, left, seen, built, writes,
              steady, crossed, puts, job, reachable, current,
              scan, admin, core, draft, memory, now, next,
              used, revoked, onlyAccounts>>
notAccounts == <<passed, routes, list, known, mu, router, left, seen, built, steady, crossed,
                 disk, puts, job, reachable, current, scan, admin, core, draft, used,
                 issued, revoked, state, config, asked, due, want, fetch, agg, sink,
                 loops, begun, unopened, lost>>

NoAccounts == sessions = Idle /\ form = Idle

Init ==
  \/ /\ part = "domains" /\ D!Init /\ NoAccounts
     /\ disk = Idle /\ puts = Idle /\ job = Idle /\ reachable = Idle
     /\ current = Idle /\ scan = Idle /\ admin = Idle /\ core = Idle /\ draft = Idle
     /\ memory = Idle /\ now = Idle /\ next = Idle /\ used = Idle /\ issued = Idle
     /\ revoked = Idle /\ state = Idle /\ config = Idle /\ life = Idle
     /\ asked = Idle /\ due = Idle /\ want = Idle /\ fetch = Idle /\ agg = Idle
     /\ sink = Idle /\ loops = Idle /\ begun = Idle /\ unopened = Idle
     /\ lost = Idle /\ passed = Idle
  \/ /\ part = "certificates" /\ C!Init /\ NoAccounts
     /\ routes = Idle /\ file = Idle /\ list = Idle /\ known = Idle /\ mu = Idle
     /\ router = Idle /\ left = Idle /\ seen = Idle /\ built = Idle /\ writes = Idle
     /\ steady = Idle /\ crossed = Idle /\ admin = Idle /\ core = Idle
     /\ draft = Idle /\ memory = Idle /\ now = Idle /\ next = Idle /\ used = Idle
     /\ issued = Idle /\ revoked = Idle /\ state = Idle /\ config = Idle
     /\ life = Idle /\ asked = Idle /\ due = Idle /\ want = Idle /\ fetch = Idle
     /\ agg = Idle /\ sink = Idle /\ loops = Idle /\ begun = Idle /\ unopened = Idle
     /\ lost = Idle /\ passed = Idle
  \/ /\ part = "crawlers" /\ W!Init /\ NoAccounts
     /\ routes = Idle /\ list = Idle /\ known = Idle /\ mu = Idle /\ router = Idle
     /\ left = Idle /\ seen = Idle /\ built = Idle /\ writes = Idle /\ steady = Idle
     /\ crossed = Idle /\ disk = Idle /\ puts = Idle /\ job = Idle
     /\ reachable = Idle /\ current = Idle /\ scan = Idle /\ memory = Idle
     /\ now = Idle /\ next = Idle /\ used = Idle /\ issued = Idle /\ revoked = Idle
     /\ state = Idle /\ config = Idle /\ life = Idle /\ asked = Idle /\ due = Idle
     /\ want = Idle /\ fetch = Idle /\ agg = Idle /\ sink = Idle /\ loops = Idle
     /\ begun = Idle /\ unopened = Idle /\ lost = Idle /\ passed = Idle
  \/ /\ part = "tokens" /\ T!Init /\ NoAccounts
     /\ routes = Idle /\ list = Idle /\ known = Idle /\ mu = Idle /\ router = Idle
     /\ left = Idle /\ seen = Idle /\ built = Idle /\ writes = Idle /\ steady = Idle
     /\ disk = Idle /\ puts = Idle /\ job = Idle
     /\ reachable = Idle /\ current = Idle /\ scan = Idle /\ admin = Idle
     /\ core = Idle /\ draft = Idle /\ state = Idle /\ config = Idle /\ life = Idle
     /\ asked = Idle /\ due = Idle /\ want = Idle /\ fetch = Idle /\ agg = Idle
     /\ sink = Idle /\ loops = Idle /\ begun = Idle /\ unopened = Idle
     /\ lost = Idle
  \/ /\ part = "cloud" /\ L!Init /\ NoAccounts
     /\ routes = Idle /\ file = Idle /\ list = Idle /\ known = Idle /\ router = Idle
     /\ left = Idle /\ seen = Idle /\ built = Idle /\ writes = Idle /\ steady = Idle
     /\ crossed = Idle /\ puts = Idle /\ job = Idle /\ reachable = Idle
     /\ current = Idle /\ scan = Idle /\ admin = Idle /\ core = Idle /\ draft = Idle
     /\ memory = Idle /\ now = Idle /\ next = Idle /\ used = Idle /\ revoked = Idle /\ passed = Idle
  \/ /\ part = "accounts" /\ A!Init
     /\ passed = Idle /\ routes = Idle /\ list = Idle /\ known = Idle /\ mu = Idle
     /\ router = Idle /\ left = Idle /\ seen = Idle /\ built = Idle /\ steady = Idle
     /\ crossed = Idle /\ disk = Idle /\ puts = Idle /\ job = Idle
     /\ reachable = Idle /\ current = Idle /\ scan = Idle /\ admin = Idle
     /\ core = Idle /\ draft = Idle /\ used = Idle /\ issued = Idle /\ revoked = Idle
     /\ state = Idle /\ config = Idle /\ asked = Idle /\ due = Idle /\ want = Idle
     /\ fetch = Idle /\ agg = Idle /\ sink = Idle /\ loops = Idle /\ begun = Idle
     /\ unopened = Idle /\ lost = Idle

Alone(name, others) == part = name /\ UNCHANGED <<part, others>>

Next ==
  \/ Alone("domains", notDomains) /\ D!Next
  \/ Alone("certificates", notCertificates) /\ C!Next
  \/ Alone("crawlers", notCrawlers) /\ W!Next
  \/ Alone("tokens", notTokens) /\ T!Next
  \/ Alone("cloud", notCloud) /\ L!Next
  \/ Alone("accounts", notAccounts) /\ A!Next

Dvars == D!vars
Cvars == C!vars
Wvars == W!vars
Lvars == L!vars

\* The fairness of each part, of its own actions alone.
Fairness ==
  /\ \A a \in D!Reloaders : WF_Dvars(part = "domains" /\ D!Reload(a))
  /\ \A a \in C!Reloaders : WF_Cvars(part = "certificates" /\ C!Reloads(a))
  /\ WF_Wvars(part = "crawlers" /\ W!WatchCrawlers)
  /\ \A r \in Handlers : /\ WF_Lvars(part = "cloud" /\ L!Change(r))
                               /\ WF_Lvars(part = "cloud" /\ L!NotCreated(r))
  /\ \A p \in L!Callers : WF_Lvars(part = "cloud" /\ L!LinkStep(p))
  /\ WF_Lvars(part = "cloud" /\ L!AggregatorEnds)

Spec == Init /\ [][Next]_all /\ Fairness

(***************************************************************************)
(* The properties, each of its parts.                                      *)
(***************************************************************************)
(* A site that no change touches is served all the while (Domains); the    *)
(* certificates and the pass of the crawlers keep their types.             *)
SteadySiteIsServed ==
  /\ part = "domains" => D!TypeOK /\ D!SteadySiteIsServed
  /\ part = "certificates" => C!TypeOK
  /\ part = "crawlers" => W!TypeOK

(* No change of the tokens undoes another (Tokens).                        *)
TokensStand == part = "tokens" => T!TypeOK /\ T!TokensStand

(* Nobody is logged in by an account the admin UI did not start with       *)
(* (Accounts).                                                             *)
EntryIsEarned == part = "accounts" => A!TypeOK /\ A!EntryIsEarned

(* What runs is what was answered, and one aggregator of it (CloudLink).   *)
RunsAsAnswered == part = "cloud" => L!TypeOK /\ L!RunsAsAnswered /\ L!OneAggregator

(* A token the cloud has issued is on disk (CloudLink).                    *)
TokenIsKept == part = "cloud" => L!TokenIsKept

InForce ==
  CASE part = "domains"      -> D!ListInForce
    [] part = "certificates" -> C!CertificatesInForce
    [] part = "crawlers"     -> W!InForce
    [] part = "cloud"        -> life = "up" => L!AnswerInEffect
    [] OTHER                 -> TRUE

(* Once the owner leaves it alone, what is in the file is in force, for    *)
(* good: the list of domains, the certificates, the pass of the crawlers,  *)
(* and the cloud box in a node that stays up.                              *)
ChangesComeInForce ==
  <>[](part = "cloud" => life = "up") => <>[]InForce
=============================================================================
