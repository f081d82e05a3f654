# Antibot, specified

TLA+ modules of the bot filter in `src/`, the TLC configurations that check
them on small instances, and TLAPS proofs of what they promise for every
instance. Every definition is translated from the Go source; the comments in
the modules quote the documentation only to say which promise a property
states. `PROJECT.json` maps each definition to the lines it stands for.

## 1. The system

`antibot` is a reverse proxy on one node. A request is fingerprinted (TLS
ClientHello, HTTP/2 frames, headers), looked up in the *fact set*, decided by
the first rule that matches, forwarded or refused, and reported to three sinks:
the event log, the alerts and the aggregate. Three loops talk to the outside:
the fetcher of fact sets, the exchange of proposals for feedback, and the
sender of aggregates. `antibot-admin` is a second process for the owner, which
edits files the node watches and talks to it over a socket; the `antibot ...`
commands are further processes over the same files.

| Component | State it keeps | Operations | Talks to |
|---|---|---|---|
| Aggregate pipeline (`internal/aggregate`, `cmd/antibot/cloud.go`) | queue, open windows, closed windows, `state.json`, outbox directory, sender | `Write`, `add`, `closeWindows`, `flush`, `save`, `load`, `put`/`list`/`remove`, `drain`, `post`, start, stop | hot path, fact set version, the cloud |
| Fact set store and loader (`internal/catalog/store.go`, `fetch.go`, `cmd/antibot/facts.go`) | the set in force, the files `N.json`, `current`, the lock | `Install`, `Rollback`, `Open`, `Fetcher.Run`, commands `apply`, `fetch`, `rollback` | update service, cloud link, commands |
| Fact set contents, keyring (`catalog.go`, `keys.go`, `uafamily.go`) | a parsed set; the map of trusted keys | lookup, verify, `Keyring.Add` | fact and proposal fetchers |
| Rate limiter (`internal/rules/limit.go`) | 64 shards of ring buffers by key | `Exceeded`, `Cleanup` | every handler |
| Rule matching (`set.go`, `rule.go`, `condition.go`) | none | `Evaluate` | limiter, facts |
| Rule file (`file.go`) | `rules.json`, its time and size, the set in force | `Reload`, `Write`, `Add`, `Remove`, `Toggle`, `SetMode` | node, admin, commands, proposals |
| Proposals and feedback (`internal/proposals`) | `proposals.json`, `proposal-decisions.json`, `proposals-feedback.json` | `List`, `Accept`, `Reject`, `Fetcher.Once`, `Sender.Once` | rule file, core's rules, update service, the cloud |
| Cloud link (`internal/cloudlink`, `cmd/antibot/cloud.go`) | the owner's answer and its file, running loops | `Answer`, `Keep`, `Forget`, `apply`, `Register`, `stop` | aggregate, fetchers |
| Event log (`internal/events`) | queue, current file, retained files | `Write`, `Close`, rotate, remove old | hot path |
| Alerts (`internal/alerts`) | ring of minutes, firing alerts, delivery queue | `Write`, `check`, `deliver`, `Test` | hot path, mail and command |
| Domains and routing (`internal/domains`, `internal/proxy/router.go`) | `domains.json`, route table | `Add`, `Remove`, `Reload`, swap | node, admin |
| Certificates (`internal/edgetls`) | pairs on disk, snapshot in force | `Reload`, `Install`, self-signed | TLS handshakes |
| Crawler pass (`internal/crawlers`) | one watched file | `Save`, `Reload` | rules |
| Proxy handler (`internal/proxy/handler.go`) | none across requests | `ServeHTTP` | everything above |
| TLS, HTTP/2 and header fingerprints (`tlsfp`, `h2fp`, `headersfp`) | bytes of one connection | intercept, parse, hash | handler |
| Control socket (`internal/control`) | the socket | the admin's requests | components above |
| Admin accounts, sessions, tokens, pages (`internal/admin`) | `users.json`, sessions in memory, `tokens.json` | login, set password, create and revoke tokens | browser, API clients |
| Startup, commands, replay, summary, configuration | none, or read once | wiring, printing, pure computations | all |

What is hard in it:

- **Interleaving.** Handlers, `Run`, the sender, cancelled fetchers nobody
  waits for, watchers and the admin's edits run at once; several locks guard
  one process only while another process writes the same directory.
- **Crashes.** Aggregates, fact sets, decisions, rules are several files each;
  the process may die between any two writes.
- **Delivery.** The cloud may take a batch and not say so; the node repeats it
  and relies on a key that must be the same the second time.
- **Order.** A request's time is taken when it arrives and used under a lock
  later; a window is closed before its last event is counted.
- **Limits.** Queues drop, the outbox trims, a shard refuses new keys, a ring
  grows to a limit that is no power of two.

What makes each component correct, in one sentence each:

- *Aggregate*: every request is counted once, or lost by a rule the
  documentation names; batches leave in order; none stays behind.
- *Fact set*: the facts in force never get older or shrink sharply, the disk
  agrees with memory after a restart, and the node reaches what is offered.
- *Rate limiter*: no more than the limit in any window, a client that slows
  down is let in again, memory bounded.
- *Rule file, crawlers, domains*: no edit is lost, what is in force is what the
  file says once nothing changes any more.
- *Proposals*: an accepted proposal is a rule, a refused one is not, and the
  cloud is told what happened.
- *Cloud link*: the loops that run are the ones the owner's last answer allows.
- *Event log*: nothing is written after close, files are bounded, none is lost.
- *Alerts*: each alert fires once per crossing and clears; sums are of the last
  minutes.
- *Certificates*: a site that had a certificate keeps one.
- *Admin*: a session or token that was ended is not honoured.

The hazards behind these sentences are listed line by line in `PROJECT.json`.

## 2. The modules

| Module | What it is |
|---|---|
| `Aggregator` | the aggregate pipeline of one node, its two goroutines, its disk, the hot path and the cloud |
| `EventFate` | what that pipeline promises of one request, abstractly |
| `FactStore` | the fact set store of a node, its fetchers and the `antibot facts` commands over one directory |
| `RateLimiter` | one shard of the limiter, the handlers that ask it, its cleanup, the rule being edited |
| `SlidingWindow` | what a rate rule promises, abstractly |
| `RuleEdits` | the edits of a list of rules, as functions |
| `RuleFile` | `rules.json`, the requests and processes that edit it, the core that reads it |
| `RuleBook` | what the file promises its editors, abstractly |
| `Proposals` | proposals, decisions and the feedback of them, composed with `RuleFile` |
| `EventLog` | the event log of a node: queue, files, retention, the handlers, close and kill |
| `Alerts` | the ring of minutes, the triggers, the messages and their delivery |
| `RuleSet` | what a condition says of a request, the order of the rules, what a set decides; functions |
| `WindowRows` | the rows of one window of the aggregate and the estimates of distinct addresses; functions |
| `Reports` | replay, summary, table of rules, pages of events, read off a log; functions |
| `Traffic` | requests through the handlers of a node, over `RuleSet`, with `Reports` and `WindowRows` read off what they log |
| `CloudLink` | the owner's answer and its token, the supervisor of the loops, start and end of a node |
| `Domains` | `domains.json`, its editors, the watch, the router that is built and swapped in |
| `PairFiles`, `Certificates` | the files of certificates; the set of certificates over them that handshakes are answered from |
| `Crawlers` | the file of the crawler pass, the admin's memory of it and the core's |
| `Tokens` | the file of API tokens, the admin process and the commands that edit it |
| `Accounts` | the file of accounts and the commands that edit it, the admin UI's copy, who is logged in |
| `NodeRecords` | what a node keeps of what it was told and of what it saw: `FactStore`, `EventLog` or `Traffic`, as one specification |
| `AdminChanges` | what the owner changes: `Domains`, `Certificates`, `Crawlers`, `Tokens`, `Accounts` or `CloudLink`, as one specification |
| `MCAggregator`, `MCFactStore`, `MCRateLimiter`, `MCProposals` | the symmetry sets and values TLC uses |
| `MCNodeRecords`, `MCAdminChanges` | the values of `NodeRecords` and of `AdminChanges` |
| `AggregatorProofs`, `RateLimiterProofs`, `ProposalsProofs`, `AlertsProofs`, `NodeFilesProofs` (of `FactStore` and `EventLog`), `TrafficProofs`, `AdminSitesProofs`, `AdminAccessProofs` | the theorems |

Definitions named "Mutant of ..." are plausible mistakes: each is put in place
of the definition it follows to show that a property notices. Nothing else uses
them.

### Aggregator

An event is an identity and a window, batch or file is the set of events
counted in it. Window `n` is the n-th five minutes, `0` the zero `time.Time`.

- *Hot path.* `aggregateSink.Write` loads a pointer and then calls
  `Aggregator.Write`: two actions, `Serve` and `Write(h)`, with the requests in
  between in `holding`, because the pointer may be emptied in the meantime.
- *Run.* One `select`: `Add` is the queue case, `Tick` the timer case. What a
  tick does to memory is one action; every disk write of `flush` is one of its
  own, so that a crash, the sender and the hot path come between them:
  `PutBatch` per batch, then `FlushSave`, which drops the packed windows from
  `pending`, saves and pokes. `IsNextBatch` says which windows the greedy loop
  of `flush` puts into one batch; `BatchKey` is `batchID`.
- *Sender.* `drain` lists once (`SenderList`), then for each key reads
  (`SenderRead`), posts (`SenderPost`, with the four outcomes of `post`, and a
  fifth the code cannot see: the cloud took it and the answer was lost) and
  removes (`SenderRemove`). `SenderWait` is the select in `run`.
- *Disk.* `stateFile` and `outbox` survive `Crash`. A failed write leaves the
  old file, as `rename` does. The failures are chosen per run by `Faults`.
- *Life.* `Open` with `Load`, `Stop`, `FinalSave`, `Crash`. A second aggregator
  in the same process gets a new queue, so a late request writes into one that
  nobody reads: `Open` forgets it.

Two assumptions about time are in guards: `ClockAdvance` waits for a save after
the grace of a window (Run ticks every second and saves every minute, a window
lasts five), and an event is stamped with the window in which it arrived.

Not in it: what is in a window, which is `WindowRows`, the length of the backoff, and
a batch that was answered and whose file cannot be removed (`outbox.go:92`), which is
posted again, under its key.

### FactStore

A set is its version. `set[Node]` is the pointer the handlers read; a command is
a process with a `Store`, and so a pointer and a lock, of its own. `Install` is
five steps, because that is where others come in: `CheckVersion` (no lock),
`CheckShrink` (no lock, the set in force loaded again), `WriteSet` (the lock is
taken, `N.json` written), `PointCurrent`, `Swap` with the sweep. `Fetch` is
`Fetcher.Once`: `Ask`, `Download`, `Unanswered`. `Start` and `Cancel` are what
`cloudLink.apply` does with a fetcher: a cancelled one is not awaited and
finishes an install it has begun. `Restart` is a killed node that starts again;
a command that is interrupted is one that takes no further step.

`Small` are the versions with less than half of the rows of the others, which is
all `checkShrink` asks. Signature and hash checks come before anything is read
or written and end as a failed download (`Unanswered`).

### RateLimiter

`entries` is the map of one shard, each with its ring: `stamps`, `start`,
`length`, as in the code, indexed from 1 here. `Exceeded` is one action, since
it runs under the lock of the shard; `Arrive` is not part of it, because the
time is taken when the handler starts. `Tick` lets a request take at most
`MaxDelay` steps to its decision. `ChangeLimit` edits the rule: an entry whose
limit differs starts anew. `Sweep` is the cleanup of one shard, which goes by the
clock and not by the times of the requests under way. `passed`, `decided` and
`overtaken` are history: what was let through, the latest time decided, and the
keys a request of which was overtaken, by a later one that was decided before it
or by the cleanup, which removed an entry it was to be counted with (`Misses`).

Only the limit is edited here. The code takes the window from the rule as well, at
every request and without starting anew; an edited window, two rules over one
limiter and the 63 other shards are not modelled.

### RuleFile and Proposals

A rule is its id with `enabled` and `mode`; `RuleEdits` says what each edit
makes of the list. An edit is two steps, because that is where others come in:
`Read` (the lock on edits is taken, the file read and the edit found to apply)
and `Replace` or `WriteFails`. `Handlers` are requests of the admin, which share
one lock; `Commands` are processes of their own, the owner's text editor among
them. `raced` is history: the editors whose reading another process has
overtaken. `Scribble` and `Mend` leave the file unreadable and repair it.

The core's side is `reloadLocked` in two steps, `Stat` and `Load`, since the file
may be replaced between them. Of the time and size the model keeps whether they
are still the file's (`known`), hence assumes that every replacement gives the
file another time. The admin and the commands have a set of their own, which
`Write` rereads and no decision depends on; it is left out, but for an unreadable
file, which makes `Write` return an error after the rename (`DecideFails`).

`Proposals` extends it. `Accept` is the edit of `RuleFile` followed by the
decision (`Decide`, `DecideFails`), under `Store.mu` (`deciding`); `Reject` is one
step, as the file is its only write. `Fetch` replaces the list. The Sender is
`FeedbackStarts` (decisions read), `FeedbackComputes` (list and rules in force
read, at one moment here; items computed, what was already sent left out, the
first `MaxItems` kept), the post with its three outcomes, the cloud having taken
it without the node hearing so among them, and the saving of what was sent.
`Became`, `ActedOn` and `Outcome` are `computeItems`.

A proposal and the rule it carries have ids of their own (`RuleOf`). The runs give
them one value, as every example in `docs/en/protocol/proposals.md` does.

Not in it: a file removed by hand, the expiry of proposals and the filter of
`List`, edits of a rule's text and so of its hash, by which an advice names it,
the length of the waits.

### EventLog

A line is the request it is about, a file the sequence of its lines, a size a
number of lines, a file's name its day and number, and the clock goes in days, which
is all the log asks of a time. `Report` is `Log.Write` at the
end of a request, `ReportPanics` the same after `Close` has closed the queue: the
send panics and `net/http` recovers. `run` is one `select`: `LogWrites`,
`LineFails`, `LineRefused` and `OpenFails` are the ways `write` can end,
`RemoveOld` is the cleanup, `RunEnds` the end of the closed queue. `freeName` is
`FreeName`. `LineRefused` is there because an encoder of `encoding/json` that has
failed once returns its error ever after, so after one failed write nothing is
written until the file is closed; `Torn` and `Joined` are what such a write leaves
in the file and what the next line becomes behind it. The cleanup goes by names
and may remove the file that is open (`unlinked`). `dropped` starts anew with the
process. `ReadBefore` is the order in which `events.Read` gives the lines.

Not in it: a file the cleanup cannot remove (`log.go:241`), which stays until the next
one; and a second line torn behind a torn one is `Joined` as a whole one would be, since
neither can be read.

### Alerts

A slot of the ring is the set of the requests counted in it, time is in minutes.
`Check` is `traffic`, `node` and what `transition` does under its lock; the
messages it makes are enqueued one by one after the lock (`Enqueue`), taken by
`deliverAll` (`Deliver`) and run (`Delivered`). The two sums of a check are taken
together here; a request counted between them belongs to one of them only.
`LogDrops` is the full queue of the event log. All of it is memory, so one life of
the process is modelled. `found` is history: when a check last found what a firing
trigger is about.

Not in it: the probes of certificates, disk, fact set and outbox, which go through
the same transitions; `Test`; the history's length; seconds within a minute.

### RuleSet, WindowRows, Reports and Traffic

`RuleSet` is `internal/rules` without the limiter's memory: what compiles
(`Builds`), what a condition says (`Matches`), the order of the rules
(`Effective`, `Before`) and the walk over them (`Decide`). A text is the sequence
of its parts, a host of its labels, an address of its octets, so that prefixes,
suffixes, patterns and networks are what they are in the code; of the fields of a
request there is one or two of each kind. A condition is a tree in JSON; here
`Conditions` has its nodes by name, each with the members its JSON has and the names
of its parts, and a rule has the name of the root, so that compiling and matching are
recursive functions on the names. The counter of frequency is the sequence of its
stamps here (`Stamps`); `RateLimiter` has the ring.

`WindowRows` is `window.go` and `sketch.go`: the key an event is counted under,
the counters, the rows past `LiveLimit`, which go to an overflow, the row of the
rest on closing, the merging of two sketches. `Reports` is `replay.Run`,
`summary.Of` with its breakdowns, percentiles, series and filters, the rows of the
rules page and the pages of events. What goes over lines, rules or values one after
another is a recursive function of how many there were (no module here declares a
RECURSIVE operator), so that there are theorems about it.

`Traffic` gives them something to be about. `Arrive` takes the time of a request,
`DecideRequest` asks the rules in force at that moment, `Finish` answers and
writes the line; the list may be replaced (`Reload`) and the clock go on in
between. `ClientAddr` is how far a chain of proxies is believed. The properties
read `Replay`, `Summary`, `Close` and `Pages` off `log` once no request is under
way, and compare them with one another and with what they say they count.
`overtaken` is history: the log is in the order requests end, not in that in which
they were decided. A replay decides every line of the log, also those of requests the
handler passed before it asked the rules, of the own networks and verified crawlers;
`PassedBefore` are those lines, and the properties say what follows from it
(section 4).

Not in them: breakdowns by user agent, path, JA4 and operator (they are the same
breakdown over another value), the sorting and the top of a breakdown, the
grouping of sites, rules over fields of the fact set (their kinds are those of
the fields that are there).

### CloudLink

`SaveCloud`, `ForgetCloud` and the registration are the requests of the admin UI
over the control socket; `Change` is `Store.change`, the file and then the memory;
each change is followed by `apply` in the same goroutine. `apply` is two steps and
a half: `ApplyFetch` takes the lock and starts or cancels the fetching,
`ApplySend` and `ApplyStop` the aggregate, and `StopEnds` is the waiting with the
lock held for an aggregator that is ending (`AggregatorEnds`). `Signal`,
`StopLink`, `Exit` and `Start` are the life of the node. A registration is two
changes, `Keep` and `Answer`, with an `apply` after each: `due` says who has the
second still to make. What may fail is `Faults`: a write, the opening of an
aggregator, an answer of the cloud that is not heard, a kill.

`Effective` is what is asked for, a token in the settings file before the owner's
answer. Addresses and dates decide nothing and are left out. What the loops do is
`Aggregator` and `FactStore`, whose starts and stops are these.

### Domains

`AddDomain` and `RemoveDomain` read, `Write` replaces: no lock is around both, so
editors lose each other's changes, and the properties do not claim otherwise. The
core's `Reload` is run by the watch and by the request that made a change:
`Stats`, `Loads` under `mu`, then, after it, `Builds` and `Swaps`, which two
reloads may do in any order (`crossed`). `Scribble`, `Mend`, `RemoveFile` are
hands. `To` and `Named` are the route table: an exact name before the longest
pattern. `steady` is history: the sites that every list since the core started has
named at one server.

### PairFiles and Certificates

`PairFiles` is the disk: uploads put the key in place and then the chain,
hands put either. `Certificates` is `edgetls.Set`: the scan takes the files one by
one, and the snapshot is swapped in when it has ended; `Get` is the choice
for a name. Errors of a place leave the other places alone. Chain and key of a pair are
read in one step (`set.go:166` reads one after the other), and the listing and the
snapshot before it in one.

### Crawlers

Two processes, a memory of the file in each. `Hold` and `Release` work on a copy
of the settings that shares its list with those in force, and `Release` deletes
in place: it changes the settings in force, and drafts that share the list, before
anything is written. Two holds at once may append into one array
(`crawlers_page.go:103`) and the second put its crawler over that of the first; here a
hold changes no other draft.

### Tokens

`Issue`, `Revoke` and the noting of a use read under the lock of their process,
write (`Renames`) and take the file's stamp after it (`Stats`); another process
may come between any two of these (`passed`, `crossed`). `Look` is every other
look at the file. A command is a process of its own.

### Accounts

An account is a name and its password. `CommandOpens` is `OpenUsers` with what `Set`
or `Remove` make of the list, `CommandWrites` the rename; nothing is locked, so of two
commands one change may be lost. The admin UI reads the file in `AdminStarts` and not
again. A request is what its form brought (`LogIn`, `Confirm`), then `Check`, which
takes half a second (`Checks`, `Refuses`), and then what follows (`GoesOn`):
`Sessions.Start` with the time the request came in, or the action of the page.
Attempts too many answer a request at any time (`TooMany`); their counter is
`RateLimiter`. A session remembers the password that opened it (`given`), as history.

## 3. What is checked

| Run | Asks | Bounds |
|---|---|---|
| `AggregatorSteady` | `TypeOK`; nothing is counted twice, nothing vanishes, windows arrive in order, while the process is not killed but stops and starts, the queue overflows, the outbox is trimmed, batch files cannot be written or read, the cloud refuses or loses answers | 3 events, 3 windows, 2 fact versions, queue 2, 2 rows a batch, outbox 2 |
| `AggregatorCrash` | `WindowsApart`, the pipeline implements `EventFate`, with crashes at every step and a failing outbox, one fact set | 2 events, 3 windows, queue 1, 2 rows, outbox 2 |
| `AggregatorDrain` | no wake-up of the sender is lost: every batch leaves (`FairSpec`), though saves fail | 2 events, 3 windows, queue 1, a row a batch, outbox 2 |
| `AggregatorLost` | finding: what `state.json` held is dropped | 2 events, 3 windows |
| `FactStoreCatchUp` | the node reaches what the service stays at, with a fetcher stopped and started, a command that applies and rolls back beside it, kills, failing writes (`FairSpec`) | 3 versions, 1 fetcher, 1 command |
| `FactStoreRace` | finding: two fetchers put the older set over the newer | 2 versions, 2 fetchers |
| `RateLimiterExact` | rings well formed, memory bounded, a refusal always has a reason inside the window, though two requests overtake each other and the cleanup overtakes either; for a key of which none was overtaken, the rate holds and the ring answers as `SlidingWindow` does | 2 keys for 1 place, 2 handlers, limits 1 and 3, window 2, 4 moments, 2 moments of delay |
| `OwnerDecides` | no edit of `rules.json` is lost (`ImplementsRuleBook`), the core ends up enforcing it, a decision stands, an accepted proposal has been added, the cloud is never told the opposite, and in the end the Sender has reported what is so; kills, an unreadable file, failing writes, lost answers (`FairSpec`) | 2 requests and a command, 3 changes of the file, 2 rules, 1 proposal, 1 advice, 1 item a post |
| `OwnerUntold` | finding: a report taken and not heard of is not corrected | 1 request, 3 changes, 1 proposal, no faults |
| `AlertsNode` | sums are exact (`CountsAreSound`, with the types), "back to normal" comes after a whole quiet window, every loss of the event log ends in an alert, the fate of every message becomes known (`FairSpec`) | 2 requests, 4 minutes, window 1, ring 3, 2 drops, queue 1 |
| `NodeRecords` | of `FactStore`: `current` names a file, facts never go back, never shrink, with kills and failing writes and one fetcher; of `EventLog`: a day is read in the order its requests ended, and nothing accepted is left behind before its time, with late requests of another day, a full queue, torn lines, files removed while open, close and kills; of `Traffic`: a replay of the whole log finds the rule, the shadows and the decision of every request the node put through the rules, but for the counts of those it passed before them (`ReplayAlwaysAgrees`), what it counts for a rule in shadow mode is what the rule will do (`ShadowsForetell`), summary, series and filters come to the same numbers, and a replay to those and the requests passed before the rules that the rules refuse (`AllNumbersAgree`), a summary that does not say so leaves nothing out (`SummariesAreWhole`), what goes to the cloud is true of the log (`AggregatesAgree`), a client does not choose its address (`ChainsAreNotForged`), following the pages finds every event once (`NoPageMisses`) | 5 versions, one small; 4 requests on 3 days, queue 2, 2 lines a file, 1 day kept; 2 handlers, 3 kinds of visit, 3 events, 2 moments, 4 lists of rules of which 2 build, 1 reload, 2 keys a breakdown, 2 rows a window, 2 keys an open window, 1 hash a sparse sketch, 2 buckets |
| `AdminChanges` | of `Domains`: a site no change touches is served all the while; of `Tokens`: neither process undoes the other's change, a revoked token is refused; of `CloudLink`: what runs is what was answered, there is one aggregator, a token is kept; of `Accounts`: who is logged in, or had the password asked for once more, gave one the admin UI goes by now (`EntryIsEarned`); of `Domains`, `Certificates`, `Crawlers` and `CloudLink`: what the file says comes to be in force (`ChangesComeInForce`, with fairness) | 2 names, 2 places, a request and a command, 3 writes; 2 paths, 2 certificates, 1 upload, 3 files put; 2 owners, 1 held, 3 edits; 2 tokens of one name, 2 requests and a command, 3 moments; 2 requests to the link at once, 3 in all, every fault; 1 name, 2 passwords, 2 requests and a command, 2 moments, 3 writes |

**Runs over several components.** In `NodeRecords` and `AdminChanges` a behaviour
is one of the components named, chosen at the start (`part`), since they share no
file and no memory with each other; the variables of the others keep one value. A
property of such a run is that of its component whenever the behaviour is one of
it: `ReplayAlwaysAgrees` is `ReplayAgrees` of `Traffic`, and so on. `NodeRecords`
and `AdminChanges` say so with constants for parameters, so that the theorems are
about the very specifications the runs check; the `MC` modules give them their values. `NothingLeftBehind` holds `FilesBounded` as well, `RunsAsAnswered` holds
`OneAggregator`, `TokensStand` is `NeitherUndoes` and `RevokedIsRefused`; each
component's `TypeOK` goes with one of its properties.

**Why the bounds are enough.** Three windows are the least in which a flush has
two windows behind one key, one of them closed later than the other; two rows a
batch with three events make it split them. A queue and an outbox of one or two
overflow at once. Five versions are one more than the sweep and an install in
progress can hold (`keep` is 3, as in the code), so that a version really goes;
Limits 1 and 3 with a ring that starts at 1
make it grow twice, the second time to a length that is no power of two and
wrapped; the code starts at 8, which only delays that. One place for two keys
fills the shard. Three changes of the file are a base that is read, another
process's write over it, and one more; two requests and a command are the least
in which the lock on edits holds for some of the editors and not for others. The
cloud proposes one rule and advises about another that is in force, so that a
post of one item leaves one behind. Two lines a file and four requests fill a file
and begin another, leave it for another day and come back; one day kept of three
lets the cleanup take a day that is still written to. A ring of three minutes for
a window of one and a baseline of one is used again after three, and four minutes
let a trigger fire, be over and fire again. Three events of two handlers are the
least in which one overtakes another and a third one is counted by both; the two
lists that build have between them every connective, both modes, every action and
two rules of one priority in the wrong order, the two that do not build a repeated
id and an operator of another kind of field; two rows a window fold a third; one
hash a sketch makes a second one dense. The visits are a client of its own
address, one behind a trusted proxy that forged its chain, and the monitor of the
own networks; an address that does not parse is among those `ChainsAreNotForged` puts
in front of a chain. One exact name and one pattern above it let either be the one that serves; two tokens of one name let one be
issued after the other was revoked. Three requests to the link are a
registration, a change while it is under way, and one more. One name with two
passwords is enough for a login by a password changed meanwhile, and removed and set
again it stands for another account; a session of one moment ends while a request of
it is checked.

**Why the passing runs leave things out.** `AggregatorSteady` has no crash and saves
succeed: with a crash, and either another fact set or a state that was not saved,
they do not all hold, for the reason `AggregatorLost` shows (section 4).
`AggregatorCrash` has one fact set and a state that can be saved to stay small; that
what it checks holds without either is `AggregateIsFinal` and `WindowsStayApart`
(section 5). In `NodeRecords` the fact set store has one fetcher: with two,
`FactStoreRace`. In `RateLimiterExact` the claims `RateHolds` and
`ImplementsSlidingWindow` are about requests of one key decided in the order of
their times, with the entry of the requests before them: a key whose requests
overtook one another, or whose entry the cleanup removed under a request that was to
be counted with it (`overtaken`), is let through beyond the rate by the code, and
only `BanEnds` and the bounds are claimed of it. Of the times, two moments of delay
are the least in which the cleanup comes between: it takes an entry a window and a
moment after its last request, and the request it then misses came within that
window. `ImplementsRuleBook` lets one kind of write lose an edit, `Overtaken`: one
whose base another process has replaced since, as the lock is one process's.
`FeedbackSettles` is about what the node *heard* the cloud take; what the cloud has
is `CloudIsTold`, which fails in `OwnerUntold`. `NothingLeftBehind` excepts what a
kill or a fault of the disk takes. `CountsAreExact` is claimed where the ring is
longer than window and baseline. `CurrentIsOnDisk` is claimed of a node without a
command beside it. `ReplayAlwaysAgrees` is of logs in which no request was overtaken. It goes over
the whole log and makes two exceptions, for what the code does (section 4): it claims
nothing of the answer to a request that was passed before the rules, and none of the
decision on one that a rate rule counts under one key with such a request before it
(`CountedApart`); rule and shadows it claims of every request the rules decided. The
visits have both cases: one list of rules blocks the monitor, the other limits it by the
user agent a client of its own has too. `AllNumbersAgree` has the same exceptions in
its conjunct about the replay, and counts the requests of the first: the number of the
replay is that of the overview and they. The row of a rule in `AllNumbersAgree` is claimed when no
list was replaced and nothing was truncated; `NoPageMisses` is of logs in the
order of arrival. `TokensStand` excepts `crossed`, a write of another process
between two steps of one, and `ListInForce` a router swapped in over a later one:
section 4 says what happens then. `TokenIsKept` excepts tokens the owner forgot and
those a fault lost on the way to the file. `ChangesComeInForce` says nothing of
accounts: the admin UI reads them when it starts (section 4), which `EntryIsEarned`
is about.

**Fairness.** `FairSpec` of `Aggregator` is weak fairness of each step of the
sender and of a flush in progress: goroutines run and timers fire. Requests,
ticks that flush, stops, crashes are not assumed. That the cloud answers now and
then is a hypothesis of `OutboxDrains` itself (`CloudAnswers`), and so is that
the node keeps running. `FairSpec` of `FactStore` is weak fairness for what a
fetcher does alone, strong for what may fail for a while and is retried: asking
and downloading (a backoff and another attempt), taking the lock, writing. The
hypothesis of `CatchesUp` is that the service stays at a version that is not a
shrunken one and that some fetcher is left running. `FairSpec` of `Proposals` is
weak fairness of the watcher and of the Sender's timer, strong fairness of its
computing, of a post that is taken and of saving: a kill, a refusal or a failed
write sends it back and it comes again. Nothing is assumed of the owner, the
cloud's list, crashes or faults; the hypothesis of `FeedbackSettles` is that what
became of an id no longer changes and that the file can be read. `FairSpec` of
`Alerts` is weak fairness of the clock, of the check, of the loop over its
messages, of `deliverAll` and of the command's end, which has a timeout. In
`AdminChanges` it is weak fairness of what runs by itself: the watch of the domains
and the certificates, with the reload a request has begun, the watch of the
crawlers, and in the link a change that was asked for, a registration that ends,
whoever has the lock or waits for it, and an aggregator that was told to end. The
owner's requests, hands, signals, kills and restarts are not assumed; the
hypothesis of `ChangesComeInForce` is that the node stays up.

**Deadlock** is checked in every run: time passing, publishing, a list of
proposals or a restart of the aggregator is always possible until the bounds are
reached, and then the loops go on; in `Traffic`, which the last request ends, the
run goes on with a stutter (`Over`).

## 4. What TLC refuted

Each is a run that must fail; the property states what the repository says.

1. `AggregatorLost` — "a crash of the process loses at most a minute of
   counting" (`docs/en/protocol/aggregate.md:258`). The key of a batch is that of
   its *first* window. After a crash between outbox and state the same windows may
   be packed again with newer ones behind them; `put` finds the file of that key,
   keeps it and succeeds, and `flush` drops the newer windows, although they had
   been saved.
2. `FactStoreRace` — "the version is higher than the current one — otherwise
   this is an attempt to roll back" (`docs/en/protocol/fact-set.md:366`). The
   check is made before the lock and not again.
3. `OwnerUntold` — "The node tells the cloud what became of each proposal"
   (`docs/en/protocol/proposals.md:281`). The Sender compares with the last
   report it *heard* was taken. The cloud takes `active` and the answer is lost;
   the owner puts the rule back into shadow; nothing differs from the `accepted`
   sent before, nothing is sent, and the cloud keeps `active`.

Read in the code and not given a run: for the same reason as in 1, "Even then
nothing is counted twice" (`aggregator.go:371`) fails when a fact set is replaced as
well — a window already sent inside one batch becomes the first of another, under a
key of its own (`NothingCountedTwice` under `AggregatorCrash` with two versions
shows it); and "the same key means the same windows" (`aggregate/outbox.go:48`) fails
without a crash when the listing for the trim does (`outbox.go:63`): the batch is
there, its windows stay pending, and the next flush packs them under that key with a
newer one, which `put` does not write and `flush` drops (`NothingVanishes` under
`AggregatorSteady` with the fault `"list"` shows it); after a rollback the command prints that the running node picks it up on
its next check (`cmd/antibot/facts.go:137`), while the node reads `current` only
when it starts; a set refused as shrunk is "not retried until a human looks"
(`catalog/fetch.go:155`) but the hint is not looked at when there is no error, so it
is asked for at every interval; "a graceful stop loses nothing"
(`aggregator.go:45`), except the requests that loaded the sink before it was
emptied; the stamps of the limiter "lie in ascending order" (`rules/limit.go:121`),
except when requests overtake; the cleanup removes an entry by the clock
(`rules/limit.go:173`), so that a request that waited for longer than the cleanup
takes to come round may be counted from nothing, though one of its window was let
through before it; `current` is "the applied version number"
(`docs/en/protocol/fact-set.md:382`), while a command that chose a version to roll
back to may find it swept by the node before it writes `current`, and the next start
is without facts; after a kill or a failed write between the rule and its decision
(`proposals/store.go:186`) the proposal can only be refused, though its rule is
there; an accepted rule is reported `removed` while the core has not read the file
yet, and always if its id is not the proposal's (`proposals/feedback.go:292`);
`Dropped` must be visible since "a silently dropping log is worse than no log at
all" (`events/log.go:64`), but events lost to a failed write, to every line the
encoder refuses after it, and to the panic after `Close` are not counted;
"ringMinutes covers the longest window plus the hour it is compared with"
(`alerts/alerts.go:131`) is a minute short when the window is an hour, since the
minute under way takes the slot of the oldest.

Of the reports: a replay is not what the node did, though "'it showed one thing on
history and did another in production' is impossible here in principle"
(`docs/en/rules.md:205`), it "produces exactly the same decision as the hot path on
the same signals" (`replay/replay_test.go:47`) and its numbers "must agree" with the
admin UI's (`summary/summary.go:3`). The handler passes requests of the own networks
and verified crawlers before it asks the rules; `Result.event`
(`replay/replay.go:126`) erases the recorded decision of every event, theirs too, and
puts it through the rules. So a replay of the very rules that were in force blocks the
monitor the node passed, counts it as blocked (`replay/replay.go:181`) where the
overview does not, and a rate rule counts it, so that a client's request behind it may
be refused in the replay alone. `ReplayIsAlwaysTheHotPath` is the claim as those
places make it; in `NodeRecords.cfg` TLC refutes it at once, with the monitor's
request. What does hold is `ReplayAlwaysAgrees`, and `AllNumbersAgree` counts the
requests by which the two numbers differ.

A row of the rules page is the row of the shadows when there is one
of the same id, so that a rule that was turned on during the period shows what it
would have done and not what it did (`admin/pages.go:526`); a replay goes over the
events "in the same order they happened" (`replay/replay.go:75`), which is the order
they ended in, so that a rate rule may come to another decision; pages of events
follow the moment of arrival (`docs/en/api.md:159`) over lines that are in the order
of their ends, so that a page may miss an event that ended late; a percentile is
"off by at most a quarter" (`summary/summary.go:449`) except below the first edge.

Of what the owner changes: two additions of a domain at once lose one
(`domains/domains.go:374`); of two routers built at once the older may be swapped
in last and stay until the next change (`cmd/antibot/serve.go:108`); a pair of
files caught between its two renames does not load, and its site is without a
certificate until the next look, though a set that cannot be read "keeps the
previous one" (`edgetls/set.go:168`); an install of the admin's own certificate
crossed by another leaves a pair that does not match; of tokens, "neither undoes
the other's change" (`admin/tokens.go:115`) fails when another process writes
between reading and rename, and since the stamp is taken after the rename, a
command's revocation may be unseen until the file changes again
(`cmd/antibot-admin/apitoken.go:155` says from the next request); a release of a
crawler that was refused is in force in the admin's memory all the same, as
`DeleteFunc` works on the shared list (`admin/crawlers_page.go:105`); of two
`accounts` commands at once one change is lost (`admin/auth.go:108`), and a password
is not "changed without a restart" (`docs/en/configuration.md:489`, `admin/auth.go:42`):
the admin UI reads the accounts when it starts (`cmd/antibot-admin/serve.go:37`), so
until it is started again the new password is refused, and the old one, or an account
that was removed, lets in.

Of the link: a registration in flight is not waited for by `stop` and may start the
aggregator again behind it, under a context nobody cancels (`cmd/antibot/cloud.go:265`);
a token that was issued and not yet kept is lost at a graceful end as well, and the
cloud issues no second one; a request that loaded the sink before it was emptied
writes into a queue nobody drains (`cmd/antibot/cloud.go:282`). Of the handler:
addresses in the forwarding header are not unmapped, so a network of four octets
does not match one written as mapped into sixteen.

## 5. What is proved

For every value of the constants, under the `ASSUME` of each module (the bounds
are positive numbers, the sets of identities finite, commands and fetchers are
different); no proof rests on anything else. `TrafficAssumption` says what the
configuration and the wire can be: the edges of the slots of time ascend, lists are
lists of rules (which need not compile), one at least builds, visits have the fields
of a request, the trailing zeros of a hash are a byte and every address of a visit
has a hash; the number of workers, visits, lists and conditions is any. What
`NodeRecords` and `AdminChanges` assume is the named assumptions of their parts;
theorems about one part by itself
(`TokensStandAlways`, `LinkFollowsTheAnswer`, `EntriesAreEarned`,
`SteadySitesAreServed`) have its assumption as their hypothesis.

Every invariant and every action property of a passing run is a theorem, or what
one of the listed theorems states under a hypothesis it names (`Alone`, `Steady`);
so are the three refinements. Each theorem follows from an inductive
invariant, of which the parts below say why the property alone is not one.

- `AggregatorProofs!TypeCorrect`: `Spec => [](TypeOK /\ PostInFlight)`. `TypeOK`
  is not inductive alone: `SenderPost` gives the batch in `post` to the cloud,
  which is a batch only because `post` is one whenever the sender is posting or
  removing. That is `PostInFlight`.
- `AggregatorProofs!WindowsStayApart`: `Spec => []WindowsApart`, the fact that a
  batch key rests on. It needs, besides the types, that what a flush has not put
  yet is pending (`FlushSave` keeps exactly that). Closing keeps windows apart
  since `openFrom` only grows in memory and every closed window is older; a
  crash and `Load` keep it because the same holds of the saved state.
- `AggregatorProofs!AggregateIsFinal`: `Spec => ImplementsEventFate`, with every
  crash and every fault. The fate of a request is read off where it is, so each
  step must take it nowhere it cannot come back from: `OnePlace` says that a request
  not yet served is nowhere, one in the hot path is there alone and once, one that
  was dropped there is nowhere else. A request both on the node and with the cloud
  is reported already, so that a batch posted twice or a state file older than
  memory takes nothing back; what a step only loses goes to `"lost"` and stays.
- Of an aggregator that is not killed and whose saves succeed (`Steady`, the faults
  of `AggregatorSteady`): `SteadyWindowsArriveInOrder`, `SteadyNothingVanishes`,
  `SteadyNothingCountedTwice`. What all three rest on is `Ordered`: a key that was
  given, wherever its batch is now, is older than every window that waits
  (`KeysOld`), so no two batches have one key (`KeysOnce`); `Saved` carries that over
  a stop and a start. For the order, `InOrder`: what the sender has not listed is
  newer than what it has, so what it posts is the oldest there is and newer than all
  the cloud has. For the others, `Kept` says where a counted event is, `Uncounted`
  and `EachOnce` that it is in one place only. `AggregatorLost` shows that `Steady`
  is needed.

- `NodeFilesProofs!FactsTypeCorrect`: `NodeSpec => [](part = "facts" => TypeOK /\
  Wanted)` of the fact set store; `Wanted`: a version being installed is one.
- `NodeFilesProofs!AloneCurrentIsOnDisk` and `AloneFactsNeverGoBack`: with one
  fetcher and no command (`Alone`), `NodeSpec => []CurrentIsOnDisk` and `NodeSpec =>
  FactsNeverGoBack`. The inductive invariant is `InOrder`: what is being installed
  is above every file, hence survives the sweep; from the check on it is above the
  set in force; and the set in force is never above `current`, which is what a
  restart loads. `FactStoreRace` shows that one fetcher is needed; the divergence
  about `current` above, that a command must not be beside it.
- `NodeFilesProofs!AloneNeverShrinks`: under the same assumption, `NodeSpec =>
  NeverShrinks`. The check is made two writes before the swap and a restart makes
  none, so `Whole` carries its outcome: what passed it is still no shrinking of the
  set in force, and neither is what `current` names.

- `RateLimiterProofs!RingsAndMemoryBounded`: every index the ring computes is
  inside it and no shard holds more keys than it may, whatever order requests
  come in and however the rule is edited. The work is in the lemmas about the
  ring (`EvictedOK`, `GrownOK`, `PushOK`): a full ring is shorter than the limit
  whenever a stamp is pushed, so growing makes room.
- `RateLimiterProofs!RateIsHeld`, `BanIsLifted`, `LimiterIsASlidingWindow`. What is
  let through is a history (`passed`) the code does not keep; `Kept` says that the
  ring, unrolled from its start, is the end of it (`Agrees`), and the lemmas
  `AgreesEvicted`, `AgreesPush` that no operation on the ring disturbs that,
  wrapped or growing. `BanIsLifted` needs no more: a ring that is full after the
  eviction has a stamp inside the window at its start. For a key that was not
  overtaken, `Undisturbed` adds that the history is in order, that two times a limit
  apart are a window apart, and that what the ring has given up is out of the window
  for good, also when the ring itself is gone and a request is still under way;
  from that the number of times in a window is the length of the ring, which is the
  answer `SlidingWindow` gives.

- `ProposalsProofs!NoEditIsLost`: `Spec => ImplementsRuleBook`. Its invariant is
  `FileInv`: an edit under way applies to what its editor read (`Ready`), at most
  one handler edits (`OneHandler`), and whoever has not been overtaken has read
  what the file holds (`UpToDate`). The last is what makes a `Replace` a `Change`
  of `RuleBook`; it is kept because a write marks every editor of another process
  as overtaken, and by the lock no second handler is left.
- `ProposalsProofs!AcceptedMeansAdded` and `DecisionsAreFinal` need `Locked`: what
  is being accepted is still undecided, and from its rule's write on it has been
  added. `TypeCorrect` is part of the same invariant: a `Replace` writes a legal
  list only because of `Ready`.
- `ProposalsProofs!TheCloudHearsTheDecision`: `Spec => []ToldAsDecided`. The Sender
  reads decisions, list and rules at three moments, and reports later still; what it
  says agrees with the decisions of then because decisions are final (`StepsAreFinal`):
  what it has read still stands (`ReadStands`), so every item of the report does
  (`ItemsSay`), and so does what the cloud has of it (`CloudSays`).

- `AlertsProofs!WatcherCountsRight`: `Spec => []CountsAreSound`. `RingExact`: a slot
  holds exactly the counted requests of the minute it is stamped with, and none was
  counted in a newer minute of the same slot. A late request whose slot is used again
  is counted nowhere, and no sum reaches back so far, since the window is shorter than
  the ring (an assumption: an hour at most, of the two the ring holds). The lemma
  behind is that of any stretch of minutes shorter than the ring no two share a slot.
- `AlertsProofs!NormalIsQuiet`: `Spec => ResolvedIsQuiet`. `ClearAfterFound`: the
  moment a firing trigger has been clear since is later than the last at which it was
  found, so that the window is counted from after every flap.

- `NodeFilesProofs!EventsAreInOrder` and `NoEventIsLeftBehind`: `NodeSpec =>
  []LogInOrder` and `NodeSpec => []NothingLeftBehind` (with `FilesBounded`). A new
  line goes behind all lines of its day only because a file is begun when those before
  it are full and not earlier (`FilesInTurn`), so the files behind the one with room
  are empty, also after days were left, come back to and cleaned up. The line is newer
  than those since every line's event has left the queue before (`LinesKnown`) and the
  queue is the end of what was accepted (`QueueFollows`). That there is a file with room
  among the numbers the model has is no accident of the bound: there are fewer files of
  a day than events (`Counted`). A file that is open has room unless its encoder has
  failed or it was removed (`OpenHasRoom`), which bounds it; one that was removed is of
  a day that is no longer kept, so nothing that is to be kept goes into it.

`TrafficProofs` is about a log of any length and lists of any rules. A function over
lines, rules or values is recursive in how many there were, and no theorem of the
library does induction over an operator; so each such function has a predicate that
says what it is of the first `n` of them (`UpTo`, `IsRun`, `IsBroken`, `IsGathered`,
`IsFolding`), and the set of the `n` for which there is one has `0` and, with an `n`,
the next (`Upwards`, from the library's well-founded induction over numbers). From
there on the proofs use only what the function returns:

- the helpers: what `At` takes is what lies at the places, in their order, once each
  (`AtTakes`); `Effective` has the enabled rules, each at the rank the order gives it
  (`EffectiveRanks`), whatever the order of the lines is (`EffectivePermuted`); a set
  decides by the first of its rules that stops a request (`Decides`).
- `TrafficProofs!ReplayAlwaysAgreesHolds`: `NodeSpec => []ReplayAlwaysAgrees`, with its
  two exceptions: nothing is said of the requests passed before the rules, and of the
  decision on another only if none of them was counted under its key before it. The
  property is about a quiet log, so it says nothing of the requests in between. `Played`
  does: there is one run of counts that fits the lines written and, behind them, the
  requests decided and not yet written, and it ends with what the limiter has now. It is
  kept because those requests are a queue (`Queued`) until one overtakes another, and
  needs that what is written of a request is what was decided of it (`LogTold`). A
  replay counts by `RunBy`, which has the requests passed before the rules as well; so
  its counts are not those of the node, and the induction is over what they have under
  one key (`SameUnder`): a decision keeps that the same if it was (`CountedAlike`), leaves
  it if it counts elsewhere (`CountedElsewhere`), and answers by nothing else of the
  counts, the rule and the shadows by nothing of them at all (`AnsweredAlike`).
  `ReplayInAnyOrderHolds` says the same of the lines in any order, of which the run has
  two (`EffectivePermuted`).
- `TrafficProofs!ShadowsForetellHolds`: `NodeSpec => []ShadowsForetell`, though a rule
  turned on ends walks it did not end before, and takes from the limiter what others
  behind it had. Whether a rule is named for a request depends on the rules before it
  only (`ReachedIsNamed`, `TurnedForetells`), and what has been counted is asked for
  after the walk.
- `TrafficProofs!AllNumbersAgreeHolds`: `NodeSpec => []AllNumbersAgree`. `HandsTold` and
  `LogTold` say of every request that what cut it off was a rule, that no rule is noted
  twice, and that the rule that won is active and those noted in shadow
  mode, as long as no other list was in force: so the two counters of a row have no
  event in common. A sum over the series is the number of the events of the class, each
  at one point of it (`SeriesSums`). What a replay refuses is what the node did, and what
  it refuses of the requests passed before the rules, of which the node refused none
  (`ReplayBlocks`).
- `TrafficProofs!SummariesAreWholeHolds`: `NodeSpec => []SummariesAreWhole`. A breakdown
  drops a value, or an address of a value, past `MaxKeys`, and only the former is said.
  That the latter is never missed rests on another breakdown of the same summary:
  addresses are values of one, so a summary that is not truncated has seen no more than
  `MaxKeys` of them (`IpsAreFew`). `PercentileIsClose` is about the slots.
- `TrafficProofs!AggregatesAgreeHolds`: `NodeSpec => []AggregatesAgree`. `Gathers` says
  that a row of an open window has exactly the events of its key and the overflow those
  of the keys without a row; it needs that a row is there as soon as there is room, or a
  key could have events in both. A sketch is turned into registers as soon as it is too
  large, in the order the events happen to come; what makes the sums true is that it
  depends on the set of its hashes alone (`SketchAdds`, `SketchMerges`). The rest is the
  union of what does not stay, whichever of equals that is, in any order (`FoldedIs`),
  and there is one exactly when there are events for it.
- `TrafficProofs!ChainsAreNotForgedHolds`: `NodeSpec => []ChainsAreNotForged`, for
  chains of any length. The last address that is not trusted is the same, one place
  further on (`ForgedInFront`); that it is the one in the log is part of `LogTold`.
- `TrafficProofs!NoPageMissesHolds`: `NodeSpec => []NoPageMisses`, for pages of one
  event and of two, and `NoPageOfAnySizeMissesHolds` for those of any size. What was
  found before the oldest of a page is what lies before it in the log (`FoundBefore`),
  since times ascend, and there is one function the pages can be (`PagesAre`), since
  each moment asked for is earlier than the last.

- `AdminSitesProofs!SteadySitesAreServed` (of `Domains` by itself) and
  `OwnersSitesAreServed` (in `AdminChanges`): `[]SteadySiteIsServed`, for any names,
  servers and settings. A list that reads has the steady sites, hence has the list in
  memory, hence every router built from it, also one swapped in late (`Readable`,
  `Remembered`, `Routed`); a broken file is never loaded. That a table sends a host
  anywhere at all rests on a lemma (`BestOK`): among the names that fit there is one
  better than all of them, since the lengths of the patterns are bounded by the host's.
  The types of `Certificates` and `Crawlers` are part of the second theorem.
- `AdminAccessProofs!LinkFollowsTheAnswer` (`RunsAsAnswered`, `OneAggregator`,
  `TokenIsKept` of `CloudLink`), `OwnersAnswerRuns` and `OwnersCloudTokenIsKept` (the
  same in `AdminChanges`), for any number of requests at once and every fault.
  `RunsAsAnswered` says nothing while the lock is held, so it is not inductive;
  `Applied` adds that when nobody is about to take the lock, its holder acts on what
  is asked for now. It is kept because a change leaves its author at `apply`, and the
  lock's next holder reads the answer anew. `Loops` says what is running while an
  aggregator is waited for, which needs `Locks`: who waits has the lock, so that
  nobody else starts one.
- `AdminAccessProofs!TokensStandAlways` and `OwnersTokensStand`: `[]TokensStand`.
  Unless another process wrote in between, what an actor is about to write has every
  token and every revocation of the file (`Based`), because a memory that has the
  file's stamp has its list (`Fresh`), and that survives a note of a use whose write
  failed (`Listed`).
- `AdminAccessProofs!EntriesAreEarned` and `OwnersEntriesAreEarned`:
  `[]EntryIsEarned`. Besides the types it needs that an admin UI that is down has no
  sessions and works off no request (`Silent`), since the next one starts with
  another copy of the accounts, and that what is under way brought a form (`Formed`).

Only model-checked: liveness (`OutboxDrains`, `CatchesUp`, `InForceFollows`,
`FeedbackSettles`, `DropsAreTold`, `MessagesSettle`, `ChangesComeInForce`), which under
fairness is out of the prover's reach. `NothingCountedTwice` with crashes is neither:
it does not hold once a fact set is replaced as well (section 4). What the abstract
values stand for (a text as the sequence of its parts, a condition as named nodes, an
address with its hash) is an abstraction of the model, about which nothing is proved.

## 6. What is not modelled, and the plan

Not meant to be modelled: parsers of byte formats (ClientHello, HTTP/2 frames),
hashing of headers, rendering of pages, argument parsing, translation texts, the
settings file. They are functions of their input with no state over time. The
self-signed fallback and the admin's own certificate are pairs of files like the
others, read once.

Not modelled yet, most important first:

1. The keyring that two fetchers share (`catalog/keys.go:197`), and the lookup in a
   parsed fact set.
2. The first TLS record that is read off a connection and replayed.
3. The breakdowns `Reports` leaves out, with the sorting and cutting of the rest,
   and the crawlers tab of the events page.
4. The probes of the alerts; rules over one limiter, all its shards.

Worth proving once they are stated: action properties of `Certificates` and
`Crawlers`, that a site whose pair stands keeps its certificate, and that the pass in
force was one the owner or a hand wrote.
