----------------------------- MODULE CloudLink -----------------------------
(***************************************************************************)
(* The link of a node to the cloud: what the owner answered, the file it   *)
(* is kept in, the token, and the supervisor that starts and stops the     *)
(* fetching of the bases and the sending of the aggregate accordingly      *)
(* (internal/cloudlink, cmd/antibot/cloud.go), with the requests of the    *)
(* admin UI that come over the control socket (internal/control,           *)
(* admin/cloud_page.go) and the start and the end of the node (serve.go).  *)
(*                                                                         *)
(* The loops themselves are FactStore's Fetch and Aggregator's Run; here   *)
(* they run, are ending, or have ended.                                    *)
(***************************************************************************)
EXTENDS Naturals, FiniteSets

CONSTANTS
  Requests,     \* requests of the admin UI that may be under way at once
  MaxRequests,  \* bound: requests that are begun
  Faults        \* what may fail: "write", "open", "unheard", "kill"

Main == "main"  \* the goroutine of serveCommand

LinkAssumption ==
  /\ IsFiniteSet(Requests) /\ Main \notin Requests /\ "free" \notin Requests
  /\ MaxRequests \in Nat
  /\ Faults \subseteq {"write", "open", "unheard", "kill"}

Callers == Requests \cup {Main}

VARIABLES
  disk,     \* the file of cloudlink.Store
  state,    \* cloudlink.Store.state
  config,   \* what the settings file says: a token, whether facts are on
  issued,   \* the cloud has issued a token for this installation
  life,     \* "up" | "ending": the context is done | "stopped" | "down"
  mu,       \* who holds cloudLink.mu, or "free"
  pc,       \* where each caller is
  asked,    \* the checkboxes of each request
  due,      \* the requests that registered and have their answer to record
  want,     \* what effective() gave the caller that holds mu
  fetch,    \* cloudLink.fetch is not nil
  agg,      \* cloudLink.agg is not nil
  sink,     \* aggregateSink.ptr is not nil
  loops,    \* the aggregators whose Run goes on: "on", "ending"
  begun,    \* how many requests were begun
  unopened, \* history: the last Open of an aggregator failed
  lost      \* history: the owner forgot a token, or a fault lost one

vars == <<disk, state, config, issued, life, mu, pc, asked, due, want, fetch,
          agg, sink, loops, begun, unopened, lost>>
answer == <<disk, state, issued, lost>>
runs == <<fetch, agg, sink, loops, unopened>>
node == <<config, life>>
request == <<asked, due, begun>>

(***************************************************************************)
(* State, as far as anything depends on it: a token comes with both        *)
(* addresses, and the dates decide nothing.                                *)
(***************************************************************************)
State == [answered: BOOLEAN, facts: BOOLEAN, aggregates: BOOLEAN, token: BOOLEAN]
Boxes == [facts: BOOLEAN, aggregates: BOOLEAN]
Unasked == [answered |-> FALSE, facts |-> FALSE, aggregates |-> FALSE, token |-> FALSE]
NoBox == [facts |-> FALSE, aggregates |-> FALSE]
Configs == [token: BOOLEAN, facts: BOOLEAN]

\* cloudLink.effective: a token in the settings file outranks the answer.
HasToken == config.token \/ state.token
Effective == [facts |-> (config.token \/ state.facts) /\ config.facts /\ HasToken,
              aggregates |-> (config.token \/ state.aggregates) /\ HasToken]

NoLoop == [on |-> 0, ending |-> 0]
Resting == [p \in Callers |-> "idle"]
Starting == [Resting EXCEPT ![Main] = "apply"]

\* serveCommand: the answer is read, the link started.
Init ==
  /\ disk = Unasked /\ state = Unasked /\ issued = FALSE /\ lost = FALSE
  /\ config \in Configs /\ life = "up"
  /\ mu = "free" /\ want = NoBox /\ pc = Starting
  /\ asked = [r \in Requests |-> NoBox] /\ due = {} /\ begun = 0
  /\ fetch = FALSE /\ agg = FALSE /\ sink = FALSE /\ loops = NoLoop
  /\ unopened = FALSE

Goes(p, from, to) == pc[p] = from /\ pc' = [pc EXCEPT ![p] = to]
Alive == life # "down"

\* The control socket is served once the link is started.
Serving == life = "up" /\ pc[Main] = "serving"

(***************************************************************************)
(* The owner's requests.                                                   *)
(***************************************************************************)
\* saveCloud asks for the state first, and by the token in it decides
\* whether to register or to answer. With a token in the settings file, or
\* when the core is not there, nothing is changed.
SaveCloud(r) ==
  /\ Serving /\ ~config.token /\ begun < MaxRequests
  /\ begun' = begun + 1
  /\ \E b \in Boxes :
       /\ asked' = [asked EXCEPT ![r] = b]
       /\ Goes(r, "idle", IF (b.facts \/ b.aggregates) /\ ~HasToken
                          THEN "register" ELSE "answer")
  /\ UNCHANGED <<answer, runs, node, mu, want, due>>

ForgetCloud(r) ==
  /\ Serving /\ ~config.token /\ begun < MaxRequests
  /\ begun' = begun + 1
  /\ Goes(r, "idle", "forget")
  /\ UNCHANGED <<answer, runs, node, mu, want, asked, due>>

\* Register is answered: 201 the first time this installation asks, 409
\* ever after, or a refusal that changes nothing.
Created(r) ==
  /\ Alive /\ ~issued /\ issued' = TRUE
  /\ Goes(r, "register", "keep")
  /\ UNCHANGED <<disk, state, lost, runs, node, mu, want, request>>

NotCreated(r) ==
  /\ Alive /\ Goes(r, "register", "idle")
  /\ UNCHANGED <<answer, runs, node, mu, want, request>>

\* The cloud issued a token and the answer was lost on the way, or the
\* admin had stopped waiting, which cancels the context of the request.
CreatedUnheard(r) ==
  /\ "unheard" \in Faults /\ Alive /\ ~issued
  /\ issued' = TRUE /\ lost' = TRUE
  /\ Goes(r, "register", "idle")
  /\ UNCHANGED <<disk, state, runs, node, mu, want, request>>

\* Store.Keep, Store.Answer, Store.Forget.
Kept(s) == [s EXCEPT !.token = TRUE]

\* Mutant of Answered: the answer is written as a state of its own.
AnsweredAnew(s, b) ==
  [Unasked EXCEPT !.answered = TRUE, !.facts = b.facts, !.aggregates = b.aggregates]

Answered(s, b) ==
  [s EXCEPT !.answered = TRUE, !.facts = b.facts, !.aggregates = b.aggregates]

Forgotten(s) == [s EXCEPT !.token = FALSE, !.facts = FALSE, !.aggregates = FALSE]

Changing(r) == Alive /\ pc[r] \in {"keep", "answer", "forget"}
Changed(r) == CASE pc[r] = "keep"   -> Kept(state)
                [] pc[r] = "answer" -> Answered(state, asked[r])
                [] pc[r] = "forget" -> Forgotten(state)

\* Store.change: the file and then the state, under the lock of the store;
\* the watchers are called after it is released. Register records the
\* answer when the change that keeps the token has returned.
Change(r) ==
  /\ Changing(r)
  /\ disk' = Changed(r) /\ state' = Changed(r)
  /\ lost' = (lost \/ (pc[r] = "forget" /\ state.token))
  /\ due' = IF pc[r] = "keep" THEN due \cup {r} ELSE due \ {r}
  /\ pc' = [pc EXCEPT ![r] = "apply"]
  /\ UNCHANGED <<issued, runs, node, mu, want, asked, begun>>

ChangeFails(r) ==
  /\ "write" \in Faults /\ Changing(r)
  /\ lost' = (lost \/ pc[r] = "keep")
  /\ due' = due \ {r}
  /\ pc' = [pc EXCEPT ![r] = "idle"]
  /\ UNCHANGED <<disk, state, issued, runs, node, mu, want, asked, begun>>

(***************************************************************************)
(* The supervisor: cloudLink.apply, called by whoever made a change and by *)
(* start, and cloudLink.stop at the end.                                   *)
(***************************************************************************)
\* What a caller does once apply or stop has returned to it.
After(p) == IF p \in due THEN "answer"
            ELSE IF p = Main /\ life = "up" THEN "serving" ELSE "idle"

\* Mutant of Wanted: a change is applied as this caller asked for it.
WantedAsAsked(p) ==
  IF p = Main THEN Effective
  ELSE [facts |-> asked[p].facts /\ HasToken /\ config.facts,
        aggregates |-> asked[p].aggregates /\ HasToken]

Wanted(p) == Effective

\* The lock is taken, the settings and the answer are read, and the
\* fetching is started or cancelled; nobody waits for a cancelled fetcher.
ApplyFetch(p) ==
  /\ Alive /\ mu = "free" /\ Goes(p, "apply", "send")
  /\ mu' = p /\ want' = Wanted(p)
  /\ fetch' = Wanted(p).facts
  /\ UNCHANGED <<answer, node, agg, sink, loops, unopened, request>>

Releases(p) == mu' = "free" /\ pc' = [pc EXCEPT ![p] = After(p)]
Starts == want.aggregates /\ ~agg
Stops == ~want.aggregates /\ agg

\* Nothing to start and nothing to stop; or aggregate.Open succeeds and the
\* sink is filled; or it fails and the node goes on without.
ApplySend(p) ==
  /\ Alive /\ pc[p] = "send" /\ ~Stops
  /\ \/ ~Starts /\ UNCHANGED runs
     \/ /\ Starts /\ agg' = TRUE /\ sink' = TRUE
        /\ loops' = [loops EXCEPT !.on = @ + 1]
        /\ unopened' = FALSE /\ UNCHANGED fetch
     \/ /\ "open" \in Faults /\ Starts
        /\ unopened' = TRUE /\ UNCHANGED <<fetch, agg, sink, loops>>
  /\ Releases(p)
  /\ UNCHANGED <<answer, node, want, request>>

\* stopAggregate: the sink is emptied, then the loops are told to end.
Cancels ==
  /\ sink' = FALSE
  /\ loops' = [on |-> loops.on - 1, ending |-> loops.ending + 1]

ApplyStop(p) ==
  /\ Alive /\ Stops /\ Goes(p, "send", "wait") /\ Cancels
  /\ UNCHANGED <<answer, node, fetch, agg, unopened, mu, want, request>>

Ended == loops.ending = 0

\* ... which is waited for with the lock held.
StopEnds(p) ==
  /\ Alive /\ pc[p] = "wait" /\ Ended
  /\ agg' = FALSE /\ Releases(p)
  /\ life' = IF p = Main THEN "stopped" ELSE life
  /\ UNCHANGED <<answer, config, fetch, sink, loops, unopened, want, request>>

CanEnd == loops.ending > 0

\* Run returns: what was open is saved.
AggregatorEnds ==
  /\ CanEnd /\ loops' = [loops EXCEPT !.ending = @ - 1]
  /\ UNCHANGED <<answer, node, fetch, agg, sink, unopened, mu, pc, want, request>>

(***************************************************************************)
(* The end of the node and its start.                                      *)
(***************************************************************************)
\* A signal, or a stop over the control socket.
Signal ==
  /\ Serving /\ life' = "ending"
  /\ UNCHANGED <<answer, runs, config, mu, pc, want, request>>

\* cloudLink.stop, deferred by serveCommand. Requests that are under way
\* are not waited for: they may come to apply after it.
StopLink ==
  /\ life = "ending" /\ mu = "free" /\ pc[Main] = "serving"
  /\ fetch' = FALSE
  /\ IF agg
     THEN /\ Cancels /\ mu' = Main /\ pc' = [pc EXCEPT ![Main] = "wait"]
          /\ UNCHANGED life
     ELSE /\ life' = "stopped" /\ pc' = [pc EXCEPT ![Main] = "idle"]
          /\ UNCHANGED <<sink, loops, mu>>
  /\ UNCHANGED <<answer, config, agg, unopened, want, request>>

\* serveCommand has returned, or the process was killed.
Exit ==
  /\ life = "stopped" \/ ("kill" \in Faults /\ Alive)
  /\ life' = "down" /\ mu' = "free" /\ pc' = Resting /\ due' = {} /\ want' = NoBox
  /\ asked' = [r \in Requests |-> NoBox]
  /\ fetch' = FALSE /\ agg' = FALSE /\ sink' = FALSE /\ loops' = NoLoop
  /\ unopened' = FALSE
  /\ lost' = (lost \/ \E r \in Requests : pc[r] = "keep")
  /\ UNCHANGED <<disk, state, issued, config, begun>>

\* The settings may have been edited meanwhile.
Start ==
  /\ life = "down" /\ life' = "up"
  /\ state' = disk /\ config' \in Configs /\ pc' = Starting
  /\ UNCHANGED <<disk, issued, lost, runs, mu, want, request>>

RequestStep(r) ==
  SaveCloud(r) \/ ForgetCloud(r) \/ Created(r) \/ NotCreated(r)
  \/ CreatedUnheard(r) \/ Change(r) \/ ChangeFails(r)
LinkStep(p) == ApplyFetch(p) \/ ApplySend(p) \/ ApplyStop(p) \/ StopEnds(p)

Next ==
  \/ \E r \in Requests : RequestStep(r)
  \/ \E p \in Callers : LinkStep(p)
  \/ AggregatorEnds \/ Signal \/ StopLink \/ Exit \/ Start

Spec == Init /\ [][Next]_vars

\* Goroutines run, an aggregator that is cancelled ends, the control client
\* and the POST to the cloud have time limits.
FairSpec ==
  /\ Spec
  /\ \A r \in Requests : WF_vars(Change(r)) /\ WF_vars(NotCreated(r))
  /\ \A p \in Callers : WF_vars(LinkStep(p))
  /\ WF_vars(AggregatorEnds)

----------------------------------------------------------------------------
TypeOK ==
  /\ disk \in State /\ state \in State /\ config \in Configs
  /\ issued \in BOOLEAN /\ lost \in BOOLEAN /\ unopened \in BOOLEAN
  /\ life \in {"up", "ending", "stopped", "down"}
  /\ mu \in Callers \cup {"free"} /\ due \subseteq Requests
  /\ pc \in [Callers -> {"idle", "register", "keep", "answer", "forget", "apply",
                         "send", "wait", "serving"}]
  /\ asked \in [Requests -> Boxes] /\ want \in Boxes
  /\ fetch \in BOOLEAN /\ agg \in BOOLEAN /\ sink \in BOOLEAN
  /\ loops \in [on: Nat, ending: Nat] /\ begun \in 0..MaxRequests

\* While the node serves and no change waits to be applied, what runs is
\* what the settings and the recorded answer ask for, whatever order several
\* changes were made and applied in (cloud.go:148: "apply brings what is
\* running in line with what is wanted").
RunsAsAnswered ==
  (life = "up" /\ mu = "free" /\ \A p \in Callers : pc[p] # "apply") =>
    /\ fetch = Effective.facts
    /\ agg = Effective.aggregates \/ (unopened /\ ~agg)

\* There is never a second aggregator over the state directory of one that
\* still runs or saves, and no request is handed to one that is told to end
\* (cloud.go:277 empties the sink, cancels, and waits with the lock held).
OneAggregator ==
  /\ loops.on + loops.ending <= 1
  /\ sink => loops.on = 1

\* A token the cloud issued is in the file or on its way there until the
\* owner forgets it, since the cloud issues no second one: answers,
\* restarts and changes that fail leave it alone (cloudlink.go:119).
TokenIsKept ==
  (issued /\ ~lost) => disk.token \/ \E r \in Requests : pc[r] = "keep"

\* Once the owner asks for nothing more, what runs settles at what he
\* answered: no caller waits for the lock for ever, neither for one that
\* waits for an aggregator to save.
AnswerInEffect ==
  /\ fetch = Effective.facts
  /\ agg = Effective.aggregates \/ (unopened /\ ~agg)
============================================================================
