------------------------------ MODULE Domains ------------------------------
(***************************************************************************)
(* The served domains: the file domains.json, the requests of the admin UI *)
(* and the commands that edit it, the core that watches it, and the router *)
(* the core swaps in after every change (internal/domains, proxy/router.go,*)
(* proxy/routetable.go, admin/domains.go, cmd/antibot/domains.go and the   *)
(* wiring in serve.go).                                                    *)
(*                                                                         *)
(* A host name is the sequence of its labels from the last to the first:   *)
(* a.example.ru is <<"ru", "example", "a">>.                               *)
(***************************************************************************)
EXTENDS Naturals, Sequences, FiniteSets, SequencesExt

CONSTANTS
  Names,     \* the names that may be listed: [host, pattern]
  Places,    \* the sites' servers
  Requests,  \* requests of the admin UI
  Commands,  \* antibot domains add, remove
  Asked,     \* the hosts clients ask for
  Upstreams, \* the upstreams a settings file may have
  ByHand,    \* the lists an editor that is not the node's may leave
  MaxWrites  \* bound: how often the file is replaced

Watch == "watch"    \* the goroutine of Store.Watch
NoWhere == "nowhere"

Sites == UNION {[ns -> Places] : ns \in SUBSET Names}
None == [n \in {} |-> NoWhere]

DomainsAssumption ==
  /\ IsFiniteSet(Names) /\ Names \subseteq [host: Seq(STRING), pattern: BOOLEAN]
  /\ IsFiniteSet(Places) /\ NoWhere \notin Places
  /\ Watch \notin Requests /\ Requests \cap Commands = {}
  /\ Asked \subseteq Seq(STRING) /\ MaxWrites \in Nat \ {0}
  /\ Upstreams \subseteq Sites /\ ByHand \subseteq Sites

Editors == Requests \cup Commands
Reloaders == Requests \cup {Watch}

VARIABLES
  routes,   \* the upstreams of the settings file, which no page may change
  file,     \* domains.json: what kind of file it is, its list, its stamp
  list,     \* Store.list of the core, and how many lists were there before
  known,    \* the stamp of the file it was read from, 0 when there is none
  mu,       \* who holds Store.mu of the core, or "free"
  router,   \* RouteTable.current: the table and the list's number
  pc,       \* where each editor and reloader is
  left,     \* the list an editor is about to write
  seen,     \* the stamp a reloader has taken
  built,    \* the router a reloader is about to swap in
  writes,   \* how many stamps were given
  steady,   \* history: the sites that every list since the core started had
  crossed   \* history: a router was swapped in over a later one

vars == <<routes, file, list, known, mu, router, pc, left, seen, built, writes,
          steady, crossed>>
onDisk == <<routes, file, left, writes, steady>>
core == <<list, known, mu, router, seen, built, crossed>>

NoRouter == [sites |-> None, number |-> 0]

(***************************************************************************)
(* Router.                                                                 *)
(***************************************************************************)
\* buildRouter: the settings file is laid over the list.
Build(l) == [n \in DOMAIN l \cup DOMAIN routes |-> IF n \in DOMAIN routes THEN routes[n] ELSE l[n]]

\* A pattern takes any subdomain, of any depth, but not the name itself.
Fitting(t, h) == {n \in DOMAIN t : IF n.pattern THEN IsStrictPrefix(n.host, h) ELSE n.host = h}
Better(n, m) == (~n.pattern /\ m.pattern) \/ (n.pattern = m.pattern /\ Len(n.host) >= Len(m.host))

\* Router.Named: the default route does not count.
Named(t, h) == Fitting(t, h) # {}

\* Router.To of a table without a default route: the exact name, or the
\* longest pattern.
To(t, h) == IF Named(t, h)
            THEN t[CHOOSE n \in Fitting(t, h) : \A m \in Fitting(t, h) : Better(n, m)]
            ELSE NoWhere

Init ==
  /\ routes \in Upstreams
  /\ \E l \in ByHand : /\ file = [kind |-> IF l = None THEN "gone" ELSE "list", list |-> l, stamp |-> 1]
                       /\ list = [sites |-> l, number |-> 0]
                       /\ known = (IF l = None THEN 0 ELSE 1)
                       /\ router = [sites |-> Build(l), number |-> 0]
                       /\ steady = l
  /\ mu = "free" /\ writes = 1 /\ crossed = FALSE
  /\ pc = [p \in Editors \cup Reloaders |-> "idle"]
  /\ left = [e \in Editors |-> None]
  /\ seen = [a \in Reloaders |-> 0]
  /\ built = [a \in Reloaders |-> NoRouter]

Goes(p, from, to) == pc[p] = from /\ pc' = [pc EXCEPT ![p] = to]

(***************************************************************************)
(* Add and Remove, by the admin UI and by the commands: the file is read,  *)
(* and later written, with no lock around both. A broken file, a name that *)
(* is already there and one that is not are refused.                       *)
(***************************************************************************)
AddDomain(e) ==
  /\ file.kind # "broken" /\ writes < MaxWrites
  /\ Goes(e, "idle", "write")
  /\ \E n \in Names \ DOMAIN file.list, to \in Places :
       left' = [left EXCEPT ![e] = [m \in DOMAIN file.list \cup {n} |->
                                      IF m = n THEN to ELSE file.list[m]]]
  /\ UNCHANGED <<routes, file, writes, steady, core>>

RemoveDomain(e) ==
  /\ file.kind # "broken" /\ writes < MaxWrites
  /\ Goes(e, "idle", "write")
  /\ \E n \in DOMAIN file.list :
       left' = [left EXCEPT ![e] = [m \in DOMAIN file.list \ {n} |-> file.list[m]]]
  /\ UNCHANGED <<routes, file, writes, steady, core>>

\* A file that does not parse is not a list; the one before stays in force.
Becomes(kind, l) ==
  /\ writes < MaxWrites /\ writes' = writes + 1
  /\ file' = [kind |-> kind, list |-> l, stamp |-> writes + 1]
  /\ steady' = IF kind = "broken" THEN steady
               ELSE [n \in {m \in DOMAIN steady \cap DOMAIN l : steady[m] = l[m]} |-> l[n]]

\* Store.Write: a rename. The admin UI then tells the core, a command does
\* not.
Write(e) ==
  /\ Becomes("list", left[e])
  /\ Goes(e, "write", IF e \in Requests THEN "stat" ELSE "idle")
  /\ left' = [left EXCEPT ![e] = None]
  /\ UNCHANGED <<routes, core>>

WriteFails(e) ==
  /\ Goes(e, "write", "idle")
  /\ left' = [left EXCEPT ![e] = None]
  /\ UNCHANGED <<routes, file, writes, steady, core>>

\* The core was not reached, or Write itself could not reread the file.
Untold(r) ==
  /\ Goes(r, "stat", "idle")
  /\ UNCHANGED <<onDisk, core>>

(***************************************************************************)
(* Hands: an editor that writes in place, and rm.                          *)
(***************************************************************************)
Scribble ==
  /\ Becomes("broken", None)
  /\ UNCHANGED <<routes, left, pc, core>>
Mend ==
  /\ \E l \in ByHand : Becomes("list", l)
  /\ UNCHANGED <<routes, left, pc, core>>
RemoveFile ==
  /\ file.kind # "gone" /\ Becomes("gone", None)
  /\ UNCHANGED <<routes, left, pc, core>>

(***************************************************************************)
(* Store.Reload of the core, by the watch and at the word of the admin UI: *)
(* the file is looked at and read under mu, the router is built and        *)
(* swapped in after it.                                                    *)
(***************************************************************************)
Comes(l) == list' = [sites |-> l, number |-> list.number + 1]
Rests(a) == IF a = Watch THEN "idle" ELSE "stat"

Unchanged(a) ==
  /\ mu = "free"
  /\ IF file.kind = "gone" THEN known = 0 ELSE known = file.stamp
  /\ Goes(a, Rests(a), "idle")
  /\ UNCHANGED <<onDisk, core>>

\* Mutant: nobody is told that the list was emptied.
FoundGoneUntold(a) ==
  /\ mu = "free" /\ file.kind = "gone" /\ known # 0
  /\ Comes(None) /\ known' = 0
  /\ Goes(a, Rests(a), "idle")
  /\ UNCHANGED <<onDisk, mu, router, seen, built, crossed>>

\* The file existed and is gone: a human's decision.
FoundGone(a) ==
  /\ mu = "free" /\ file.kind = "gone" /\ known # 0
  /\ Comes(None) /\ known' = 0
  /\ Goes(a, Rests(a), "build")
  /\ UNCHANGED <<onDisk, mu, router, seen, built, crossed>>

Stats(a) ==
  /\ mu = "free" /\ file.kind # "gone" /\ known # file.stamp
  /\ mu' = a /\ seen' = [seen EXCEPT ![a] = file.stamp]
  /\ Goes(a, Rests(a), "load")
  /\ UNCHANGED <<onDisk, list, known, router, built, crossed>>

\* Mutant: a file that does not parse is taken for an empty list.
LoadsWhatever(a) ==
  /\ Comes(file.list) /\ known' = seen[a] /\ mu' = "free"
  /\ seen' = [seen EXCEPT ![a] = 0]
  /\ Goes(a, "load", "build")
  /\ UNCHANGED <<onDisk, router, built, crossed>>

\* The stamp stored is the one taken before the contents were read.
Loads(a) ==
  /\ file.kind = "list"
  /\ Comes(file.list) /\ known' = seen[a] /\ mu' = "free"
  /\ seen' = [seen EXCEPT ![a] = 0]
  /\ Goes(a, "load", "build")
  /\ UNCHANGED <<onDisk, router, built, crossed>>

\* A broken file must not take the served sites off the air.
CannotLoad(a) ==
  /\ file.kind # "list" /\ mu' = "free"
  /\ seen' = [seen EXCEPT ![a] = 0]
  /\ Goes(a, "load", "idle")
  /\ UNCHANGED <<onDisk, list, known, router, built, crossed>>

Builds(a) ==
  /\ built' = [built EXCEPT ![a] = [sites |-> Build(list.sites), number |-> list.number]]
  /\ Goes(a, "build", "swap")
  /\ UNCHANGED <<onDisk, list, known, mu, router, seen, crossed>>

Swaps(a) ==
  /\ router' = built[a]
  /\ crossed' = (crossed \/ built[a].number < router.number)
  /\ built' = [built EXCEPT ![a] = NoRouter]
  /\ Goes(a, "swap", "idle")
  /\ UNCHANGED <<onDisk, list, known, mu, seen>>

\* A core that finds the file broken does not start.
Restart ==
  /\ file.kind # "broken"
  /\ list' = [sites |-> file.list, number |-> 0]
  /\ known' = IF file.kind = "gone" THEN 0 ELSE file.stamp
  /\ router' = [sites |-> Build(file.list), number |-> 0]
  /\ mu' = "free" /\ crossed' = FALSE
  /\ pc' = [p \in DOMAIN pc |-> IF pc[p] \in {"idle", "write"} THEN pc[p] ELSE "idle"]
  /\ steady' = file.list
  /\ seen' = [a \in Reloaders |-> 0]
  /\ built' = [a \in Reloaders |-> NoRouter]
  /\ UNCHANGED <<routes, file, left, writes>>

Reload(a) == \/ Unchanged(a) \/ FoundGone(a) \/ Stats(a) \/ Loads(a)
             \/ CannotLoad(a) \/ Builds(a) \/ Swaps(a)

Next ==
  \/ \E e \in Editors : AddDomain(e) \/ RemoveDomain(e) \/ Write(e) \/ WriteFails(e)
  \/ \E r \in Requests : Untold(r)
  \/ Scribble \/ Mend \/ RemoveFile \/ Restart
  \/ \E a \in Reloaders :
       Unchanged(a) \/ FoundGone(a) \/ Stats(a) \/ Loads(a) \/ CannotLoad(a) \/ Builds(a) \/ Swaps(a)

\* The watch never ends, and a request that was accepted is worked off.
Fairness == \A a \in Reloaders : WF_vars(Reload(a))

Spec == Init /\ [][Next]_vars
FairSpec == Spec /\ Fairness

(***************************************************************************)
(* Properties.                                                             *)
(***************************************************************************)
TypeOK ==
  /\ routes \in Upstreams
  /\ file \in [kind: {"list", "broken", "gone"}, list: Sites, stamp: 1..MaxWrites]
  /\ list \in [sites: Sites, number: Nat] /\ router \in [sites: Sites, number: Nat]
  /\ known \in 0..MaxWrites /\ mu \in Reloaders \cup {"free"}
  /\ pc \in [Editors \cup Reloaders -> {"idle", "write", "stat", "load", "build", "swap"}]
  /\ left \in [Editors -> Sites] /\ seen \in [Reloaders -> 0..MaxWrites]
  /\ built \in [Reloaders -> [sites: Sites, number: Nat]]
  /\ writes \in 1..MaxWrites /\ steady \in Sites /\ crossed \in BOOLEAN

\* A site that every list since the core started has named at the same
\* server is served all the while, whoever edits, breaks or rereads the
\* file and in whatever order the routers are swapped in: the host named
\* exactly goes to its server, or to the one the settings file gives it,
\* and a host under a pattern goes somewhere.
SteadySiteIsServed ==
  \A n \in DOMAIN steady, h \in Asked :
    /\ h = n.host /\ ~n.pattern =>
         To(router.sites, h) = IF n \in DOMAIN routes THEN routes[n] ELSE steady[n]
    /\ n.pattern /\ IsStrictPrefix(n.host, h) => To(router.sites, h) # NoWhere

\* Once the file is left alone and reads, the core comes to have its list,
\* and serves it, unless two changes at once were swapped in crosswise.
ListInForce ==
  file.kind # "broken" =>
    /\ list.sites = file.list
    /\ crossed \/ router.sites = Build(file.list)
============================================================================
