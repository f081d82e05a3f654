--------------------------- MODULE AdminSitesProofs ---------------------------
(***************************************************************************)
(* Theorems about what the owner changes of the sites: the served domains, *)
(* for any names, servers and settings, and any number of requests and     *)
(* commands that edit the list; the certificates; the pass of the crawlers.*)
(***************************************************************************)
EXTENDS AdminChanges, Sequences, FiniteSets, WellFoundedInduction, TLAPS

-----------------------------------------------------------------------------
(* Domains: the inductive invariant, part by part.                         *)

(* A list that has every steady site at its server.                        *)
Covers(l) == DOMAIN steady \subseteq DOMAIN l /\ \A n \in DOMAIN steady : l[n] = steady[n]

(* A table in which every steady site goes where it is to go.              *)
Sends(t) ==
  \A n \in DOMAIN steady :
    n \in DOMAIN t /\ t[n] = IF n \in DOMAIN routes THEN routes[n] ELSE steady[n]

(* A file that reads has the steady sites, the list in memory has them     *)
(* though the file may be broken, and so have the router in force and every*)
(* one that is about to be swapped in.                                     *)
Readable ==
  /\ file.kind # "broken" => Covers(file.list)
  /\ file.kind = "gone" => file.list = D!None
Remembered == Covers(list.sites)
Routed == Sends(router.sites) /\ \A a \in D!Reloaders : pc[a] = "swap" => Sends(built[a].sites)

DomainsInv == D!TypeOK /\ Readable /\ Remembered /\ Routed

-----------------------------------------------------------------------------
(* Lists and tables.                                                       *)

LEMMA SitesOK ==
  ASSUME NEW l
  PROVE  l \in D!Sites <=> DOMAIN l \subseteq Names /\ l \in [DOMAIN l -> Places]
  BY DEF D!Sites

LEMMA NoneOK == D!None \in D!Sites /\ DOMAIN D!None = {}
  BY SitesOK DEF D!None

LEMMA BuildOK ==
  ASSUME routes \in D!Sites, NEW l \in D!Sites
  PROVE  /\ D!Build(l) \in D!Sites
         /\ Covers(l) => Sends(D!Build(l))
<1>1. D!Build(l) = [n \in DOMAIN l \cup DOMAIN routes |->
                    IF n \in DOMAIN routes THEN routes[n] ELSE l[n]]
  BY DEF D!Build
<1>2. D!Build(l) \in D!Sites
  BY <1>1, SitesOK
<1>. QED  BY <1>1, <1>2 DEF Covers, Sends

(* A set of numbers has a least one.                                       *)
LEMMA Least ==
  ASSUME NEW S \in SUBSET Nat, S # {}
  PROVE  \E m \in S : \A n \in S : m <= n
<1>1. PICK m \in S : \A n \in S : <<n, m>> \notin OpToRel(<, Nat)
  BY NatLessThanWellFounded, WFMin
<1>2. \A n \in S : ~(n < m)
  BY <1>1 DEF OpToRel
<1>. QED  BY <1>2

(* Of the names that fit a host one is better than all of them, the host   *)
(* itself when it is among them.                                           *)
LEMMA BestOK ==
  ASSUME D!DomainsAssumption, NEW t \in D!Sites, NEW h \in Asked, D!Fitting(t, h) # {}
  PROVE  \E n \in D!Fitting(t, h) : \A m \in D!Fitting(t, h) : D!Better(n, m)
<1>1. \A n \in D!Fitting(t, h) : /\ n \in [host: Seq(STRING), pattern: BOOLEAN]
                                 /\ Len(n.host) \in Nat /\ Len(n.host) <= Len(h)
                                 /\ ~n.pattern => n.host = h
  <2>. SUFFICES ASSUME NEW n \in D!Fitting(t, h)
       PROVE  /\ n \in [host: Seq(STRING), pattern: BOOLEAN]
              /\ Len(n.host) \in Nat /\ Len(n.host) <= Len(h)
              /\ ~n.pattern => n.host = h
    OBVIOUS
  <2>1. n \in [host: Seq(STRING), pattern: BOOLEAN] /\ h \in Seq(STRING)
    BY SitesOK DEF D!DomainsAssumption, D!Fitting
  <2>2. n.host \in Seq(STRING) /\ Len(n.host) \in Nat /\ Len(h) \in Nat
    BY <2>1
  <2>3. IF n.pattern THEN Len(n.host) <= Len(h) ELSE n.host = h
    BY DEF D!Fitting, D!IsStrictPrefix, D!IsPrefix
  <2>. QED  BY <2>1, <2>2, <2>3
<1>2. CASE \E n \in D!Fitting(t, h) : ~n.pattern
  <2>1. PICK n \in D!Fitting(t, h) : ~n.pattern
    BY <1>2
  <2>2. ASSUME NEW m \in D!Fitting(t, h), ~m.pattern
        PROVE  n.pattern = m.pattern /\ Len(n.host) >= Len(m.host)
    <3>1. n.host = m.host /\ Len(m.host) \in Nat
      BY <1>1, <2>1, <2>2
    <3>2. n.pattern = m.pattern
      BY <1>1, <2>1, <2>2
    <3>. QED  BY <3>1, <3>2
  <2>. QED  BY <2>1, <2>2 DEF D!Better
<1>3. CASE \A n \in D!Fitting(t, h) : n.pattern
  <2>. DEFINE short == {Len(h) - Len(n.host) : n \in D!Fitting(t, h)}
  <2>1. Len(h) \in Nat
    BY DEF D!DomainsAssumption
  <2>2. short \in SUBSET Nat /\ short # {}
    BY <1>1, <2>1
  <2>3. PICK k \in short : \A j \in short : k <= j
    <3>. HIDE DEF short
    <3>. QED  BY <2>2, Least
  <2>4. PICK n \in D!Fitting(t, h) : k = Len(h) - Len(n.host)
    BY <2>3
  <2>5. \A m \in D!Fitting(t, h) : Len(n.host) >= Len(m.host)
    <3>. SUFFICES ASSUME NEW m \in D!Fitting(t, h)
         PROVE  Len(n.host) >= Len(m.host)
      OBVIOUS
    <3>1. Len(h) - Len(n.host) <= Len(h) - Len(m.host)
      BY <2>3, <2>4
    <3>2. Len(n.host) \in Nat /\ Len(m.host) \in Nat
      BY <1>1
    <3>. QED  BY <2>1, <3>1, <3>2
  <2>. QED  BY <1>3, <2>5 DEF D!Better
<1>. QED  BY <1>2, <1>3

(* Where a table sends a host that it names, and one that is listed.       *)
LEMMA ToOK ==
  ASSUME D!DomainsAssumption, NEW t \in D!Sites, NEW h \in Asked
  PROVE  /\ D!Fitting(t, h) # {} => D!To(t, h) \in Places
         /\ \A n \in DOMAIN t : h = n.host /\ ~n.pattern => D!To(t, h) = t[n]
<1>. DEFINE best == CHOOSE n \in D!Fitting(t, h) : \A m \in D!Fitting(t, h) : D!Better(n, m)
<1>1. ASSUME D!Fitting(t, h) # {}
      PROVE  /\ best \in D!Fitting(t, h) /\ \A m \in D!Fitting(t, h) : D!Better(best, m)
             /\ D!To(t, h) = t[best]
  BY <1>1, BestOK DEF D!To, D!Named
<1>2. ASSUME D!Fitting(t, h) # {} PROVE D!To(t, h) \in Places
  BY <1>1, <1>2, SitesOK DEF D!Fitting
<1>3. ASSUME NEW n \in DOMAIN t, h = n.host, ~n.pattern
      PROVE  D!To(t, h) = t[n]
  <2>. HIDE DEF best
  <2>1. n \in D!Fitting(t, h)
    BY <1>3 DEF D!Fitting
  <2>2. best \in D!Fitting(t, h) /\ D!Better(best, n) /\ D!To(t, h) = t[best]
    BY <1>1, <2>1
  <2>3. /\ best \in [host: Seq(STRING), pattern: BOOLEAN]
        /\ n \in [host: Seq(STRING), pattern: BOOLEAN]
    BY <2>1, <2>2, SitesOK DEF D!DomainsAssumption, D!Fitting
  <2>4. ~best.pattern /\ best.host = h
    BY <1>3, <2>2, <2>3 DEF D!Better, D!Fitting
  <2>5. best = n
    BY <1>3, <2>3, <2>4
  <2>. QED  BY <2>2, <2>5
<1>. QED  BY <1>2, <1>3

-----------------------------------------------------------------------------
(* The file, its editors and hands.                                        *)

LEMMA DomainsInitOK ==
  ASSUME D!DomainsAssumption, D!Init
  PROVE  DomainsInv
<1>1. PICK l \in ByHand :
        /\ file = [kind |-> IF l = D!None THEN "gone" ELSE "list", list |-> l, stamp |-> 1]
        /\ list = [sites |-> l, number |-> 0]
        /\ known = (IF l = D!None THEN 0 ELSE 1)
        /\ router = [sites |-> D!Build(l), number |-> 0]
        /\ steady = l
  BY DEF D!Init
<1>2. l \in D!Sites /\ routes \in D!Sites /\ D!None \in D!Sites /\ MaxWrites \in Nat \ {0}
  BY NoneOK DEF D!Init, D!DomainsAssumption
<1>3. /\ D!Build(l) \in D!Sites /\ (Covers(l) => Sends(D!Build(l)))
      /\ D!NoRouter \in [sites: D!Sites, number: Nat]
  BY <1>2, BuildOK DEF D!NoRouter
<1>4. D!TypeOK
  <2>1. file \in [kind: {"list", "broken", "gone"}, list: D!Sites, stamp: 1..MaxWrites]
    BY <1>1, <1>2
  <2>2. list \in [sites: D!Sites, number: Nat] /\ router \in [sites: D!Sites, number: Nat]
    BY <1>1, <1>2, <1>3
  <2>3. known \in 0..MaxWrites /\ writes \in 1..MaxWrites
    BY <1>1, <1>2 DEF D!Init
  <2>4. seen \in [D!Reloaders -> 0..MaxWrites]
    BY <1>2 DEF D!Init
  <2>. QED  BY <1>1, <1>2, <1>3, <2>1, <2>2, <2>3, <2>4 DEF D!Init, D!TypeOK
<1>5. Covers(l)
  BY <1>1 DEF Covers
<1>6. \A a \in D!Reloaders : pc[a] # "swap"
  BY DEF D!Init
<1>. QED  BY <1>1, <1>3, <1>4, <1>5, <1>6 DEF DomainsInv, Readable, Remembered, Routed

(* An editor that goes from one place to another on its own behalf.        *)
LEMMA EditsOK ==
  ASSUME D!DomainsAssumption, DomainsInv, NEW e \in D!Editors, NEW to \in {"idle", "write"},
         pc' = [pc EXCEPT ![e] = to], left' \in [D!Editors -> D!Sites],
         UNCHANGED <<routes, file, writes, steady, D!core>>
  PROVE  DomainsInv'
<1>. USE DEF D!core
<1>1. D!TypeOK'
  BY DEF DomainsInv, D!TypeOK
<1>2. Readable' /\ Remembered'
  BY DEF DomainsInv, Readable, Remembered, Covers
<1>3. Routed'
  BY DEF DomainsInv, D!TypeOK, Routed, Sends
<1>. QED  BY <1>1, <1>2, <1>3 DEF DomainsInv

LEMMA AddRemoveOK ==
  ASSUME D!DomainsAssumption, DomainsInv, NEW e \in D!Editors,
         D!AddDomain(e) \/ D!RemoveDomain(e) \/ D!WriteFails(e)
  PROVE  DomainsInv'
<1>. USE DEF D!AddDomain, D!RemoveDomain, D!WriteFails, D!Goes
<1>1. file.list \in D!Sites /\ D!None \in D!Sites
  BY NoneOK DEF DomainsInv, D!TypeOK
<1>2. ASSUME NEW n \in Names, NEW to \in Places
      PROVE  [m \in DOMAIN file.list \cup {n} |-> IF m = n THEN to ELSE file.list[m]] \in D!Sites
  BY <1>1, SitesOK
<1>3. ASSUME NEW n \in DOMAIN file.list
      PROVE  [m \in DOMAIN file.list \ {n} |-> file.list[m]] \in D!Sites
  BY <1>1, SitesOK
<1>4. left' \in [D!Editors -> D!Sites]
  <2>1. ASSUME NEW l \in D!Sites, left' = [left EXCEPT ![e] = l]
        PROVE  left' \in [D!Editors -> D!Sites]
    BY <2>1 DEF DomainsInv, D!TypeOK
  <2>2. CASE D!AddDomain(e)
    BY <1>2, <2>1, <2>2
  <2>3. CASE D!RemoveDomain(e)
    BY <1>3, <2>1, <2>3
  <2>4. CASE D!WriteFails(e)
    BY <1>1, <2>1, <2>4
  <2>. QED  BY <2>2, <2>3, <2>4
<1>. QED  BY <1>4, EditsOK

(* A file that becomes another: fewer sites are steady, and whoever had    *)
(* them all has these.                                                     *)
LEMMA BecomesOK ==
  ASSUME D!DomainsAssumption, DomainsInv,
         NEW kind \in {"list", "broken", "gone"}, NEW l \in D!Sites,
         D!Becomes(kind, l), kind = "gone" => l = D!None, UNCHANGED <<routes, D!core>>,
         pc' \in [D!Editors \cup D!Reloaders -> {"idle", "write", "stat", "load", "build", "swap"}],
         \A a \in D!Reloaders : pc'[a] = "swap" => pc[a] = "swap",
         left' \in [D!Editors -> D!Sites]
  PROVE  DomainsInv'
<1>. USE DEF D!core, D!Becomes
<1>1. steady' \in D!Sites /\ DOMAIN steady' \subseteq DOMAIN steady
      /\ \A n \in DOMAIN steady' : steady'[n] = steady[n]
  <2>1. CASE kind = "broken"
    BY <2>1 DEF DomainsInv, D!TypeOK
  <2>2. CASE kind # "broken"
    <3>. DEFINE both == {m \in DOMAIN steady \cap DOMAIN l : steady[m] = l[m]}
    <3>1. steady' = [n \in both |-> l[n]]
      BY <2>2
    <3>2. steady \in D!Sites
      BY DEF DomainsInv, D!TypeOK
    <3>. QED  BY <3>1, <3>2, SitesOK
  <2>. QED  BY <2>1, <2>2
<1>2. D!TypeOK'
  <2>1. writes' \in 1..MaxWrites /\ writes + 1 \in 1..MaxWrites
    BY DEF DomainsInv, D!TypeOK, D!DomainsAssumption
  <2>. QED  BY <1>1, <2>1 DEF DomainsInv, D!TypeOK
<1>3. Readable'
  <2>1. kind # "broken" => Covers(l)'
    BY DEF Covers
  <2>. QED  BY <2>1 DEF Readable, Covers
<1>4. Remembered'
  BY <1>1 DEF DomainsInv, Remembered, Covers
<1>5. Routed'
  BY <1>1 DEF DomainsInv, Routed, Sends
<1>. QED  BY <1>2, <1>3, <1>4, <1>5 DEF DomainsInv

LEMMA WriteOK ==
  ASSUME D!DomainsAssumption, DomainsInv, NEW e \in D!Editors, D!Write(e)
  PROVE  DomainsInv'
<1>1. PICK to \in {"stat", "idle"} : pc' = [pc EXCEPT ![e] = to]
  BY DEF D!Write, D!Goes
<1>2. left[e] \in D!Sites /\ left' \in [D!Editors -> D!Sites]
  BY NoneOK DEF DomainsInv, D!TypeOK, D!Write
<1>3. /\ pc' \in [D!Editors \cup D!Reloaders -> {"idle", "write", "stat", "load", "build", "swap"}]
      /\ \A a \in D!Reloaders : pc'[a] = "swap" => pc[a] = "swap"
  BY <1>1 DEF DomainsInv, D!TypeOK
<1>. QED  BY <1>2, <1>3, BecomesOK DEF D!Write

LEMMA HandsOK ==
  ASSUME D!DomainsAssumption, DomainsInv, D!Scribble \/ D!Mend \/ D!RemoveFile
  PROVE  DomainsInv'
<1>1. /\ pc' \in [D!Editors \cup D!Reloaders -> {"idle", "write", "stat", "load", "build", "swap"}]
      /\ pc' = pc /\ left' \in [D!Editors -> D!Sites] /\ UNCHANGED <<routes, D!core>>
  BY DEF DomainsInv, D!TypeOK, D!Scribble, D!Mend, D!RemoveFile
<1>2. PICK kind \in {"list", "broken", "gone"}, l \in D!Sites :
        D!Becomes(kind, l) /\ (kind = "gone" => l = D!None)
  BY NoneOK DEF D!Scribble, D!Mend, D!RemoveFile, D!DomainsAssumption
<1>. QED  BY <1>1, <1>2, BecomesOK

LEMMA UntoldOK ==
  ASSUME D!DomainsAssumption, DomainsInv, NEW r \in Requests, D!Untold(r)
  PROVE  DomainsInv'
<1>1. r \in D!Editors /\ pc' = [pc EXCEPT ![r] = "idle"] /\ left' = left
  BY DEF D!Untold, D!Goes, D!Editors, D!onDisk
<1>. QED  BY <1>1, EditsOK DEF D!Untold, DomainsInv, D!TypeOK, D!onDisk

-----------------------------------------------------------------------------
(* The core.                                                               *)

(* A reload that neither changes what is remembered nor builds or swaps.   *)
LEMMA LooksOK ==
  ASSUME D!DomainsAssumption, DomainsInv, NEW a \in D!Reloaders,
         D!Unchanged(a) \/ D!Stats(a) \/ D!CannotLoad(a)
  PROVE  DomainsInv'
<1>. USE DEF D!Unchanged, D!Stats, D!CannotLoad, D!Goes, D!onDisk, D!core
<1>1. PICK to \in {"idle", "load"} : pc' = [pc EXCEPT ![a] = to]
  OBVIOUS
<1>2. mu' \in D!Reloaders \cup {"free"} /\ seen' \in [D!Reloaders -> 0..MaxWrites]
  BY DEF DomainsInv, D!TypeOK, D!DomainsAssumption
<1>3. D!TypeOK'
  BY <1>1, <1>2 DEF DomainsInv, D!TypeOK
<1>4. Readable' /\ Remembered'
  BY DEF DomainsInv, Readable, Remembered, Covers
<1>5. Routed'
  BY <1>1 DEF DomainsInv, D!TypeOK, Routed, Sends
<1>. QED  BY <1>3, <1>4, <1>5 DEF DomainsInv

(* A list that is taken over is the one in the file.                       *)
LEMMA ComesOK ==
  ASSUME D!DomainsAssumption, DomainsInv, NEW a \in D!Reloaders, D!FoundGone(a) \/ D!Loads(a)
  PROVE  DomainsInv'
<1>. USE DEF D!FoundGone, D!Loads, D!Goes, D!Comes, D!onDisk
<1>1. pc' = [pc EXCEPT ![a] = "build"] /\ list' = [sites |-> file.list, number |-> list.number + 1]
  BY DEF DomainsInv, Readable
<1>2. /\ list' \in [sites: D!Sites, number: Nat] /\ Covers(file.list)
  BY <1>1 DEF DomainsInv, D!TypeOK, Readable
<1>3. /\ mu' \in D!Reloaders \cup {"free"} /\ seen' \in [D!Reloaders -> 0..MaxWrites]
      /\ known' \in 0..MaxWrites
  BY DEF DomainsInv, D!TypeOK, D!DomainsAssumption
<1>4. D!TypeOK'
  BY <1>1, <1>2, <1>3 DEF DomainsInv, D!TypeOK
<1>5. Readable' /\ Remembered'
  BY <1>1, <1>2 DEF DomainsInv, Readable, Remembered, Covers
<1>6. Routed'
  BY <1>1 DEF DomainsInv, D!TypeOK, Routed, Sends
<1>. QED  BY <1>4, <1>5, <1>6 DEF DomainsInv

LEMMA BuildsOK ==
  ASSUME D!DomainsAssumption, DomainsInv, NEW a \in D!Reloaders, D!Builds(a)
  PROVE  DomainsInv'
<1>. USE DEF D!Builds, D!Goes, D!onDisk
<1>1. D!Build(list.sites) \in D!Sites /\ Sends(D!Build(list.sites))
  BY BuildOK DEF DomainsInv, D!TypeOK, Remembered, D!DomainsAssumption
<1>2. \A b \in D!Reloaders :
        /\ pc'[b] = IF b = a THEN "swap" ELSE pc[b]
        /\ built'[b] = IF b = a THEN [sites |-> D!Build(list.sites), number |-> list.number]
                       ELSE built[b]
  BY DEF DomainsInv, D!TypeOK
<1>3. D!TypeOK'
  BY <1>1 DEF DomainsInv, D!TypeOK
<1>4. Readable' /\ Remembered'
  BY DEF DomainsInv, Readable, Remembered, Covers
<1>5. Routed'
  BY <1>1, <1>2 DEF DomainsInv, Routed, Sends
<1>. QED  BY <1>3, <1>4, <1>5 DEF DomainsInv

LEMMA SwapsOK ==
  ASSUME D!DomainsAssumption, DomainsInv, NEW a \in D!Reloaders, D!Swaps(a)
  PROVE  DomainsInv'
<1>. USE DEF D!Swaps, D!Goes, D!onDisk
<1>1. \A b \in D!Reloaders :
        /\ pc'[b] = IF b = a THEN "idle" ELSE pc[b]
        /\ b # a => built'[b] = built[b]
  BY DEF DomainsInv, D!TypeOK
<1>2. D!NoRouter \in [sites: D!Sites, number: Nat]
  BY NoneOK DEF D!NoRouter
<1>3. D!TypeOK'
  BY <1>2 DEF DomainsInv, D!TypeOK
<1>4. Readable' /\ Remembered'
  BY DEF DomainsInv, Readable, Remembered, Covers
<1>5. Routed'
  BY <1>1 DEF DomainsInv, Routed, Sends
<1>. QED  BY <1>3, <1>4, <1>5 DEF DomainsInv

LEMMA RestartOK ==
  ASSUME D!DomainsAssumption, DomainsInv, D!Restart
  PROVE  DomainsInv'
<1>. USE DEF D!Restart
<1>1. file.list \in D!Sites /\ routes \in D!Sites /\ routes' = routes
  BY DEF DomainsInv, D!TypeOK, D!DomainsAssumption
<1>2. D!Build(file.list) \in D!Sites /\ D!NoRouter \in [sites: D!Sites, number: Nat]
  BY <1>1, BuildOK, NoneOK DEF D!NoRouter
<1>3. \A n \in DOMAIN D!Build(file.list) :
        D!Build(file.list)[n] = IF n \in DOMAIN routes THEN routes[n] ELSE file.list[n]
  BY DEF D!Build
<1>4. DOMAIN file.list \subseteq DOMAIN D!Build(file.list)
  BY DEF D!Build
<1>5. \A a \in D!Reloaders : pc'[a] # "swap"
  BY DEF DomainsInv, D!TypeOK
<1>6. D!TypeOK'
  <2>1. known' \in 0..MaxWrites
    BY DEF DomainsInv, D!TypeOK, D!DomainsAssumption
  <2>2. pc' \in [D!Editors \cup D!Reloaders -> {"idle", "write", "stat", "load", "build", "swap"}]
    BY DEF DomainsInv, D!TypeOK
  <2>3. seen' \in [D!Reloaders -> 0..MaxWrites]
    BY DEF D!DomainsAssumption
  <2>. QED  BY <1>1, <1>2, <2>1, <2>2, <2>3 DEF DomainsInv, D!TypeOK
<1>7. Readable' /\ Remembered'
  BY DEF DomainsInv, Readable, Remembered, Covers
<1>8. Routed'
  BY <1>1, <1>3, <1>4, <1>5 DEF Routed, Sends
<1>. QED  BY <1>6, <1>7, <1>8 DEF DomainsInv

-----------------------------------------------------------------------------
(* Certificates: the types.                                                *)

LEMMA LoadableOK ==
  ASSUME C!FilesOK, MaxPuts \in Nat
  PROVE  C!Loadable \in C!LoadedOK /\ C!Unseen \in C!LoadedOK
  BY DEF C!FilesOK, C!FileOK, C!Loadable, C!LoadedOK, C!Unseen, C!NoFile, C!Agrees

(* A file that is put in place.                                            *)
LEMMA PutOK ==
  ASSUME C!PairFilesAssumption, C!FilesOK, NEW p, NEW k \in {"cert", "key"},
         NEW c \in Issued \cup {C!Nothing}, C!Put(p, k, c)
  PROVE  disk' \in [Paths -> [cert: C!FileOK, key: C!FileOK]] /\ puts' \in 1..MaxPuts
<1>. DEFINE new == [is |-> c, at |-> puts + 1]
<1>1. new \in C!FileOK /\ puts' \in 1..MaxPuts
  BY DEF C!Put, C!FilesOK, C!FileOK, C!PairFilesAssumption
<1>2. disk' = [disk EXCEPT ![p][k] = new]
  BY DEF C!Put
<1>3. CASE k = "cert"
  <2>. HIDE DEF new
  <2>1. disk' = [disk EXCEPT ![p] = [@ EXCEPT !.cert = new]]
    BY <1>2, <1>3
  <2>. QED  BY <1>1, <2>1 DEF C!FilesOK
<1>4. CASE k = "key"
  <2>. HIDE DEF new
  <2>1. disk' = [disk EXCEPT ![p] = [@ EXCEPT !.key = new]]
    BY <1>2, <1>4
  <2>. QED  BY <1>1, <2>1 DEF C!FilesOK
<1>. QED  BY <1>3, <1>4

LEMMA FilesStepOK ==
  ASSUME C!PairFilesAssumption, C!TypeOK, C!FilesNext,
         UNCHANGED <<reachable, current, scan>>
  PROVE  C!TypeOK'
<1>. USE DEF C!Goes, C!NoJob, C!Reloaders
<1>1. C!FilesOK /\ Requests \subseteq C!Reloaders
  BY DEF C!TypeOK
<1>2. pc' \in [C!Reloaders -> {"idle", "key", "cert", "tell", "look", "load"}]
  BY <1>1 DEF C!FilesNext, C!TypeOK, C!BeginsUpload, C!RenamesKey, C!RenamesCert, C!UploadEnds,
              C!PutByHand, C!RemovedByHand
<1>3. job' \in [Requests -> [path: Paths \cup {C!Nothing}, cert: Issued \cup {C!Nothing}]]
  BY <1>1 DEF C!FilesNext, C!FilesOK, C!BeginsUpload, C!RenamesKey, C!RenamesCert, C!UploadEnds,
              C!PutByHand, C!RemovedByHand
<1>4. disk' \in [Paths -> [cert: C!FileOK, key: C!FileOK]] /\ puts' \in 1..MaxPuts
  <2>1. CASE \E r \in Requests : C!BeginsUpload(r) \/ C!UploadEnds(r)
    BY <1>1, <2>1 DEF C!BeginsUpload, C!UploadEnds, C!FilesOK
  <2>2. ASSUME NEW r \in Requests, C!RenamesKey(r) \/ C!RenamesCert(r)
        PROVE  disk' \in [Paths -> [cert: C!FileOK, key: C!FileOK]] /\ puts' \in 1..MaxPuts
    <3>1. job[r].cert \in Issued \cup {C!Nothing}
      BY <1>1 DEF C!FilesOK
    <3>. QED  BY <1>1, <2>2, <3>1, PutOK DEF C!RenamesKey, C!RenamesCert
  <2>3. CASE C!PutByHand
    BY <1>1, <2>3, PutOK DEF C!PutByHand
  <2>4. CASE C!RemovedByHand
    <3>1. C!NoPair \in [cert: C!FileOK, key: C!FileOK] /\ puts' \in 1..MaxPuts
      BY <1>1, <2>4 DEF C!RemovedByHand, C!NoPair, C!NoFile, C!FileOK, C!FilesOK,
                        C!PairFilesAssumption
    <3>. QED  BY <1>1, <2>4, <3>1 DEF C!RemovedByHand, C!FilesOK
  <2>. QED  BY <2>1, <2>2, <2>3, <2>4 DEF C!FilesNext
<1>. QED  BY <1>2, <1>3, <1>4 DEF C!TypeOK, C!FilesOK

(* A rescan that goes on with one pair.                                    *)
ScanOK == [old: C!LoadedOK, fresh: C!LoadedOK, todo: SUBSET Paths, path: Paths \cup {C!Nothing}]

LEMMA NoScanOK ==
  ASSUME MaxPuts \in Nat
  PROVE  C!NoScan \in ScanOK
  BY DEF C!NoScan, ScanOK, C!LoadedOK, C!Unseen, C!NoFile, C!FileOK

LEMMA ScansOn ==
  ASSUME C!PairFilesAssumption, C!TypeOK, NEW a \in C!Reloaders,
         C!Scans(a) \/ C!Keeps(a) \/ C!Misses(a) \/ C!Stamps(a) \/ C!Loads(a)
  PROVE  scan' \in [C!Reloaders -> ScanOK]
<1>. DEFINE old == scan[a].old  fresh == scan[a].fresh  todo == scan[a].todo
            p == C!First(a)  q == scan[a].path
<1>1. /\ scan \in [C!Reloaders -> ScanOK] /\ current \in C!LoadedOK /\ MaxPuts \in Nat
      /\ disk \in [Paths -> [cert: C!FileOK, key: C!FileOK]]
  BY DEF C!TypeOK, C!FilesOK, C!PairFilesAssumption, ScanOK
<1>2. old \in C!LoadedOK /\ fresh \in C!LoadedOK /\ todo \in SUBSET Paths
      /\ q \in Paths \cup {C!Nothing}
  BY <1>1 DEF ScanOK
<1>3. C!Looks(a) => p \in Paths
  BY <1>2 DEF C!Looks, C!First
<1>4. [old EXCEPT ![p] = C!NoFile] \in C!LoadedOK
  <2>1. C!NoFile \in C!FileOK
    BY <1>1 DEF C!NoFile, C!FileOK
  <2>. HIDE DEF old, p
  <2>. QED  BY <1>2, <2>1 DEF C!LoadedOK
<1>5. CASE C!Scans(a)
  <2>1. [C!NoScan EXCEPT !.old = current, !.todo = {r \in Paths : C!Whole(disk[r])}] \in ScanOK
    BY <1>1, NoScanOK DEF ScanOK
  <2>. QED  BY <1>1, <1>5, <2>1 DEF C!Scans
<1>6. CASE C!Keeps(a)
  <2>1. scan' = [scan EXCEPT ![a] = [@ EXCEPT !.fresh = [fresh EXCEPT ![p] = old[p]],
                                              !.old = [old EXCEPT ![p] = C!NoFile],
                                              !.todo = todo \ {p}]]
    BY <1>6, <1>1 DEF C!Keeps, ScanOK
  <2>2. [fresh EXCEPT ![p] = old[p]] \in C!LoadedOK
    BY <1>2, <1>3, <1>6 DEF C!LoadedOK, C!Keeps
  <2>. QED  BY <1>1, <1>2, <1>4, <2>1, <2>2 DEF ScanOK
<1>7. CASE C!Misses(a)
  <2>1. scan' = [scan EXCEPT ![a] = [@ EXCEPT !.old = [old EXCEPT ![p] = C!NoFile],
                                              !.todo = todo \ {p}]]
    BY <1>7, <1>1 DEF C!Misses, ScanOK
  <2>. QED  BY <1>1, <1>2, <1>4, <2>1 DEF ScanOK
<1>8. CASE C!Stamps(a)
  <2>. DEFINE one == [fresh[p] EXCEPT !.at = disk[p].cert.at]
  <2>1. scan' = [scan EXCEPT ![a] = [@ EXCEPT !.fresh = [fresh EXCEPT ![p] = one],
                                              !.old = [old EXCEPT ![p] = C!NoFile],
                                              !.todo = todo \ {p}, !.path = p]]
    <3>1. scan' = [scan EXCEPT ![a].fresh[p].at = disk[p].cert.at, ![a].old[p] = C!NoFile,
                               ![a].todo = @ \ {p}, ![a].path = p]
      BY <1>8 DEF C!Stamps
    <3>. HIDE DEF p
    <3>2. scan[a] \in ScanOK
      BY <1>1
    <3>. QED  BY <1>1, <3>1, <3>2 DEF ScanOK
  <2>2. p \in Paths
    BY <1>3, <1>8 DEF C!Stamps
  <2>3. one \in C!FileOK
    <3>1. fresh[p] \in C!FileOK /\ disk[p].cert \in C!FileOK
      BY <1>1, <1>2, <2>2 DEF C!LoadedOK
    <3>. HIDE DEF fresh, p
    <3>. QED  BY <3>1 DEF C!FileOK
  <2>4. [fresh EXCEPT ![p] = one] \in C!LoadedOK
    BY <1>2, <2>3 DEF C!LoadedOK
  <2>. QED  BY <1>1, <1>2, <1>4, <2>1, <2>2, <2>4 DEF ScanOK
<1>9. CASE C!Loads(a)
  <2>. DEFINE is == IF C!Agrees(disk[q]) THEN disk[q].cert.is ELSE C!Nothing
              one == [fresh[q] EXCEPT !.is = is]
  <2>1. scan' = [scan EXCEPT ![a] = [@ EXCEPT !.fresh = [fresh EXCEPT ![q] = one],
                                              !.path = C!Nothing]]
    <3>1. scan' = [scan EXCEPT ![a].path = C!Nothing, ![a].fresh[q].is = is]
      BY <1>9 DEF C!Loads
    <3>. HIDE DEF is
    <3>2. scan[a] \in ScanOK
      BY <1>1
    <3>. QED  BY <1>1, <3>1, <3>2 DEF ScanOK
  <2>2. q \in Paths => one \in C!FileOK
    <3>. SUFFICES ASSUME q \in Paths PROVE one \in C!FileOK
      OBVIOUS
    <3>1. fresh[q] \in C!FileOK /\ disk[q].cert \in C!FileOK
      BY <1>1, <1>2 DEF C!LoadedOK
    <3>2. is \in Issued \cup {C!Nothing}
      BY <3>1 DEF C!FileOK
    <3>. HIDE DEF fresh, q, is
    <3>. QED  BY <3>1, <3>2 DEF C!FileOK
  <2>3. [fresh EXCEPT ![q] = one] \in C!LoadedOK
    <3>. HIDE DEF one
    <3>. QED  BY <1>2, <2>2 DEF C!LoadedOK
  <2>. HIDE DEF one
  <2>. QED  BY <1>1, <1>2, <2>1, <2>3 DEF ScanOK
<1>. QED  BY <1>5, <1>6, <1>7, <1>8, <1>9

LEMMA CertificatesStep ==
  ASSUME C!PairFilesAssumption, C!TypeOK, C!Next
  PROVE  C!TypeOK'
<1>. USE DEF C!Goes, C!files
<1>1. /\ scan \in [C!Reloaders -> ScanOK] /\ current \in C!LoadedOK /\ MaxPuts \in Nat
      /\ C!FilesOK
  BY DEF C!TypeOK, C!PairFilesAssumption, ScanOK
<1>2. C!NoScan \in ScanOK /\ C!Loadable \in C!LoadedOK
  BY <1>1, NoScanOK, LoadableOK
<1>3. CASE C!FilesNext /\ UNCHANGED <<reachable, current, scan>>
  BY <1>3, FilesStepOK
<1>4. ASSUME NEW a \in C!Reloaders,
             C!Scans(a) \/ C!Keeps(a) \/ C!Misses(a) \/ C!Stamps(a) \/ C!Loads(a)
      PROVE  C!TypeOK'
  <2>1. scan' \in [C!Reloaders -> ScanOK]
    BY <1>4, ScansOn
  <2>2. pc' \in [C!Reloaders -> {"idle", "key", "cert", "tell", "look", "load"}]
        /\ UNCHANGED <<disk, puts, job, reachable, current>>
    BY <1>4 DEF C!TypeOK, C!Scans, C!Keeps, C!Misses, C!Stamps, C!Loads
  <2>. QED  BY <2>1, <2>2 DEF C!TypeOK, C!FilesOK, ScanOK
<1>5. ASSUME NEW a \in C!Reloaders, C!ScanFails(a) \/ C!Stores(a)
      PROVE  C!TypeOK'
  <2>1. scan' \in [C!Reloaders -> ScanOK] /\ current' \in C!LoadedOK
    BY <1>1, <1>2, <1>5 DEF C!ScanFails, C!Stores, ScanOK
  <2>2. pc' \in [C!Reloaders -> {"idle", "key", "cert", "tell", "look", "load"}]
        /\ UNCHANGED <<disk, puts, job, reachable>>
    BY <1>5 DEF C!TypeOK, C!ScanFails, C!Stores
  <2>. QED  BY <2>1, <2>2 DEF C!TypeOK, C!FilesOK, ScanOK
<1>6. CASE C!Restart
  BY <1>1, <1>2, <1>6 DEF C!Restart, C!TypeOK, C!FilesOK, ScanOK
<1>7. CASE C!Unmounts \/ C!Mounts
  <2>1. puts' \in 1..MaxPuts
    BY <1>1, <1>7 DEF C!Unmounts, C!Mounts, C!FilesOK
  <2>. QED  BY <1>7, <2>1 DEF C!Unmounts, C!Mounts, C!TypeOK, C!FilesOK
<1>. QED  BY <1>3, <1>4, <1>5, <1>6, <1>7 DEF C!Next

LEMMA CertificatesInit ==
  ASSUME C!PairFilesAssumption, C!Init
  PROVE  C!TypeOK
<1>1. MaxPuts \in Nat \ {0}
  BY DEF C!PairFilesAssumption
<1>2. C!FilesOK
  <2>1. PICK start \in [Paths -> Issued \cup {C!Nothing}] :
          disk = [p \in Paths |-> IF start[p] = C!Nothing THEN C!NoPair
                                  ELSE [cert |-> [is |-> start[p], at |-> 1],
                                        key |-> [is |-> start[p], at |-> 1]]]
    BY DEF C!Init, C!FilesInit
  <2>2. C!NoPair \in [cert: C!FileOK, key: C!FileOK]
    BY <1>1 DEF C!NoPair, C!NoFile, C!FileOK
  <2>3. \A p \in Paths : [is |-> start[p], at |-> 1] \in C!FileOK
    BY <1>1 DEF C!FileOK
  <2>4. disk \in [Paths -> [cert: C!FileOK, key: C!FileOK]]
    BY <2>1, <2>2, <2>3
  <2>. QED  BY <1>1, <2>4 DEF C!Init, C!FilesInit, C!FilesOK, C!NoJob
<1>3. C!NoScan \in ScanOK /\ C!Loadable \in C!LoadedOK
  BY <1>1, <1>2, NoScanOK, LoadableOK
<1>. QED  BY <1>2, <1>3 DEF C!Init, C!TypeOK, ScanOK

-----------------------------------------------------------------------------
(* The pass of the crawlers: the types.                                    *)

LEMMA RereadOK ==
  ASSUME W!TypeOK, NEW m \in W!Memory, MaxEdits \in Nat
  PROVE  W!Reread(m) \in W!Memory
<1>1. file.set \in W!Settings /\ file.stamp \in 0..MaxEdits /\ W!Defaults \in W!Settings
  BY DEF W!TypeOK, W!Defaults, W!Settings
<1>. QED  BY <1>1 DEF W!Reread, W!NoMemory, W!Memory

LEMMA CrawlersInit ==
  ASSUME W!CrawlersAssumption, W!Init
  PROVE  W!TypeOK
<1>1. MaxEdits \in Nat \ {0}
  BY DEF W!CrawlersAssumption
<1>2. W!Defaults \in W!Settings
  BY DEF W!Defaults, W!Settings
<1>3. file \in [kind: {"saved", "broken", "gone"}, set: W!Settings, stamp: 1..MaxEdits]
  BY <1>1, <1>2 DEF W!Init
<1>4. W!NoMemory \in W!Memory /\ W!Reread(W!NoMemory) \in W!Memory
  BY <1>1, <1>2, <1>3 DEF W!NoMemory, W!Memory, W!Reread
<1>5. W!NoDraft \in [set: W!Settings, of: 0..MaxEdits, adds: BOOLEAN]
  BY <1>1, <1>2 DEF W!NoDraft
<1>. QED  BY <1>3, <1>4, <1>5 DEF W!Init, W!TypeOK

LEMMA CrawlersStep ==
  ASSUME W!CrawlersAssumption, W!TypeOK, W!Next
  PROVE  W!TypeOK'
<1>. USE DEF W!Goes
<1>. DEFINE Drafts == [set: W!Settings, of: 0..MaxEdits, adds: BOOLEAN]
            fresh == W!Reread(admin)
<1>1. MaxEdits \in Nat \ {0} /\ W!Defaults \in W!Settings /\ W!NoDraft \in Drafts
  BY DEF W!CrawlersAssumption, W!Defaults, W!Settings, W!NoDraft
<1>2. fresh \in W!Memory /\ W!Reread(core) \in W!Memory
  BY <1>1, RereadOK DEF W!TypeOK
<1>3. fresh.set \in W!Settings /\ fresh.stamp \in 0..MaxEdits
  BY <1>2 DEF W!Memory
<1>4. /\ \A on \in BOOLEAN : [fresh.set EXCEPT !.pass = on] \in W!Settings
      /\ \A o \in Owners : [fresh.set EXCEPT !.held = @ \cup {o}] \in W!Settings
      /\ \A s \in W!Settings, o \in Owners : [s EXCEPT !.held = @ \ {o}] \in W!Settings
  BY <1>3 DEF W!Settings
<1>5. ASSUME NEW r \in Requests, NEW to \in {"save", "recheck"}, NEW s \in W!Settings,
             NEW adds \in BOOLEAN, W!Begins(r, to, s, adds), admin' = fresh
      PROVE  W!TypeOK'
  <2>. HIDE DEF fresh
  <2>1. [set |-> s, of |-> fresh.stamp, adds |-> adds] \in Drafts
    BY <1>3
  <2>2. draft' = [draft EXCEPT ![r] = [set |-> s, of |-> fresh.stamp, adds |-> adds]]
    BY <1>5 DEF W!Begins, fresh
  <2>. QED  BY <1>2, <1>5, <2>1, <2>2 DEF W!Begins, W!TypeOK
<1>6. ASSUME NEW r \in Requests, W!Switch(r) \/ W!Hold(r)
      PROVE  W!TypeOK'
  <2>1. CASE W!Switch(r)
    <3>1. PICK on \in BOOLEAN : /\ W!Begins(r, IF on THEN "save" ELSE "recheck",
                                             [fresh.set EXCEPT !.pass = on], FALSE)
                                /\ admin' = fresh
      BY <2>1 DEF W!Switch
    <3>. QED  BY <1>4, <1>5, <3>1
  <2>2. CASE W!Hold(r)
    <3>1. PICK o \in Owners : /\ W!Begins(r, "recheck", [fresh.set EXCEPT !.held = @ \cup {o}], TRUE)
                              /\ admin' = fresh
      BY <2>2 DEF W!Hold
    <3>. QED  BY <1>4, <1>5, <3>1
  <2>. QED  BY <1>6, <2>1, <2>2
<1>7. ASSUME NEW r \in Requests, W!Release(r)
      PROVE  W!TypeOK'
  <2>. DEFINE sharing == {q \in Requests : pc[q] \in {"recheck", "save"} /\ draft[q].of = fresh.stamp}
  <2>1. PICK o \in Owners, moved \in SUBSET {q \in sharing : draft[q].adds} :
          /\ admin' = [fresh EXCEPT !.set.held = @ \ {o}]
          /\ draft' = [q \in Requests |->
               IF q = r THEN [set |-> [fresh.set EXCEPT !.held = @ \ {o}], of |-> fresh.stamp,
                              adds |-> FALSE]
               ELSE IF q \in sharing \ moved THEN [draft[q] EXCEPT !.set.held = @ \ {o}]
               ELSE draft[q]]
    BY <1>7 DEF W!Release
  <2>. HIDE DEF fresh
  <2>2. draft \in [Requests -> Drafts]
    BY DEF W!TypeOK
  <2>3. \A d \in Drafts : [d EXCEPT !.set.held = @ \ {o}] \in Drafts
    <3>. SUFFICES ASSUME NEW d \in Drafts PROVE [d EXCEPT !.set.held = @ \ {o}] \in Drafts
      OBVIOUS
    <3>1. [d.set EXCEPT !.held = @ \ {o}] \in W!Settings
      BY <1>4
    <3>2. [d EXCEPT !.set.held = @ \ {o}] = [d EXCEPT !.set = [d.set EXCEPT !.held = @ \ {o}]]
      OBVIOUS
    <3>. QED  BY <3>1, <3>2
  <2>4. [set |-> [fresh.set EXCEPT !.held = @ \ {o}], of |-> fresh.stamp, adds |-> FALSE] \in Drafts
    BY <1>3, <1>4
  <2>5. draft' \in [Requests -> Drafts]
    BY <2>1, <2>2, <2>3, <2>4
  <2>6. admin' \in W!Memory
    <3>1. admin' = [fresh EXCEPT !.set = [fresh.set EXCEPT !.held = @ \ {o}]]
      BY <2>1
    <3>. QED  BY <1>2, <1>3, <1>4, <3>1 DEF W!Memory
  <2>. QED  BY <1>7, <2>5, <2>6 DEF W!Release, W!TypeOK
<1>8. ASSUME NEW r \in Requests, W!Confirmed(r) \/ W!Refused(r) \/ W!Tell(r) \/ W!Untold(r)
      PROVE  W!TypeOK'
  BY <1>1, <1>2, <1>8 DEF W!Confirmed, W!Refused, W!Tell, W!Untold, W!TypeOK
<1>9. ASSUME NEW r \in Requests, W!Save(r)
      PROVE  W!TypeOK'
  <2>1. draft[r].set \in W!Settings /\ file.stamp + 1 \in 1..MaxEdits
    BY <1>1, <1>9 DEF W!Save, W!TypeOK
  <2>. QED  BY <1>1, <1>9, <2>1 DEF W!Save, W!TypeOK, W!Memory
<1>10. CASE W!WatchCrawlers \/ W!CrawlersPage
  BY <1>2, <1>10 DEF W!WatchCrawlers, W!CrawlersPage, W!TypeOK
<1>11. CASE W!Edit
  <2>1. file.stamp + 1 \in 1..MaxEdits
    BY <1>1, <1>11 DEF W!Edit, W!TypeOK
  <2>. QED  BY <1>11, <2>1 DEF W!Edit, W!TypeOK
<1>. QED  BY <1>6, <1>7, <1>8, <1>9, <1>10, <1>11 DEF W!Next
-----------------------------------------------------------------------------
(* The theorems.                                                           *)

LEMMA DomainsStep ==
  ASSUME D!DomainsAssumption, DomainsInv, [D!Next]_(D!vars)
  PROVE  DomainsInv'
<1>1. CASE D!Next
  BY <1>1, AddRemoveOK, WriteOK, UntoldOK, HandsOK, RestartOK, LooksOK, ComesOK, BuildsOK, SwapsOK
     DEF D!Next
<1>2. CASE UNCHANGED D!vars
  <2>1. D!TypeOK' /\ Readable' /\ Remembered'
    BY <1>2 DEF D!vars, DomainsInv, D!TypeOK, Readable, Remembered, Covers
  <2>2. Routed'
    BY <1>2 DEF D!vars, DomainsInv, Routed, Sends
  <2>. QED  BY <2>1, <2>2 DEF DomainsInv
<1>. QED  BY <1>1, <1>2

LEMMA DomainsServe ==
  ASSUME D!DomainsAssumption, DomainsInv
  PROVE  D!SteadySiteIsServed
<1>. SUFFICES ASSUME NEW n \in DOMAIN steady, NEW h \in Asked
     PROVE  /\ h = n.host /\ ~n.pattern =>
                 D!To(router.sites, h) = IF n \in DOMAIN routes THEN routes[n] ELSE steady[n]
            /\ n.pattern /\ D!IsStrictPrefix(n.host, h) => D!To(router.sites, h) # D!NoWhere
  BY DEF D!SteadySiteIsServed
<1>1. router.sites \in D!Sites
  BY DEF DomainsInv, D!TypeOK
<1>2. /\ n \in DOMAIN router.sites
      /\ router.sites[n] = IF n \in DOMAIN routes THEN routes[n] ELSE steady[n]
  BY DEF DomainsInv, Routed, Sends
<1>3. h = n.host /\ ~n.pattern => D!To(router.sites, h) = router.sites[n]
  BY <1>1, <1>2, ToOK
<1>4. ASSUME n.pattern, D!IsStrictPrefix(n.host, h)
      PROVE  D!To(router.sites, h) # D!NoWhere
  <2>1. n \in D!Fitting(router.sites, h)
    BY <1>2, <1>4 DEF D!Fitting
  <2>. QED  BY <1>1, <2>1, ToOK DEF D!DomainsAssumption
<1>. QED  BY <1>2, <1>3, <1>4

(* Lists are lists and tables are tables, on disk, in memory and where     *)
(* they are about to be written or swapped in, and a site that no change   *)
(* touches is served all the while, by its own server or the one the       *)
(* settings give it, whoever edits, breaks or rereads the list and in      *)
(* whatever order routers are swapped in (Domains by itself).              *)
THEOREM SteadySitesAreServed ==
  ASSUME D!DomainsAssumption
  PROVE  D!Spec => [](D!TypeOK /\ D!SteadySiteIsServed)
<1>1. D!Init => DomainsInv
  BY DomainsInitOK
<1>2. DomainsInv /\ [D!Next]_(D!vars) => DomainsInv'
  BY DomainsStep
<1>3. DomainsInv => D!TypeOK /\ D!SteadySiteIsServed
  BY DomainsServe DEF DomainsInv
<1>. QED  BY <1>1, <1>2, <1>3, PTL DEF D!Spec

SitesInv ==
  /\ part = "domains" => DomainsInv
  /\ part = "certificates" => C!TypeOK
  /\ part = "crawlers" => W!TypeOK

(* The same of the domains, the certificates and the pass as the admin UI  *)
(* has them, with the types of the latter two.                             *)
THEOREM OwnersSitesAreServed == Spec => []SteadySiteIsServed
<1>. USE AdminAssumption DEF AdminAssumption
<1>1. Init => SitesInv
  <2>1. ASSUME Init, part = "domains" PROVE DomainsInv
    BY <2>1, DomainsInitOK DEF Init
  <2>2. ASSUME Init, part = "certificates" PROVE C!TypeOK
    BY <2>2, CertificatesInit DEF Init
  <2>3. ASSUME Init, part = "crawlers" PROVE W!TypeOK
    BY <2>3, CrawlersInit DEF Init
  <2>. QED  BY <2>1, <2>2, <2>3 DEF SitesInv
<1>2. SitesInv /\ [Next]_all => SitesInv'
  <2>. SUFFICES ASSUME SitesInv, [Next]_all PROVE SitesInv'
    OBVIOUS
  <2>1. part' = part
    BY DEF Next, Alone, all
  <2>2. ASSUME part = "domains" PROVE DomainsInv'
    <3>1. [D!Next]_(D!vars)
      BY <2>2 DEF Next, Alone, all, D!vars
    <3>. QED  BY <2>2, <3>1, DomainsStep DEF SitesInv
  <2>3. ASSUME part = "certificates" PROVE C!TypeOK'
    <3>1. CASE C!Next
      BY <2>3, <3>1, CertificatesStep DEF SitesInv
    <3>2. CASE UNCHANGED all
      BY <2>3, <3>2 DEF SitesInv, all, C!TypeOK, C!FilesOK
    <3>. QED  BY <2>3, <3>1, <3>2 DEF Next, Alone
  <2>4. ASSUME part = "crawlers" PROVE W!TypeOK'
    <3>1. CASE W!Next
      BY <2>4, <3>1, CrawlersStep DEF SitesInv
    <3>2. CASE UNCHANGED all
      BY <2>4, <3>2 DEF SitesInv, all, W!TypeOK
    <3>. QED  BY <2>4, <3>1, <3>2 DEF Next, Alone
  <2>. QED  BY <2>1, <2>2, <2>3, <2>4 DEF SitesInv
<1>3. SitesInv => SteadySiteIsServed
  BY DomainsServe DEF SitesInv, SteadySiteIsServed, DomainsInv
<1>. QED  BY <1>1, <1>2, <1>3, PTL DEF Spec

=============================================================================
