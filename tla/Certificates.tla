---------------------------- MODULE Certificates ----------------------------
(***************************************************************************)
(* The certificates of the sites: the set in the memory of the core, and   *)
(* its rescans by the watch and at the word of an upload, with no lock     *)
(* between them (edgetls/set.go).                                          *)
(*                                                                         *)
(* A name is [host, pattern], the host being the sequence of its labels    *)
(* from the last to the first.                                             *)
(***************************************************************************)
EXTENDS PairFiles, Sequences, SequencesExt

CONSTANTS
  LeafNames,  \* the names in each certificate
  Asked       \* the hosts clients ask for by SNI

Watch == "watch"  \* the goroutine of Set.Watch
Reloaders == Requests \cup {Watch}

CertificatesAssumption ==
  /\ Watch \notin Requests
  /\ LeafNames \in [Issued -> SUBSET [host: Seq(STRING), pattern: BOOLEAN]]
  /\ Asked \subseteq Seq(STRING)

VARIABLES
  reachable,  \* the directories can be read
  current,    \* Set.current: the certificate of each path and its stamp
  scan        \* the rescan each reloader is in

vars == <<disk, puts, pc, job, reachable, current, scan>>

\* A path that is not in the snapshot has stamp 0, one that did not load a
\* stamp and no certificate.
Unseen == [p \in Paths |-> NoFile]
NoScan == [old |-> Unseen, fresh |-> Unseen, todo |-> {}, path |-> Nothing]

(***************************************************************************)
(* Set.Get.                                                                *)
(***************************************************************************)
Claimants(snap, name) ==
  {snap[p].is : p \in {q \in Paths : snap[q].is # Nothing /\ name \in LeafNames[snap[q].is]}}

\* claim: of two certificates for a name the one that lives longer wins.
ByName(snap, name) ==
  IF Claimants(snap, name) = {} THEN Nothing
  ELSE CHOOSE c \in Claimants(snap, name) :
         \A d \in Claimants(snap, name) : NotAfter[d] <= NotAfter[c]

\* A wildcard covers exactly one label; Nothing is the self-signed fallback.
Get(snap, host) ==
  LET exact == ByName(snap, [host |-> host, pattern |-> FALSE])
  IN IF exact # Nothing \/ Len(host) < 2 THEN exact
     ELSE ByName(snap, [host |-> Front(host), pattern |-> TRUE])

\* What a scan of an unchanging disk loads.
Loadable == [p \in Paths |-> IF Agrees(disk[p]) THEN disk[p].cert ELSE NoFile]

Init ==
  /\ FilesInit /\ reachable = TRUE
  /\ pc = [p \in Reloaders |-> "idle"]
  /\ current = Loadable /\ scan = [a \in Reloaders |-> NoScan]

Rests(a) == IF a = Watch THEN "idle" ELSE "tell"

\* findPairs of every directory: the layout with both files there.
Scans(a) ==
  /\ reachable
  /\ scan' = [scan EXCEPT ![a] = [NoScan EXCEPT !.old = current,
                                                !.todo = {p \in Paths : Whole(disk[p])}]]
  /\ Goes(a, Rests(a), "look")
  /\ UNCHANGED <<files, reachable, current>>

\* An unreachable directory does not discard the previous set. And an
\* upload may not get through to the core.
ScanFails(a) ==
  /\ ~reachable \/ a \in Requests
  /\ Goes(a, Rests(a), "idle")
  /\ UNCHANGED <<files, reachable, current, scan>>

\* The pairs are looked at one after the other, as they were listed.
First(a) == CHOOSE p \in scan[a].todo : TRUE
Looks(a) == pc[a] = "look" /\ scan[a].todo # {}

Kept(a, p) == scan[a].old[p].is # Nothing /\ scan[a].old[p].at = disk[p].cert.at

\* A file whose stamp has not changed is not parsed again.
Keeps(a) ==
  LET p == First(a)
  IN /\ Looks(a) /\ disk[p].cert.is # Nothing /\ Kept(a, p)
     /\ scan' = [scan EXCEPT ![a].fresh[p] = scan[a].old[p], ![a].old[p] = NoFile, ![a].todo = @ \ {p}]
     /\ UNCHANGED <<files, pc, reachable, current>>

\* The file is gone since the directory was listed.
Misses(a) ==
  LET p == First(a)
  IN /\ Looks(a) /\ disk[p].cert.is = Nothing
     /\ scan' = [scan EXCEPT ![a].old[p] = NoFile, ![a].todo = @ \ {p}]
     /\ UNCHANGED <<files, pc, reachable, current>>

Stamps(a) ==
  LET p == First(a)
  IN /\ Looks(a) /\ disk[p].cert.is # Nothing /\ ~Kept(a, p)
     /\ scan' = [scan EXCEPT ![a].fresh[p].at = disk[p].cert.at,
                             ![a].old[p] = NoFile, ![a].todo = @ \ {p}, ![a].path = p]
     /\ Goes(a, "look", "load")
     /\ UNCHANGED <<files, reachable, current>>

\* LoadX509KeyPair: a pair that does not agree is left out of the snapshot.
Loads(a) ==
  LET p == scan[a].path
  IN /\ Goes(a, "load", "look")
     /\ scan' = [scan EXCEPT ![a].path = Nothing,
                             ![a].fresh[p].is = IF Agrees(disk[p]) THEN disk[p].cert.is ELSE Nothing]
     /\ UNCHANGED <<files, reachable, current>>

Stores(a) ==
  /\ Goes(a, "look", "idle") /\ scan[a].todo = {}
  /\ current' = scan[a].fresh /\ scan' = [scan EXCEPT ![a] = NoScan]
  /\ UNCHANGED <<files, reachable>>

Reloads(a) ==
  \/ Scans(a) \/ ScanFails(a) \/ Keeps(a) \/ Misses(a) \/ Stamps(a) \/ Loads(a) \/ Stores(a)

\* The core is stopped, or killed, and started: Open scans before anything
\* is served. The uploads it was told of go unanswered.
Restart ==
  /\ reachable
  /\ current' = Loadable /\ scan' = [a \in Reloaders |-> NoScan]
  /\ pc' = [p \in Reloaders |-> IF pc[p] \in {"key", "cert"} THEN pc[p] ELSE "idle"]
  /\ UNCHANGED <<files, reachable>>

Unmounts ==
  /\ puts < MaxPuts /\ puts' = puts + 1
  /\ reachable /\ reachable' = FALSE
  /\ UNCHANGED <<disk, job, pc, current, scan>>
Mounts == ~reachable /\ reachable' = TRUE /\ UNCHANGED <<files, pc, current, scan>>

Next ==
  \/ (reachable /\ FilesNext /\ UNCHANGED <<reachable, current, scan>>)
  \/ \E a \in Reloaders :
       Scans(a) \/ ScanFails(a) \/ Keeps(a) \/ Misses(a) \/ Stamps(a) \/ Loads(a) \/ Stores(a)
  \/ Restart \/ Unmounts \/ Mounts

\* The watch looks again and again, an upload's word is worked off.
Fairness == \A a \in Reloaders : WF_vars(Reloads(a))

Spec == Init /\ [][Next]_vars
FairSpec == Spec /\ Fairness

(***************************************************************************)
(* Properties.                                                             *)
(***************************************************************************)
LoadedOK == [Paths -> FileOK]
TypeOK ==
  /\ FilesOK /\ reachable \in BOOLEAN
  /\ pc \in [Reloaders -> {"idle", "key", "cert", "tell", "look", "load"}]
  /\ current \in LoadedOK
  /\ scan \in [Reloaders -> [old: LoadedOK, fresh: LoadedOK, todo: SUBSET Paths,
                             path: Paths \cup {Nothing}]]

\* Once the files are left alone, every pair agrees and the directories can
\* be read, every host is served the longest-living certificate there is for
\* it. A late scan may store an older snapshot over a newer one, but not for
\* good.
CertificatesInForce ==
  reachable => \A h \in Asked :
    (\A p \in Paths : Whole(disk[p]) => Agrees(disk[p])) => Get(current, h) = Get(Loadable, h)
============================================================================
