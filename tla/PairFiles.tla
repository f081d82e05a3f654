----------------------------- MODULE PairFiles -----------------------------
(***************************************************************************)
(* The files of certificates: a chain and a key that are replaced one      *)
(* after the other, by uploads through the admin UI (edgetls/install.go,   *)
(* admin/domains.go, admin/settings.go) and by hand or certbot.            *)
(*                                                                         *)
(* A key is named by the certificate it belongs to.                        *)
(***************************************************************************)
EXTENDS Naturals, FiniteSets

CONSTANTS
  Paths,     \* the places a pair may lie in
  Issued,    \* the certificates there are
  NotAfter,  \* when each one ends
  Requests,  \* uploads that may be under way at once
  MaxPuts    \* bound: how often a file is put in place

Nothing == "nothing"

PairFilesAssumption ==
  /\ IsFiniteSet(Paths) /\ IsFiniteSet(Issued) /\ Nothing \notin Issued
  /\ NotAfter \in [Issued -> Nat]
  /\ \A c, d \in Issued : NotAfter[c] = NotAfter[d] => c = d
  /\ IsFiniteSet(Requests) /\ MaxPuts \in Nat \ {0}

VARIABLES
  disk,  \* the chain and the key at each path, and when they were put there
  puts,  \* how many files were put in place: the clock of their mtimes
  pc,    \* where each actor is
  job    \* what each upload writes, and where

files == <<disk, puts, job>>

NoFile == [is |-> Nothing, at |-> 0]
NoPair == [cert |-> NoFile, key |-> NoFile]
Whole(pair) == pair.cert.is # Nothing /\ pair.key.is # Nothing
Agrees(pair) == pair.cert.is # Nothing /\ pair.cert.is = pair.key.is
NoJob == [path |-> Nothing, cert |-> Nothing]

FilesInit ==
  /\ \E start \in [Paths -> Issued \cup {Nothing}] :
       disk = [p \in Paths |-> IF start[p] = Nothing THEN NoPair
                               ELSE [cert |-> [is |-> start[p], at |-> 1],
                                     key |-> [is |-> start[p], at |-> 1]]]
  /\ puts = 1 /\ job = [r \in Requests |-> NoJob]

Goes(p, from, to) == pc[p] = from /\ pc' = [pc EXCEPT ![p] = to]

Put(p, file, c) ==
  /\ puts < MaxPuts /\ puts' = puts + 1
  /\ disk' = [disk EXCEPT ![p][file] = [is |-> c, at |-> puts + 1]]

\* Install, InstallPair: the pair was validated, its two temporary files
\* are written.
BeginsUpload(r) ==
  /\ Goes(r, "idle", "key")
  /\ \E p \in Paths, c \in Issued : job' = [job EXCEPT ![r] = [path |-> p, cert |-> c]]
  /\ UNCHANGED <<disk, puts>>

\* writePair: the key is renamed into place first.
RenamesKey(r) ==
  /\ Goes(r, "key", "cert")
  /\ Put(job[r].path, "key", job[r].cert)
  /\ UNCHANGED job

RenamesCert(r) ==
  /\ Goes(r, "cert", "tell")
  /\ Put(job[r].path, "cert", job[r].cert)
  /\ job' = [job EXCEPT ![r] = NoJob]

\* A rename fails, or the admin UI is killed.
UploadEnds(r) ==
  /\ pc[r] \in {"key", "cert"} /\ pc' = [pc EXCEPT ![r] = "idle"]
  /\ job' = [job EXCEPT ![r] = NoJob]
  /\ UNCHANGED <<disk, puts>>

\* By hand, or by certbot: one file at a time, in either order.
PutByHand ==
  /\ \E p \in Paths, file \in {"cert", "key"}, c \in Issued : Put(p, file, c)
  /\ UNCHANGED <<pc, job>>

RemovedByHand ==
  /\ puts < MaxPuts /\ puts' = puts + 1
  /\ \E p \in Paths : disk[p] # NoPair /\ disk' = [disk EXCEPT ![p] = NoPair]
  /\ UNCHANGED <<pc, job>>

FilesNext ==
  \/ \E r \in Requests : BeginsUpload(r) \/ RenamesKey(r) \/ RenamesCert(r) \/ UploadEnds(r)
  \/ PutByHand \/ RemovedByHand

FileOK == [is: Issued \cup {Nothing}, at: 0..MaxPuts]
FilesOK ==
  /\ disk \in [Paths -> [cert: FileOK, key: FileOK]]
  /\ puts \in 1..MaxPuts
  /\ job \in [Requests -> [path: Paths \cup {Nothing}, cert: Issued \cup {Nothing}]]
============================================================================
