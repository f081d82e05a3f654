----------------------------- MODULE WindowRows -----------------------------
(***************************************************************************)
(* The rows of one window of the aggregate: what an event adds to them,    *)
(* and what goes out when the window closes (aggregate/window.go), with    *)
(* the estimates of distinct addresses (aggregate/sketch.go). Aggregator   *)
(* has the windows themselves, and what becomes of them.                   *)
(*                                                                         *)
(* An event has the fields of RuleSet's requests and its outcome. A rule   *)
(* is named by its id here, which the wire never carries: for a hash.      *)
(***************************************************************************)
EXTENDS Integers, Sequences, FiniteSets, SequencesExt, FiniteSetsExt

CONSTANTS
  Served,       \* the hosts the node serves
  MaxRows,      \* rows of a window that go out
  LiveLimit,    \* keys a window keeps while it is open
  SparseLimit,  \* hashes a sketch keeps as they are
  Hash          \* the hash of an address: [register, zeros]

Registers == {Hash[a].register : a \in DOMAIN Hash}

(***************************************************************************)
(* Sketches: a set of hashes while they are few, then registers.           *)
(***************************************************************************)
NoSketch == [dense |-> FALSE, hashes |-> {}, regs |-> [i \in Registers |-> 0]]

\* addDense, for every hash of a set.
Raised(regs, hs) ==
  [i \in Registers |-> Max({regs[i]} \cup {h.zeros : h \in {g \in hs : g.register = i}})]

Densified(s) == [dense |-> TRUE, hashes |-> {}, regs |-> Raised(s.regs, s.hashes)]

AddAll(s, hs) ==
  LET all == [s EXCEPT !.hashes = @ \cup hs]
  IN IF s.dense THEN [s EXCEPT !.regs = Raised(s.regs, hs)]
     ELSE IF Cardinality(all.hashes) > SparseLimit THEN Densified(all) ELSE all

MergeSketch(s, o) ==
  LET t == IF o.dense /\ ~s.dense THEN Densified(s) ELSE s
  IN IF o.dense THEN [t EXCEPT !.regs = [i \in Registers |-> Max({t.regs[i], o.regs[i]})]]
     ELSE AddAll(t, o.hashes)

(***************************************************************************)
(* Keys and counts.                                                        *)
(***************************************************************************)
\* keyOf: a host that is not served is none, of an address only its
\* network goes out.
KeyOf(e) == [domain |-> IF e.host \in Served THEN e.host ELSE <<>>,
             net |-> IF e.ip = <<>> THEN <<>> ELSE Front(e.ip),
             rule |-> e.rule, shadow |-> ToSet(e.shadow)]
RestKey == [domain |-> <<"rest">>, net |-> <<>>, rule |-> -1, shadow |-> {}]

NoCounts == [requests |-> 0, cookies |-> 0, blocked |-> 0, limited |-> 0, shadowed |-> 0,
             addrs |-> NoSketch]

If(b) == IF b THEN 1 ELSE 0
CountIn(c, e) ==
  [requests |-> c.requests + 1,
   cookies |-> c.cookies + If(e.cookie),
   blocked |-> c.blocked + If(e.decision = "block"),
   limited |-> c.limited + If(e.decision = "ratelimit"),
   shadowed |-> c.shadowed + If(e.shadow # <<>>),
   addrs |-> IF e.ip = <<>> THEN c.addrs ELSE AddAll(c.addrs, {Hash[e.ip]})]

MergeCounts(c, o) ==
  [requests |-> c.requests + o.requests, cookies |-> c.cookies + o.cookies,
   blocked |-> c.blocked + o.blocked, limited |-> c.limited + o.limited,
   shadowed |-> c.shadowed + o.shadowed, addrs |-> MergeSketch(c.addrs, o.addrs)]

(***************************************************************************)
(* A window: [rows, overflow], a row for each key, and past LiveLimit the  *)
(* overflow for the rest.                                                  *)
(***************************************************************************)
EmptyWindow == [rows |-> [k \in {} |-> NoCounts], overflow |-> NoCounts]

AddEvent(w, e) ==
  LET k == KeyOf(e)
  IN IF k \notin DOMAIN w.rows /\ Cardinality(DOMAIN w.rows) >= LiveLimit
     THEN [w EXCEPT !.overflow = CountIn(@, e)]
     ELSE [w EXCEPT !.rows = [j \in DOMAIN @ \cup {k} |->
             IF j # k THEN @[j] ELSE CountIn(IF k \in DOMAIN @ THEN @[k] ELSE NoCounts, e)]]

\* What a window has after some events, in their order.
Gathered(lines) ==
  LET window[n \in 0..Len(lines)] ==
        IF n = 0 THEN EmptyWindow ELSE AddEvent(window[n - 1], lines[n])
  IN window[Len(lines)]

\* Mutant of Keep: the row of the rest comes on top.
KeepMaxRows(w) == Min({Cardinality(DOMAIN w.rows), MaxRows})

Keep(w) ==
  LET n == Cardinality(DOMAIN w.rows)
  IN IF n > MaxRows \/ (n = MaxRows /\ w.overflow # NoCounts) THEN MaxRows - 1 ELSE n

\* The largest ones; the order among equals is one of all the keys.
Largest(w) ==
  CHOOSE ks \in kSubset(Keep(w), DOMAIN w.rows) :
    \A k \in ks, j \in DOMAIN w.rows \ ks : w.rows[k].requests >= w.rows[j].requests

Folded(w) ==
  LET rest == SetToSeq(DOMAIN w.rows \ Largest(w))
      folded[n \in 0..Len(rest)] ==
        IF n = 0 THEN w.overflow ELSE MergeCounts(folded[n - 1], w.rows[rest[n]])
  IN folded[Len(rest)]

\* window.close: the row of the rest is there when anything is folded.
Close(w) ==
  [k \in Largest(w) \cup (IF Folded(w) = NoCounts THEN {} ELSE {RestKey}) |->
     IF k = RestKey THEN Folded(w) ELSE w.rows[k]]
=============================================================================
