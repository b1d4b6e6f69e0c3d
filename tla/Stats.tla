------------------------------- MODULE Stats -------------------------------
(***************************************************************************)
(* What the observer holds about one upstream (src/src/observer), written  *)
(* by the requests' tasks and read by the refresher and the scrape.        *)
(*                                                                         *)
(* UpstreamStats is a struct of atomics without a lock. A call is recorded *)
(* by up to five fetch_adds and a snapshot is one load per field, all with *)
(* Ordering::Relaxed, so a snapshot can hold any part of a record that is  *)
(* being made. The adds of a record are taken in any order, the loads of a *)
(* snapshot in the order of the code: that lets every part of a record be  *)
(* the part that is seen.                                                  *)
(*                                                                         *)
(* Fields whose counts are only ever used together are one field here:     *)
(* "success" stands for success and rpc_caller_fault, "error" for the four *)
(* outcomes Diff::error adds up, and "bucket" for the finite buckets of    *)
(* the duration ladder.                                                    *)
(***************************************************************************)
EXTENDS Naturals, Sequences, FiniteSets, FiniteSetsExt

CONSTANTS
  Writers,        \* tasks recording a call
  Durations,      \* how long a call may take, in micros
  Ladder,         \* the last bound of BUCKET_BOUNDS_MICROS
  Penalty,        \* rpc_timeout, the price of a retryable failure
  MaxCalls,       \* bound: calls recorded in a behaviour
  MaxSnapshots    \* bound: snapshots taken in a behaviour

ASSUME WritersAssumption   == IsFiniteSet(Writers)
ASSUME DurationsAssumption == /\ Durations \subseteq Nat /\ Durations # {}
                              /\ IsFiniteSet(Durations)
ASSUME NumbersAssumption == {Ladder, Penalty, MaxCalls, MaxSnapshots} \subseteq Nat

Outcomes == {"success", "error", "abandoned"}

\* The fields, in the order UpstreamStats::snapshot loads them.
FieldSeq == <<"success", "error", "abandoned", "retryable_failures", "bucket",
              "micros", "retryable_micros">>
Fields   == {FieldSeq[i] : i \in 1..Len(FieldSeq)}
Counts   == [Fields -> Nat]
Zero     == [f \in Fields |-> 0]

\* Calls as the observer is told of them. Only errors are retryable, and not
\* all of them: a 4xx status is an error no other upstream would fix.
Calls == {c \in [outcome : Outcomes, retryable : BOOLEAN, micros : Durations] :
            c.retryable => c.outcome = "error"}

VARIABLES
  stats,      \* the atomics
  adds,       \* adds[w]: the fetch_adds writer w still has to make
  loaded,     \* fields the snapshot in progress has loaded, 0 when none is
  reading,    \* their values
  base, last, \* the two latest complete snapshots, older first
  calls,      \* all calls so far, in the order their recording began
  taken,      \* taken.s: how many calls had begun when snapshot s did, and how
              \* many had their recording overlap it
  snapshots   \* snapshots begun

vars == <<stats, adds, loaded, reading, base, last, calls, taken, snapshots>>

-----------------------------------------------------------------------------

Retried(c) == IF c.retryable THEN 1 ELSE 0

\* Mutation: an abandoned call is timed, but not counted.
AddsUncounted(c) ==
  [f \in Fields |->
     IF f = c.outcome /\ f # "abandoned" THEN 1
     ELSE IF f = "bucket" THEN (IF c.micros <= Ladder THEN 1 ELSE 0)
     ELSE IF f = "micros" THEN c.micros
     ELSE IF f = "retryable_failures" THEN Retried(c)
     ELSE IF f = "retryable_micros" THEN Retried(c) * c.micros
     ELSE 0]

\* Mutation: the time of a retryable failure is not set apart.
AddsUnseparated(c) ==
  [f \in Fields |->
     IF f = c.outcome THEN 1
     ELSE IF f = "bucket" THEN (IF c.micros <= Ladder THEN 1 ELSE 0)
     ELSE IF f = "micros" THEN c.micros
     ELSE IF f = "retryable_failures" THEN Retried(c)
     ELSE 0]

\* Mutation: a retryable failure is counted as the caller's fault.
AddsMisfiled(c) ==
  [f \in Fields |->
     IF f = (IF c.retryable THEN "success" ELSE c.outcome) THEN 1
     ELSE IF f = "bucket" THEN (IF c.micros <= Ladder THEN 1 ELSE 0)
     ELSE IF f = "micros" THEN c.micros
     ELSE IF f = "retryable_failures" THEN Retried(c)
     ELSE IF f = "retryable_micros" THEN Retried(c) * c.micros
     ELSE 0]

\* What record, record_abandoned and record_duration add for call c. A call
\* past the last bound is in no bucket.
Adds(c) ==
  [f \in Fields |->
     IF f = c.outcome THEN 1
     ELSE IF f = "bucket" THEN (IF c.micros <= Ladder THEN 1 ELSE 0)
     ELSE IF f = "micros" THEN c.micros
     ELSE IF f = "retryable_failures" THEN Retried(c)
     ELSE IF f = "retryable_micros" THEN Retried(c) * c.micros
     ELSE 0]

Busy  == {w \in Writers : adds[w] # Zero}
Quiet == Busy = {}

Init ==
  /\ stats = Zero
  /\ adds = [w \in Writers |-> Zero]
  /\ loaded = 0
  /\ reading = Zero
  /\ base = Zero
  /\ last = Zero
  /\ calls = <<>>
  /\ taken = [s \in {"base", "last", "reading"} |-> [begun |-> 0, overlap |-> 0]]
  /\ snapshots = 0

\* A task begins to record a call.
Record(w, c) ==
  /\ w \notin Busy
  /\ Len(calls) < MaxCalls
  /\ adds' = [adds EXCEPT ![w] = Adds(c)]
  /\ calls' = Append(calls, c)
  /\ taken' = IF loaded = 0 THEN taken
              ELSE [taken EXCEPT !.reading.overlap = @ + 1]
  /\ UNCHANGED <<stats, loaded, reading, base, last, snapshots>>

\* One fetch_add.
FetchAdd(w, f) ==
  /\ adds[w][f] # 0
  /\ stats' = [stats EXCEPT ![f] = @ + adds[w][f]]
  /\ adds' = [adds EXCEPT ![w][f] = 0]
  /\ UNCHANGED <<loaded, reading, base, last, calls, taken, snapshots>>

\* Mutation: the snapshot skips every other field.
LoadSkipping ==
  LET f == FieldSeq[loaded + 1]
  IN /\ loaded < Len(FieldSeq)
     /\ loaded = 0 => snapshots < MaxSnapshots
     /\ loaded' = loaded + 2
     /\ reading' = [reading EXCEPT ![f] = stats[f]]
     /\ snapshots' = IF loaded = 0 THEN snapshots + 1 ELSE snapshots
     /\ UNCHANGED <<stats, adds, base, last, calls, taken>>

\* UpstreamStats::snapshot: one load.
Load ==
  LET f == FieldSeq[loaded + 1]
  IN /\ loaded < Len(FieldSeq)
     /\ loaded = 0 => snapshots < MaxSnapshots
     /\ loaded' = loaded + 1
     /\ reading' = [reading EXCEPT ![f] = stats[f]]
     /\ snapshots' = IF loaded = 0 THEN snapshots + 1 ELSE snapshots
     /\ taken' = IF loaded = 0
                 THEN [taken EXCEPT !.reading = [begun |-> Len(calls),
                                                 overlap |-> Cardinality(Busy)]]
                 ELSE taken
     /\ UNCHANGED <<stats, adds, base, last, calls>>

\* The snapshot is complete; the one before it is its baseline.
Keep ==
  /\ loaded = Len(FieldSeq)
  /\ base' = last
  /\ last' = reading
  /\ taken' = [taken EXCEPT !.base = taken.last, !.last = taken.reading]
  /\ loaded' = 0
  /\ reading' = Zero
  /\ UNCHANGED <<stats, adds, calls, snapshots>>

Next ==
  \/ \E w \in Writers, c \in Calls : Record(w, c)
  \/ \E w \in Writers, f \in Fields : FetchAdd(w, f)
  \/ Load
  \/ Keep

Spec == Init /\ [][Next]_vars

-----------------------------------------------------------------------------
(* What is computed from snapshots *)

Monus(a, b) == IF a < b THEN 0 ELSE a - b

\* Snapshot::diff saturates field by field.
Diff(new, old) == [f \in Fields |-> Monus(new[f], old[f])]
Answered(d)    == d["error"] + d["success"]
CallsIn(d)     == Answered(d) + d["abandoned"]

\* Diff::latency_score, before it is divided by the window's calls.
LatencyTotal(d) ==
  Monus(d["micros"], d["retryable_micros"]) + d["retryable_failures"] * Penalty

\* The histogram of one scrape: the finite buckets, and +Inf, which is
\* sample_count, the sum of the outcome counters.
FiniteBuckets(s) == s["bucket"]
SampleCount(s)   == s["success"] + s["error"] + s["abandoned"]

-----------------------------------------------------------------------------
(* Properties *)

TypeOK ==
  /\ stats \in Counts
  /\ adds \in [Writers -> Counts]
  /\ loaded \in 0..Len(FieldSeq)
  /\ {reading, base, last} \subseteq Counts
  /\ calls \in Seq(Calls)
  /\ taken \in [{"base", "last", "reading"} -> [begun : Nat, overlap : Nat]]
  /\ snapshots \in 0..MaxSnapshots

\* Counters only grow and snapshots are kept in the order they were taken, so
\* the saturating subtraction of diff never hides a loss.
DiffNeverSaturates ==
  \A f \in Fields : base[f] <= last[f] /\ last[f] <= stats[f]

\* A scrape may count more observations in the finite buckets than in +Inf,
\* but by no more than the calls whose recording overlapped it. A window, which
\* is what Snapshot::diff makes of two snapshots, may show more retryable
\* failures than failures, and then charge the penalty for a call it does not
\* count, but by no more than the calls that overlapped either snapshot: one
\* that overlapped the older can have been counted there as a failure and be
\* left to this window as a retryable one.
TornByOverlapOnly ==
  LET d == Diff(last, base)
  IN /\ FiniteBuckets(last) <= SampleCount(last) + taken["last"].overlap
     /\ d["retryable_failures"]
          <= d["error"] + taken["base"].overlap + taken["last"].overlap

\* The calls whose recording began between the two snapshots, and what they
\* cost: a retryable failure the penalty, any other call the time it took.
Window   == (taken["base"].begun + 1)..taken["last"].begun
Cost(c)  == IF c.retryable THEN Penalty ELSE c.micros
CostOf(I) == MapThenSumSet(LAMBDA i : Cost(calls[i]), I)

\* Each call whose recording overlaps a snapshot can misprice the window by its
\* own time twice (read as saved, not as spent) and one penalty. With none, the
\* score is the mean cost of exactly the window's calls, although durations
\* and penalties come from counters that are never reset.
ScoreIsTheMeanCost ==
  LET d     == Diff(last, base)
      torn  == taken["base"].overlap + taken["last"].overlap
      slack == torn * (2 * Max(Durations) + Penalty)
  IN /\ DiffNeverSaturates
     /\ LatencyTotal(d) <= CostOf(Window) + slack
     /\ CostOf(Window) <= LatencyTotal(d) + slack
     /\ CallsIn(d) <= Cardinality(Window) + torn
     /\ Cardinality(Window) <= CallsIn(d) + torn
=============================================================================
