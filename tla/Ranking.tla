------------------------------ MODULE Ranking ------------------------------
(***************************************************************************)
(* The ranked deciders (src/src/decider): LEAST_LATENCY, which also probes *)
(* the upstreams it does not favour, and PREFER_LEAST_ERRORS, which does   *)
(* not.                                                                    *)
(*                                                                         *)
(* Two kinds of tasks share the published ranking (an ArcSwap) and the     *)
(* observer's counters: requests, which load the ranking, draw a number,   *)
(* and are counted once their calls are over; and the one refresher, which *)
(* at every tick reads the counters, compares them with the oldest         *)
(* snapshot of its window, publishes the sorted ranking and moves the      *)
(* window.  They run on different threads, so every shared access is a     *)
(* step of its own.                                                        *)
(***************************************************************************)
EXTENDS Naturals, Sequences, FiniteSets

CONSTANTS
  Upstreams,      \* the fleet
  Tasks,          \* requests in progress at a time
  MaxAttempt,     \* the `max` each request asks the decider for
  Deciders,       \* the deciders that can be configured, out of Kinds
  ProbeEvery,     \* PROBE_EVERY: one request in so many is a probe
  Ticks,          \* the window, in refresh ticks
  MinSamples,     \* MIN_WINDOW_SAMPLES
  Scores          \* mean times (or error rates) a window can show

Kinds == {"LEAST_LATENCY", "PREFER_LEAST_ERRORS"}

ASSUME DecidersAssumption == Deciders \subseteq Kinds
ASSUME FleetAssumption   == IsFiniteSet(Upstreams) /\ Upstreams # {}
ASSUME NumbersAssumption == /\ MaxAttempt \in Nat \ {0}
                            /\ ProbeEvery \in Nat \ {0}
                            /\ Ticks \in Nat \ {0}
                            /\ MinSamples \in Nat \ {0}
                            /\ Scores \subseteq Nat

VARIABLES
  decider,    \* the configured decider, never changed
  ranking,    \* the published ranking
  requests,   \* number of the next request, modulo a full round of probes
  task,       \* task[t]: what request t has loaded or been handed
  samples,    \* samples[u]: u's calls counted by the observer, see Counted
  window,     \* the refresher's snapshots of `samples`, oldest first
  current,    \* the snapshot a refresh in progress works on, or None
  means,      \* what the windows of the last refresh showed of each upstream
  served,     \* the upstreams called by the request that ended last, until
              \* another one begins
  idle        \* idle[u]: refreshes in a row that found no new call of u;
              \* kept to state properties, Ticks stands for more too

vars == <<decider, ranking, requests, task, samples, window, current, means, served, idle>>

-----------------------------------------------------------------------------

Size        == Cardinality(Upstreams)
Challengers == Size - 1
Rankings    == {s \in [1..Size -> Upstreams] :
                  \A i, j \in 1..Size : s[i] = s[j] => i = j}

\* A whole round of probes: PROBE_EVERY requests for each challenger. Nothing
\* the decider computes from a request's number depends on more than this.
Round == IF Challengers = 0 THEN 1 ELSE ProbeEvery * Challengers

Counts == [Upstreams -> Nat]
None   == <<>>
Idle   == [at |-> "idle", order |-> <<>>]

Oldest == Head(window)
Latest == window[Len(window)]

\* The counters as the refresher read them last, at work on them or done.
LastRead == IF current = None THEN Latest ELSE current

\* SortKey: a scored upstream sorts by its score, an unscored one last.
Unscored  == [unscored |-> TRUE, score |-> 0]
Scored(s) == [unscored |-> FALSE, score |-> s]
Keys      == [unscored : BOOLEAN, score : Nat]

KeyLess(a, b) ==
  \/ ~a.unscored /\ b.unscored
  \/ a.unscored = b.unscored /\ a.score < b.score

-----------------------------------------------------------------------------
(* Requests *)

Position(u, order) == CHOOSE i \in DOMAIN order : order[i] = u

Probing == decider = "LEAST_LATENCY"

IsProbe(n) == Probing /\ Challengers # 0 /\ n % ProbeEvery = 0

\* Mutation: every probe goes to the first challenger.
ProbedFirst(n) == 2

\* The challenger whose turn it is, by its position in the ranking.
Probed(n) == ((n \div ProbeEvery) % Challengers) + 2

\* Mutation: the probed upstream stays where it was as well.
ToFrontTwice(order, p) ==
  <<order[p]>> \o SubSeq(order, 1, p - 1) \o SubSeq(order, p, Len(order))

\* The order with the upstream in position p moved to the front.
ToFront(order, p) ==
  <<order[p]>> \o SubSeq(order, 1, p - 1) \o SubSeq(order, p + 1, Len(order))

Take(order, max) == SubSeq(order, 1, IF max < Len(order) THEN max ELSE Len(order))

Chain(order, n) ==
  Take(IF IsProbe(n) THEN ToFront(order, Probed(n)) ELSE order, MaxAttempt)

Init ==
  /\ decider \in Deciders
  /\ ranking \in Rankings
  /\ requests = 0
  /\ task = [t \in Tasks |-> Idle]
  /\ samples = [u \in Upstreams |-> 0]
  /\ window = <<samples>>
  /\ current = None
  /\ means = [u \in Upstreams |-> Unscored]
  /\ served = {}
  /\ idle = [u \in Upstreams |-> Ticks]

\* decide loads the ranking ...
Load(t) ==
  /\ task[t].at = "idle"
  /\ task' = [task EXCEPT ![t] = [at |-> "loaded", order |-> ranking]]
  /\ served' = {}
  /\ UNCHANGED <<decider, ranking, requests, samples, window, current, means, idle>>

\* ... and draws the request's number. PREFER_LEAST_ERRORS keeps no number.
Decide(t) ==
  /\ task[t].at = "loaded"
  /\ task' = [task EXCEPT ![t] = [at |-> "serving",
                                  order |-> Chain(@.order, requests)]]
  /\ requests' = IF Probing THEN (requests + 1) % Round ELSE requests
  /\ UNCHANGED <<decider, ranking, samples, window, current, means, served, idle>>

\* The request is over: it called the first k upstreams of its chain (the rest
\* of it by failover or hedge), and the observer counted the calls in
\* `counted`. An abandoned call is a sample for LEAST_LATENCY (Diff::calls)
\* and none for PREFER_LEAST_ERRORS (Diff::answered).
\*
\* Bound: beyond MinSamples calls between two readings of the counters, more
\* make no difference to any window with both, and are not counted.
Counted(u, counted) ==
  IF u \in counted /\ samples[u] - LastRead[u] < MinSamples
  THEN samples[u] + 1 ELSE samples[u]

Serve(t, k, counted) ==
  /\ task[t].at = "serving"
  /\ k \in 1..Len(task[t].order)
  /\ served' = {task[t].order[i] : i \in 1..k}
  /\ counted \subseteq served'
  /\ Probing => counted = served'
  /\ samples' = [u \in Upstreams |-> Counted(u, counted)]
  /\ task' = [task EXCEPT ![t] = Idle]
  /\ UNCHANGED <<decider, ranking, requests, window, current, means, idle>>

-----------------------------------------------------------------------------
(* The refresher *)

\* refresh, first half: read every counter (see Stats for how that tears).
ReadCounters ==
  /\ current = None
  /\ current' = samples
  /\ UNCHANGED <<decider, ranking, requests, task, samples, window, means, served, idle>>

\* The upstreams with calls enough in the window to be scored.
Measured ==
  IF current = None THEN {}
  ELSE {u \in Upstreams : current[u] - Oldest[u] >= MinSamples}

MeanOf(u, score) == IF u \in Measured THEN Scored(score[u]) ELSE Unscored

\* Mutation: the incumbent has no margin.
SortKeyWithoutMargin(u, mean) ==
  IF mean.unscored THEN Unscored ELSE Scored(5 * mean.score)

\* The incumbent's score is multiplied by 1 - margin, four fifths; every sort
\* key is taken five times, to stay in whole numbers.
SortKey(u, mean) ==
  IF mean.unscored THEN Unscored
  ELSE IF u = ranking[1] THEN Scored(4 * mean.score)
  ELSE Scored(5 * mean.score)

\* Mutation: the sort is not stable.
SortsBeforeUnstably(a, b, key) ==
  \/ KeyLess(key[a], key[b])
  \/ key[a] = key[b] /\ Position(b, ranking) < Position(a, ranking)

\* sort_by is stable: equal keys keep their order.
SortsBefore(a, b, key) ==
  \/ KeyLess(key[a], key[b])
  \/ key[a] = key[b] /\ Position(a, ranking) < Position(b, ranking)

\* Mutation: upstreams without a score are left out of the ranking.
SortedMeasured(key) ==
  SelectSeq(CHOOSE s \in Rankings :
              \A i, j \in 1..Size : i < j => SortsBefore(s[i], s[j], key),
            LAMBDA u : ~key[u].unscored)

Sorted(key) ==
  CHOOSE s \in Rankings :
    \A i, j \in 1..Size : i < j => SortsBefore(s[i], s[j], key)

\* Mutation: one snapshot too many is kept.
AdvanceLate(w, snapshot) ==
  LET pushed == Append(w, snapshot)
  IN IF Len(pushed) > Ticks + 1 THEN Tail(pushed) ELSE pushed

\* Window::advance: the new snapshot in at the back, the oldest out.
Advance(w, snapshot) ==
  LET pushed == Append(w, snapshot)
  IN IF Len(pushed) > Ticks THEN Tail(pushed) ELSE pushed

\* Snapshots are kept relative to the oldest: only differences are ever taken.
Less(c, origin) == [u \in Upstreams |-> c[u] - origin[u]]

\* refresh, second half: score, sort, publish, move the window. What the calls
\* of a window measured is up to the upstreams.
Publish(score) ==
  /\ current # None
  /\ means' = [u \in Upstreams |-> MeanOf(u, score)]
  /\ ranking' = Sorted([u \in Upstreams |-> SortKey(u, means'[u])])
  /\ LET moved == Advance(window, current)
     IN /\ window' = [i \in 1..Len(moved) |-> Less(moved[i], Head(moved))]
        /\ samples' = Less(samples, Head(moved))
  /\ idle' = [u \in Upstreams |->
                IF current[u] # Latest[u] THEN 0
                ELSE IF idle[u] < Ticks THEN idle[u] + 1 ELSE Ticks]
  /\ current' = None
  /\ UNCHANGED <<decider, requests, task, served>>

Refresh ==
  \/ ReadCounters
  \/ \E score \in [Measured -> Scores] : Publish(score)

Request(t) ==
  \/ Load(t)
  \/ Decide(t)
  \/ \E k \in 1..Size, counted \in SUBSET Upstreams : Serve(t, k, counted)

Next == Refresh \/ \E t \in Tasks : Request(t)

Spec == Init /\ [][Next]_vars

\* Requests keep coming and end. The refresher needs no fairness: what it must
\* not do is starve an upstream, running or stopped by the shutdown.
FairSpec == Spec /\ \A t \in Tasks : WF_vars(Request(t))

-----------------------------------------------------------------------------
(* Properties *)

TypeOK ==
  /\ decider \in Deciders
  /\ ranking \in Rankings
  /\ requests \in 0..(Round - 1)
  /\ task \in [Tasks -> [at : {"idle", "loaded", "serving"}, order : Seq(Upstreams)]]
  /\ samples \in Counts
  /\ window \in Seq(Counts) /\ window # <<>>
  /\ current \in Counts \cup {None}
  /\ means \in [Upstreams -> Keys]
  /\ served \subseteq Upstreams
  /\ idle \in [Upstreams -> 0..Ticks]

\* Whatever the refresher publishes between a request's load and its decision,
\* the request is handed distinct upstreams, as many as it asked for or the
\* whole fleet (decider.rs: "up to `max` distinct upstreams").
ChainsAreDistinct ==
  \A t \in Tasks :
    task[t].at = "serving" =>
      LET chain == task[t].order
      IN /\ Len(chain) = IF MaxAttempt < Size THEN MaxAttempt ELSE Size
         /\ \A i, j \in DOMAIN chain : chain[i] = chain[j] => i = j

\* The counters never lie behind a snapshot and the snapshots are in order, so
\* the saturating subtraction of Snapshot::diff never saturates: no window
\* loses calls.
WindowInOrder ==
  \A u \in Upstreams :
    /\ \A i \in 1..(Len(window) - 1) : window[i][u] <= window[i + 1][u]
    /\ Latest[u] <= samples[u]
    /\ current # None => Latest[u] <= current[u] /\ current[u] <= samples[u]

\* A score stands for the calls of the last Ticks refresh ticks, no more and
\* no fewer: an upstream that was not called for that long has none, and a
\* single call keeps one alive for as long (window.rs: trimmed after the push).
\* The second is said for MinSamples = 1 only, where one call is sample enough;
\* with more, a score also depends on how many calls each tick saw.
ScoresAgeOut ==
  \A u \in Upstreams :
    /\ idle[u] = Ticks => means[u] = Unscored
    /\ MinSamples = 1 /\ idle[u] # Ticks => means[u] # Unscored

\* The windows are sound, the scores are theirs, and no upstream with a score
\* ranks below one without.
ScoresCoverTheWindow ==
  /\ WindowInOrder
  /\ ScoresAgeOut
  /\ \A i, j \in 1..Size :
       i < j /\ means[ranking[i]].unscored => means[ranking[j]].unscored

\* The head is sticky: a refresh replaces it only by an upstream that has a
\* score, and if the head has one too, the newcomer is better by more than the
\* margin (PROMOTION_MARGIN).
HeadIsSticky ==
  [][LET old == means'[ranking[1]]
         new == means'[ranking'[1]]
     IN ranking'[1] # ranking[1] =>
          ~new.unscored /\ (old.unscored \/ 5 * new.score < 4 * old.score)]_vars

\* No upstream gains on another one without having been measured better: if b
\* overtakes a, b has a score, and a has none or a worse one.
OvertakingIsEarned ==
  [][\A a, b \in Upstreams :
       /\ Position(a, ranking) < Position(b, ranking)
       /\ Position(b, ranking') < Position(a, ranking')
       => KeyLess(means'[b], means'[a])]_vars

\* No upstream is starved by a least-latency ranking: however the refreshes
\* reorder the fleet between probes, every upstream is called again and again.
\* (An upstream that is never called has no score, so it can only move back;
\* the rotating probe reaches it once it stops moving.)
NobodyStarves == \A u \in Upstreams : []<>(u \in served)
=============================================================================
