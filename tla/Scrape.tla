------------------------------- MODULE Scrape -------------------------------
(***************************************************************************)
(* What GET /metrics shows while chains are recording                      *)
(* (src/src/observer/mod.rs, snapshot.rs and prometheus.rs).               *)
(*                                                                         *)
(* A chain makes one record after the other; a record is a few fetch_adds  *)
(* with Ordering::Relaxed, taken here in any order. A scrape is one load   *)
(* per counter, in the order Collector::collect makes them: the upstreams, *)
(* the hedges, the requests, the failovers, the coalesced. So one scrape   *)
(* can show a later family more of a chain than an earlier one.            *)
(*                                                                         *)
(* What a chain records and when is the subject of Dispatch; Scripts are   *)
(* the chains of at most two calls. Durations and abandoned calls, which   *)
(* Stats has, are left out. The finite buckets of rpc_request_attempts are *)
(* one counter, "few", and stand for those of every histogram.             *)
(***************************************************************************)
EXTENDS Naturals, Sequences, FiniteSets, FiniteSetsExt, SequencesExt

CONSTANTS
  Chains,         \* tasks that record
  Fleet,          \* the upstreams, in the order they are loaded
  Methods,        \* method labels in use, in the order they are loaded
  Orders,         \* the orders <<u, v>> of upstreams that chains have
  LastBound,      \* the last of ATTEMPT_BOUNDS
  MaxScrapes      \* bound: scrapes in a behaviour

ASSUME ChainsAssumption == IsFiniteSet(Chains)
ASSUME FleetAssumption  == /\ Fleet \in Seq(Range(Fleet)) /\ IsInjective(Fleet)
                           /\ Methods \in Seq(Range(Methods)) /\ IsInjective(Methods)
\* A chain holds an upstream once (Ranking's ChainsAreDistinct).
ASSUME OrdersAssumption == Orders \subseteq {o \in Range(Fleet) \X Range(Fleet) : o[1] # o[2]}
ASSUME BoundsAssumption == LastBound \in Nat /\ MaxScrapes \in Nat

VARIABLES
  counters,       \* the atomics
  script,         \* script[c]: the records chain c still has to make, of the
                  \* first one the fetch_adds that are left
  ran,            \* chains that have begun
  loaded,         \* how many counters the scrape in progress has loaded
  reading,        \* their values
  overlap,        \* how many chains have been running during that scrape
  shown,          \* the scrape completed last: values and overlap
  scrapes         \* scrapes completed

vars == <<counters, script, ran, loaded, reading, overlap, shown, scrapes>>

Upstreams == Range(Fleet)
Labels    == Range(Methods)

Outcomes == <<"success", "error">>

-----------------------------------------------------------------------------
(* The counters, in the order of their loads *)

PerUpstream(u) == [i \in DOMAIN Outcomes |-> <<Outcomes[i], u>>]
PerPair(u, v)  == IF u = v THEN <<>> ELSE << <<"started", u, v>>, <<"won", u, v>> >>
PerMethod(m)   == [i \in 1..4 |->
                     <<(<<"answered", "failed", "few", "attempts">>)[i], m>>]

\* The snapshots of all of them.
ForAll(Of(_), seq) == FlattenSeq([i \in DOMAIN seq |-> Of(seq[i])])

LoadOrder ==
  ForAll(PerUpstream, Fleet)
  \o ForAll(LAMBDA u : ForAll(LAMBDA v : PerPair(u, v), Fleet), Fleet)
  \o ForAll(PerMethod, Methods)
  \o [i \in DOMAIN Fleet |-> <<"failovers", Fleet[i]>>]
  \o << <<"coalesced">> >>

Counters == Range(LoadOrder)
Nothing  == [k \in Counters |-> 0]

-----------------------------------------------------------------------------
(* Records *)

One(k) == [Nothing EXCEPT ![k] = 1]

Call(u, outcome) == One(<<outcome, u>>)

HedgeStart(u, v) == One(<<"started", u, v>>)

\* Mutation: the pair is taken the other way round.
HedgeWinSwapped(u, v) == One(<<"won", v, u>>)

HedgeWin(u, v) == One(<<"won", u, v>>)

FailoverFrom(u) == One(<<"failovers", u>>)

\* Mutation: a follower is taken off the answered requests.
CoalescedOff ==
  [One(<<"coalesced">>) EXCEPT ![<<"answered", Methods[1]>>] = 0 - 1]

Coalesced == One(<<"coalesced">>)

Request(m, answered, attempts) ==
  [One(<<IF answered THEN "answered" ELSE "failed", m>>) EXCEPT
     ![<<"attempts", m>>] = attempts,
     ![<<"few", m>>] = IF attempts <= LastBound THEN 1 ELSE 0]

\* The records of a chain for method m that tries u and then v, by how it goes;
\* and of a follower.
ScriptsOf(m, u, v) ==
  { << Call(u, "success"), Request(m, TRUE, 1) >>,
    << Call(u, "error"), Request(m, FALSE, 1) >>,
    << Call(u, "error"), FailoverFrom(u), Call(v, "success"), Request(m, TRUE, 2) >>,
    << HedgeStart(u, v), Call(v, "success"), HedgeWin(u, v),
       Request(m, TRUE, 2) >> }

Scripts == {<<Coalesced>>} \cup
  UNION {ScriptsOf(m, order[1], order[2]) : m \in Labels, order \in Orders}

-----------------------------------------------------------------------------

Running == {c \in ran : script[c] # <<>>}

Init ==
  /\ counters = Nothing
  /\ script = [c \in Chains |-> <<>>]
  /\ ran = {}
  /\ loaded = 0
  /\ reading = Nothing
  /\ overlap = 0
  /\ shown = [values |-> Nothing, overlap |-> 0]
  /\ scrapes = 0

\* A chain begins, and will record s.
Begin(c, s) ==
  /\ c \notin ran
  /\ ran' = ran \cup {c}
  /\ script' = [script EXCEPT ![c] = s]
  /\ overlap' = IF loaded = 0 THEN overlap ELSE overlap + 1
  /\ UNCHANGED <<counters, loaded, reading, shown, scrapes>>

\* One fetch_add of the record in progress, in any order. The next record
\* begins when that one is complete.
FetchAdd(c, k) ==
  /\ script[c] # <<>> /\ script[c][1][k] # 0
  /\ counters' = [counters EXCEPT ![k] = @ + script[c][1][k]]
  /\ LET left == [script[c] EXCEPT ![1][k] = 0] IN
       script' = [script EXCEPT ![c] = IF left[1] = Nothing THEN Tail(left) ELSE left]
  /\ UNCHANGED <<ran, loaded, reading, overlap, shown, scrapes>>

\* Mutation: a counter is taken, not read.
LoadTaking ==
  /\ loaded < Len(LoadOrder) /\ scrapes < MaxScrapes
  /\ LET k == LoadOrder[loaded + 1] IN
       /\ reading' = [reading EXCEPT ![k] = counters[k]]
       /\ counters' = [counters EXCEPT ![k] = 0]
  /\ loaded' = loaded + 1
  /\ overlap' = IF loaded = 0 THEN Cardinality(Running) ELSE overlap
  /\ UNCHANGED <<script, ran, shown, scrapes>>

\* The scrape's next load.
Load ==
  /\ loaded < Len(LoadOrder) /\ scrapes < MaxScrapes
  /\ LET k == LoadOrder[loaded + 1] IN reading' = [reading EXCEPT ![k] = counters[k]]
  /\ loaded' = loaded + 1
  /\ overlap' = IF loaded = 0 THEN Cardinality(Running) ELSE overlap
  /\ UNCHANGED <<counters, script, ran, shown, scrapes>>

\* The families are put together and sent.
Show ==
  /\ loaded = Len(LoadOrder)
  /\ shown' = [values |-> reading, overlap |-> overlap]
  /\ scrapes' = scrapes + 1
  /\ loaded' = 0
  /\ overlap' = 0
  /\ reading' = Nothing
  /\ UNCHANGED <<counters, script, ran>>

Next ==
  \/ \E c \in Chains :
       \/ \E s \in Scripts : Begin(c, s)
       \/ \E k \in Counters : FetchAdd(c, k)
  \/ Load \/ Show

Spec == Init /\ [][Next]_vars

-----------------------------------------------------------------------------
(* What collect makes of the loads *)

\* The methods that have a series: those with a request.
Series(v) == {m \in Labels : v[<<"answered", m>>] + v[<<"failed", m>>] > 0}

\* The +Inf bucket of rpc_request_attempts.
RequestCount(v, m) == v[<<"answered", m>>] + v[<<"failed", m>>]

-----------------------------------------------------------------------------
(* Properties *)

\* Type invariant.
TypeOK ==
  /\ {counters, reading, shown.values} \subseteq [Counters -> Nat]
  /\ \A c \in Chains : script[c] # <<>> => c \in ran /\ Head(script[c]) # Nothing
  /\ ran \subseteq Chains
  /\ loaded \in 0..Len(LoadOrder)
  /\ {overlap, shown.overlap} \subseteq 0..Cardinality(Chains)
  /\ scrapes \in 0..MaxScrapes

\* To Prometheus the counters are counters: a later scrape shows every series
\* an earlier one did, and none with a lower value, whatever was being recorded
\* during either. (A decrease would be read as a restart.)
ScrapesOnlyGrow ==
  [][LET before == shown.values
         after  == shown'.values
     IN /\ \A k \in Counters : before[k] <= after[k]
        /\ Series(before) \subseteq Series(after)]_vars

\* The families of one scrape agree but for the chains that ran while it was
\* taken: no bucket above its +Inf, no hedge won that was not started, no
\* request answered without a successful call or without an attempt, no failover
\* without an error, by more than the number of those chains.
ScrapeAddsUp ==
  LET v == shown.values
      n == shown.overlap
      Sum(Of(_), over) == MapThenSumSet(Of, over)
  IN /\ \A m \in Labels :
          /\ v[<<"few", m>>] <= RequestCount(v, m) + n
          /\ RequestCount(v, m) <= v[<<"attempts", m>>] + n
     /\ \A u, w \in Upstreams :
          u # w => v[<<"won", u, w>>] <= v[<<"started", u, w>>] + n
     /\ Sum(LAMBDA m : v[<<"answered", m>>], Labels)
          <= Sum(LAMBDA u : v[<<"success", u>>], Upstreams) + n
     /\ \A u \in Upstreams : v[<<"failovers", u>>] <= v[<<"error", u>>] + n
=============================================================================
