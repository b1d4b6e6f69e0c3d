# A TLA+ model of rpc-plus-plus

rpc-plus-plus is a proxy between an application and several Ethereum JSON-RPC
providers ("upstreams"). It picks an upstream for each call, moves on when a
call fails, can hedge slow reads, can share one call between identical
concurrent reads, and ranks upstreams by what it measured of them. This
directory holds TLA+ models of those parts, the TLC configurations that check
them on small instances, and proofs, checked by TLAPS, for instances of any
size. Paths below are relative to the repository's `src/` (`proxy/mod.rs`) or,
for documents, to its root (`docs/metrics.md`).

## The system

| Component | State | Operations | Modelled in |
|---|---|---|---|
| Request dispatch: `proxy/mod.rs`, `hedge.rs`, `attempt.rs`, `reply.rs` | one request's chain, its calls in flight, the last failure | `run` → `walk`, `race` or `send_once` → `try_once`; `finish` | `Dispatch` |
| Coalescing: `proxy/singleflight/`, `Pipeline::coalesce` | map from dedup key to a weak handle of a shared future | `join`, polls of the shared future, `Evict::drop`, `readdress` | `SingleFlight`, `Coalescing` |
| JSON-RPC bodies: `jsonrpc/` | none | shape, method, dedup key, id, fault, readdressing | `Bodies` |
| Upstream client: `upstream/` | one HTTP call | send, headers, chunks up to the cap, meaning; timeout, drop | `Client` |
| HTTP surface: `http/`, `Pipeline::proxy` | the settings in force | routing, preflight, handlers | `Exchange` |
| Observer: `observer/mod.rs`, `snapshot.rs` | atomics per upstream, per pair, per method | `record*`, `snapshot*`, `diff`, scores | `Stats`, `Scrape`; written to in `Dispatch` |
| Prometheus collector: `observer/prometheus.rs` | none | one scrape reads every counter | `Scrape` |
| Ranked deciders: `decider/least_latency`, `prefer_least_errors`, `window.rs` | published ranking (ArcSwap), request number, window of snapshots | `decide`, the refresher's `refresh` | `Ranking` |
| Round-robin decider: `decider/round_robin.rs` | one atomic ticket | `decide` | `RoundRobin` |
| Life cycle: `app.rs`, `main.rs` | listener, task set, cancellation token, signal handlers | build, serve, drain, stop, exit | `Lifecycle` |
| Settings: `config.rs` and the constructors | the settings being prepared | defaults, old key, placeholders, checks | `Settings` |
| Telemetry: `telemetry.rs` | none | sets up the log subscriber | no |

A request enters `Pipeline::proxy`. With dedup on and a body that has a dedup
key and an id, it joins the flight of its key; the leader's closure asks the
decider for a chain and runs it. Without a key it runs a chain of its own. The
chain makes calls through the upstream client; every call, failover, hedge and
finished chain is reported to the observer. The refresher of a ranked decider
reads the observer every 15 seconds and publishes a new ranking, which later
requests load. `/metrics` reads the same counters. The parts share memory, not
messages: the flights map is behind a mutex, the ranking behind an ArcSwap, the
counters are relaxed atomics. One cancellation token, and the JoinSet that owns
the refresher, tie the tasks of the process together.

### What is hard here

* A race polls several calls from one future, with a timer: answers, failures,
  timer and the caller's hang-up come in any order, and hanging up means that a
  future is dropped wherever it was suspended. Every drop guard has to leave
  the ledger right.
* A shared flight is driven by whoever polls it and dies with its last holder.
  Joining, completing, evicting and dropping overlap.
* The same body is parsed four times, by two sets of rules: one parse decides
  whether it may be sent twice, another whether it may be shared, a third whose
  id goes into the answer.
* Snapshots and scrapes are taken counter by counter while calls are recorded
  counter by counter.
* The ranking that decides who is called is computed from who was called.
* The process ends in the middle of all this: signals before their handlers,
  failing builds with a task already running, clients that do not finish.

`PROJECT.json` lists each hazard with its line and the properties about it.

### What makes each part correct

* Dispatch: each call is recorded once; each call after the first is owed to a
  failure or a timer; the counters add up to the chain; the verdict follows
  from the answers read; every request ends.
* Coalescing: at most one unfinished chain per key; the map holds exactly the
  flights that can be shared; nobody is stranded by somebody else's hang-up;
  finished answers are not cached; everybody who stays is served.
* Bodies, client, pipeline together: everyone is answered their own question
  under their own id; a write is neither repeated nor shared; an upstream's
  answer is passed on whole or not at all.
* Statistics: what a torn snapshot can show is bounded; a score is the mean
  over the calls of its window; a scrape never goes back and its families agree.
* Ranking: chains are distinct upstreams; the head is sticky; a score expires
  with its window; no upstream is starved.
* Round robin: turns are even under concurrency and across the counter's wrap.
* Life cycle: a clean stop loses no request and leaves no task; the refresher
  stops; the exit code is right; a signal ends the process.
* Settings: the server listens exactly when file and environment together mean
  something sound, and with just that.

## The modules

`Exchange` composes `Bodies`, `Client` and `Coalescing`; `SingleFlight` refines
`Coalescing`, so `Exchange` does not repeat handles and guards. `Dispatch`
models one chain in detail and takes the results of calls as given; `Exchange`
models what the results of calls are and takes a chain's calls one at a time.
`Settings` establishes what the others assume of their constants. The proofs
are in `DispatchProofs`, `SingleFlightProofs`, `ExchangeProofs`,
`RankingProofs`, `RoundRobinProofs`, `StatsProofs`, `ScrapeProofs` and
`LifecycleProofs`.

### Dispatch: one request and its chain

Slot *i* is the *i*-th upstream of the chain the decider handed out. The chain
has between 1 and `MaxAttempt` distinct upstreams: the deciders are built with
at least one upstream and take at most `max_attempt`.

| Model | Code |
|---|---|
| `Start` | `run` choosing the handler, and its first call (`walk`, `send_once`) or its first `launch` (`race`) |
| `PollLaunched` | the first poll of a future in the `FuturesUnordered`: `try_once` up to its await |
| `SettleFinal`, `SettleExhausted` | an answer, or a failure with nothing left: the handler returns, drops its futures, `record_hedge_win`, `record_request`, `finish` |
| `SettleWait`, `SettleFailover` | `race` on a retryable failure, without and with a slot left |
| `SettleSleep`, `Wake` | `walk` on a retryable failure: `record_failover`, sleep, next call |
| `TimerFires`, `LaunchHedge` | the timer branch of the select chosen, and its body; apart, because answers may arrive in between |
| `Arrive` | the upstream answers, fails, or its `rpc_timeout` expires |
| `HangUp` | the request's future is dropped where it is suspended |

`recorded`, `failovers`, `hedges`, `wins` and `requests` are what the observer
holds because of this request. "unreachable" stands for every retryable failure
without a JSON-RPC body. The select is biased and the queue is drained before
the timer is looked at. FuturesUnordered's cooperative yields, which only split
a poll, are left out.

### SingleFlight and Coalescing: identical concurrent reads

A caller joins once, so the flight it leads bears its name: `FlightId` is the
fresh name the code draws. `Shared`, `WeakShared` and their wake-ups are
library code, modelled from their use: any holder's poll drives the future, the
output is stored once, an upgrade succeeds while there is a holder. `join` and
`Evict::drop` hold the mutex and are one step each; returning, evicting and
publishing are separate steps. What a chain returns is one of three replies: an
upstream's body, the proxy's own error (null id), or a body that cannot be
readdressed. A panic inside a chain is not modelled.

`Coalescing` states the promise without handles, guards or polls: a key has at
most one flight that can be shared, whoever asks while there is one shares it,
and only the last passenger's departure ends it. `ImplementsPromise` is that
specification under a refinement mapping: a flight is `shared` while its entry
is in the map and its chain has not finished; it has a `result` once its entry
is gone.

### Bodies, Client and Exchange: from an HTTP request to its answer

`Bodies` is a set of operators. A request body is abstracted to what it starts
with, whether it is JSON, and the sequences of values it gives `method`,
`params` and `id`, because the parses differ on repeated keys: a struct
(`method_label`, `request_id`) refuses them, a `Value` (`dedup_key`) keeps the
last. Numbers at or beyond `ExactBelow` (2^64) lose digits, as they do in a
`Value`. The xxh3 hash is taken to be injective.

`Client` is `Upstream::call`: `Send`, then `SendFails` or `Headers` (status and
perhaps a declared length), `Chunk`s against the cap, `ReadFails` or
`BodyEnds`, which gives the response its `Meaning`. The timeout may strike in
every state, and `Forget` is the future being dropped.

`Exchange` adds the router (`RouteElsewhere`, `Reject`), `coalesce`
(`Coalesce`, `GoAlone`), chains that begin and try one upstream after the other
(`Decide`, `TryNext`, `CallGoesOn`), and their ends: `Land` returns a flight's
reply, `Alight` serves it to leader or follower, readdressed, or sends a
follower off alone; `Arrive` serves a chain of its own; `GiveUp` is a client
that hangs up. The actions of `Coalescing` are conjoined, with its `result`
mapped to whether a reply can be readdressed.

### Stats and Scrape: relaxed atomics

`Stats` has one upstream's counters. A call is a set of `fetch_add`s made in
any order, a snapshot one load per field in the order of the code. Fields that
are only ever used together are merged ("success" includes `rpc_caller_fault`,
"error" the four outcomes of `Diff::error`, "bucket" all finite buckets).
`calls` and `taken` only remember what happened, for the properties.

`Scrape` has the counters `Collector::collect` loads: calls per upstream,
hedges per pair, requests per method, failovers, coalesced. A chain's records
are a script (what a chain records, and when, is `Dispatch`'s subject); scrape
and chains interleave counter by counter.

### Ranking: deciders, refreshers, probes

One module for both ranked deciders. A request loads the ranking, draws its
number, is handed its chain, and in the end has called a non-empty prefix of
it. The refresher reads the counters and, in a later step, publishes. What the
calls of a window measured is up to the upstreams, so any score may come out;
`Stats` says how it is computed. Scores are compared in fifths to keep the 20%
margin in whole numbers. `requests` is kept modulo one round of probes and
`samples` relative to the oldest snapshot: the code uses nothing else of them.
`idle` is a history variable. `sort_by` is the standard library's: `Sorted`
says what it returns.

### RoundRobin

`Decide` is `fetch_add` and the rotation; `FirstCall` comes later, so tickets
and calls may be in different orders. `led` counts first calls relative to the
upstream with the fewest. Where the counter wraps, `Forgiven` takes the extra
turn of the first upstreams out of the count.

### Lifecycle

`main` runs through the fallible steps of the build, spawns the watcher,
serves, drains and stops. `BuildFails`, `ServerFails` and `Signal` may happen
wherever the code allows. The JoinSet's abort, the executor and axum's graceful
shutdown are library code, modelled from their use: draining refuses idle
connections and waits for the others; an abort takes effect at an await, and
`refresh` has none. A signal without a handler kills the process.

### Settings

`Load` gives keys their defaults and reads the old timeout key, `Expand*`
replaces placeholders, `CheckShared` and `CheckUpstream` are
`validate_settings`, `BuildUpstreams`, `Wire` and `Bind` the constructors
behind it. Texts are sequences of tokens: words, placeholders, nameless and
unterminated placeholders, and the signs and numbers that origins are made of,
so that an origin can be put together of literals and variables and is checked
as it reads then. `ValidOriginText` is `validate_origin`: where the parser ends
the host, which port it reads, and whether the text is what is formatted from
these. `Sound` says what the settings mean without the code's traversal;
`CanMatch` says how a browser spells an origin, for whatever is a host to the
parser. `Written`, `Texts` and `Tokens` are what serde can make of a file over any
set of `Words`, those in hosts (`HostWords`) and those with capitals (`Capitals`)
among them, and any `Variables`. `Lifecycle` takes these stages as steps that succeed
or fail; the proofs of both are one module, so the names here are apart:
`SettingsInit`, `SettingsNext`, `SettingsSpec`, `SettingsTypeOK`.

## The checks

| Run | Bounds | Shows |
|---|---|---|
| `dispatch` | `MaxAttempt = 4` | the safety properties of `Dispatch`, and that every request ends |
| `single_flight` | 3 callers, 2 keys | the safety properties of `SingleFlight`, that it implements `Coalescing`, and that every caller that stays is served and the map empties |
| `stats` | 1 task recording, 2 calls, 2 snapshots | bounds on what torn snapshots and windows show |
| `scrape` | 2 chains, 2 upstreams, 1 method, 2 scrapes | no series goes back; the families of a scrape agree up to the chains that ran |
| `ranking` | both deciders, 3 upstreams, 1 request at a time, 2 ticks, 3 scores, a probe every 2 requests | distinct chains, scores of the whole window, sticky head, earned overtaking |
| `ranking_live` | 3 upstreams, chains of up to 2, 1 request at a time, 1 tick, 2 scores | no upstream is starved |
| `round_robin` | 3 upstreams, 4 requests at a time, a counter of 16 values | even turns across the wrap; everyone leads again and again |
| `lifecycle` | 2 clients, 2 signals, a ranked decider | orderly stop, no refresh after the end, the refresher and the process end |
| `exchange` | 2 callers, 12 bodies, 2 builds, chains of up to 2, a cap of 1 chunk, 3 statuses | own answers, writes sent once, only whole answers |
| `settings` | families of files (below) under 8 environments | the server listens exactly when the settings are sound |
| `dispatch_chains_counted`, `exchange_inexact` | | where texts and code differ, below |

Why the bounds are enough:

* `dispatch`: four slots give a race with a hedge and a failover in both orders
  and still a slot left, two calls answered unread when a third wins, and a
  hedge launched behind two waiting answers. Three would miss a failover owed
  to a call that is neither the first nor the last.
* `single_flight`: two callers are leader and follower; the third can lead anew
  on a key whose flight is being torn down. Keys interact only by not
  interacting, so two suffice. The proofs have no bound.
* `stats`: adds are taken in any order, so one task with a record in progress
  gives every combination of seen and unseen adds; two snapshots give a window
  torn on both sides. Durations of 1 and 4 with a ladder that ends at 2 and a
  penalty of 3 put a call on either side of each.
* `scrape`: two chains are one that ends and one that begins during a scrape,
  of every kind (an answer, a failure, a failover, a hedge, a follower); two
  scrapes are a pair that can be compared. `LastBound = 1` puts a chain on
  either side of the last bucket.
* `ranking`: three upstreams are the smallest fleet with two challengers, which
  the probe rotates over and a refresh can swap. Scores 4, 5, 6 hold a pair
  exactly at the margin (4 against 5), one inside it (5 against 6) and one
  beyond it (4 against 6). `MinSamples = 1` replaces 20 and `ProbeEvery = 2`
  replaces 20: only being below or at the minimum, and on or off turn, matters.
  That a window is no shorter than it need be, `ScoresAgeOut` says for
  `MinSamples = 1`; that it is no longer, for any.
  One request at a time meets the refresher in every interleaving; requests meet
  each other only in the atomic number, and what they count is proved for any
  number of them.
* `round_robin`: 3 does not divide 16, so the rotation jumps at the wrap; four
  requests on three upstreams let two hold tickets for the same one.
* `lifecycle`: one client can be answered while the other keeps the server
  draining; the second signal can come before, while and after the first acts.
* `exchange`: the bodies are pairs that ask the same with other ids or other
  spellings of no params, reads that differ in params, methods repeated in both
  orders, params and ids repeated, numbers around `ExactBelow`, a write, and
  bodies that are none. Two callers take every pair of them. A chain of two
  upstreams has a retry; responses of 0, 1 and 2 chunks are below, at and
  beyond the cap, and one within it can break off as well; 200, 404 and 503 are success, final and retryable failure.
* `settings`: one part of the file varies at a time, together with the variable
  it may refer to (unset, a name in use, blank, a value that looks like a
  placeholder, a scheme, a host, a port, and a whole origin): fleets of up to two
  upstreams over eight texts; every combination of scheme, user, host and end of
  an origin, each right, wrong, missing and from the variable, with ports on both
  sides of what 16 bits hold; lists with repetitions, also ones that only the
  variable brings about, and wildcards; all combinations of limits given, left
  out and zero, with the old timeout key beside the new.

Deadlock is checked where the system runs for ever (`ranking`, `ranking_live`,
`round_robin`). A request ends, callers come once, a process exits and recorded
calls are bounded, so the other runs turn the check off; that nothing stops too
early is what `EveryRequestEnds`, `FlightsEnd`, `RefresherStops`,
`CaughtSignalEnds` and the refused files of `ListensExactlyWhenSound` say.

### Fairness

* `Dispatch`: the executor polls a woken task; `retry_after` elapses; each call
  ends when its `rpc_timeout` does at the latest. Nothing makes the hedge timer
  fire or the caller leave.
* `SingleFlight`: a holder's task is polled when the flight wakes it; a chain
  ends (which is `EveryRequestEnds`); a drop that has begun runs to its end.
  Nothing makes callers arrive or leave.
* `Ranking`: requests keep coming and end. The refresher has no fairness, so
  the result holds when it is slow or has been stopped by a shutdown.
* `RoundRobin`: requests keep coming, and one that has its chain makes a call.
* `Lifecycle`: tasks that can run do, a request that has been read is answered.
  The refresher's select is unbiased and ticks are far apart, so the branch of
  the token is not passed over for ever: strong fairness of `RefresherEnds`.
  Nothing makes signals come, builds fail, or clients connect, finish a request
  or leave; so `CaughtSignalEnds` is conditional on clients that do not keep a
  request half sent for ever, which `axum`'s graceful shutdown waits for.

### Where the texts and the code differ

Each of two runs checks a sentence of the repository and finds it violated.

* `dispatch_chains_counted`: `observer/mod.rs:37` and `docs/metrics.md:9` say
  that a request that ran its own chain is counted once, "however it ended". A
  chain whose caller hangs up never reaches `record_request`.
* `exchange_inexact`: `docs/design/v0.4-DEDUP.md:31` says a coalesced response
  is indistinguishable from an uncoalesced one. `dedup_key` hashes params as a
  `Value`, in which numbers of 2^64 and more are doubles, so two reads that
  differ in such a number's last digits share one answer. Elsewhere
  `AnswersOwnQuestion` excepts exactly these numbers.

Smaller ones were met while modelling and are part of the models:

* `docs/metrics.md:11` says `rpc_request_attempts` is the number of calls the
  chain made. A failover launched behind an answer that is already waiting is
  counted (`hedge.rs:98`) but dropped before its first poll.
* `docs/configuration.md:60` says each caller gets its own `id`. In the proxy's
  own error the leader, like any caller without dedup, gets null
  (`proxy/mod.rs:181`); followers are readdressed.
* `docs/configuration.md:97` says a failed call counts as
  `rpc_timeout_in_secs`. A failure that is not retryable, such as a 404, counts
  with its own time (`snapshot.rs:191`, and a unit test asks for that).
* `walk` counts a failover before it sleeps, so a hang-up in the sleep leaves a
  failover that led nowhere; `CountersExplainTheChain` allows for it.

### Mutations

For each property of each passing run there is a definition marked "Mutation"
just before the one it distorts: a plausible slip in the code (a dropped guard,
a wrong end of a queue, a missing reset) with which TLC finds the property
violated.

## The proofs

`DispatchProofs`, for every cap on the number of attempts:

* `Invariance`: `IInv`, the conjunction of `TypeOK`, `ControlAgrees` and the
  safety properties the run `dispatch` checks, is inductive. The properties
  lean on each other and on `ControlAgrees`: a failover counter is right only
  because no call was provoked by the same failure before
  (`EveryCallProvoked`); a walk that wakes fails over from the slot it read
  last only because the chain is worked off in order (`StartedInOrder`) and
  nothing is out while it sleeps (`PhasesAgree`); a failed request has failed
  on every slot only because whatever was read before it ended failed retryably
  (`VerdictsAgree`).
* each of them as a theorem of `Spec`.

The proof has one lemma per action. What two actions have in common is a lemma
of its own with the differing conjuncts as assumptions: `FinishIInv` (the
request ends), `ReadOne` (a failure is read and no call started), `StartNext`
(a slot is started and nothing read), `MoveOne` (a call moves on). `Dequeue` and
`Enqueue` say what the ready queue lists after a pop and a push.

`SingleFlightProofs`, for any set of callers and keys:

* `Invariance`: `IInv`, the conjunction of `TypeOK`, `HandlesMatchControl`,
  `EntriesAreUnfinishedFlights`, `WaitersHoldLiveFlights` and `NoForeignId`, is
  inductive. `OneOpenFlightPerKey` follows from it and is not inductive alone:
  a second flight is excluded because an unfinished flight is *in the map*
  (`EntriesAreUnfinishedFlights`), that it can be upgraded because it has a
  holder (`HandlesMatchControl`).
* the named invariants as theorems of `Spec`, and the action property
  `FollowersJoinUnfinishedFlights`;
* `Refinement`: every step of `SingleFlight` is a step of `Coalescing` or a
  stutter under the refinement mapping.

`ExchangeProofs`, for any bodies, callers, builds and limits:
`AnswersOwnQuestion`, `WritesAreSentOnce` and `OnlyWholeAnswersAreServed`. Of
`Bodies` the proof needs that a body any parser may take for a write is labelled
a write (`WritesAreLabelled`), that only reads have a key (`KeysAreReads`), and
that equal keys mean equal questions while numbers are exact (`KeysTellApart`).
The inductive invariant carries these along: an entry of the map, and whoever
waits on a flight, has the key of its leader (`EntriesAgree`,
`PassengersAgree`); a reply was made for the leader's body (`CallsAreSound`,
`RepliesAreSound`); so what a follower is served has the follower's question,
and the id it is given is its own. For writes: the calls a chain has left and
has made never exceed one together (`ChainsKeepCount`). `TypeOK` rests on a
second invariant, `TInv`, inductive once `IInv` is known: an idle chain has no
call and a call always somebody who waits for it, a chain's calls made and left
stay within the attempts (`CallsAreWanted`), and who is served has an answer
that can be served, readdressed ones included (`AnswersAreServed`).

`RankingProofs`, for any fleet, any number of requests, any window: every safety
property of the run `ranking`. Two invariants:

* `IInv`, about the window. The snapshots of a window are in order
  (`WindowInOrder`), and an upstream has a score just while a call of it is in
  the window (`ScoresAgeOut`). Neither is inductive: order is needed between any
  two snapshots, not only neighbours (`Grows`), and the window has to be flat
  over the refreshes an upstream was idle (`FlatWhileIdle`) and to rise just
  before them (`RisesBeforeIdle`).
* `RankInv`, about the ranking. What is published, and what a request has
  loaded, is a permutation of the fleet; what a request was handed are distinct
  upstreams, as many as there should be (`ServedAreHanded`); and scored
  upstreams rank first (`ScoredRankFirst`). The model's refresh picks *the*
  stable order of the sort keys; that there is one and only one is a lemma
  (`OrderedListing`, by induction on the fleet), and so are the facts `Sticky`
  and `Earned` need of it.

`ChainsAreDistinct`, `ScoresCoverTheWindow`, `TypeOK` and the action properties
`HeadIsSticky` and `OvertakingIsEarned` follow.

`RoundRobinProofs`, for any fleet, any number of requests and any width of the
ticket: `TypeOK` and `TurnsAreEven`. First calls made and owed, taken together,
are a *stair* (`Stair`): upstreams below the next ticket's have had one turn
more than the rest. A ticket moves the stair by one upstream; a wrap of the
counter starts it anew, which `Forgiven` takes off; an owed call that is made
leaves it as it is. Two upstreams then differ by at most one turn, hence in
calls by one and what the other is owed. That the model normalises its counts
(`Level`) loses nothing: no lead exceeds `MaxLead` (`LevelShifts`).

`StatsProofs`, for any writers, any calls, any durations: `TypeOK`,
`TornByOverlapOnly` and `ScoreIsTheMeanCost`. A snapshot in progress is read as
the one it would become if the rest of its loads were made at once (`View`): a
load then changes nothing, and only a `fetch_add` does. Counters and adds still
owed are together the calls recorded (`AllRecorded`); so there is a number of
calls such that a snapshot, in each field, has those calls and no others, but
for what the calls it overlapped can hide (`Faithful`); the older snapshot of a
window ends no later than the other (`SnapshotsAreFaithful`). A histogram
disagrees with its total by no more than its snapshot's overlap; a window's
retryable failures with its failures, and its mean with the mean cost of its
calls, by no more than what both its snapshots overlapped.

`ScrapeProofs`, for any fleet, methods, chains and their orders: `TypeOK`,
`ScrapesOnlyGrow` and `ScrapeAddsUp`. The families a scrape compares are pairs of
sums (`Pairs`), such as the hedges won and the hedges started. A chain adds to
the first at most once, and then to the second too; so the first and the chains
that still owe it never exceed the second and the chains that owe that
(`Backed`). A scrape in progress is again read as if completed at once (`ViewIsBacked`), so what it
shows is off by no more than the chains that overlapped it (`ShownIsBacked`).
That nothing falls needs the order of three: what the last scrape showed, what
this one has read, and the counters (`InOrder`). That every counter has its
place among the loads, and that the folds of the model are the sums the proof
counts with, are lemmas by induction.

`LifecycleProofs`, for any clients and any number of signals: `OrderlyStop` and
`NoRefreshAfterTheEnd`. What makes a stop orderly is settled phases earlier: a
draining server has been asked to, by a watcher that saw a signal
(`AskedBefore`), has no connection that could still send a request
(`NoNewRequests`), and whatever way main ends it has aborted its tasks before
(`EndsAborted`).

Also in `LifecycleProofs`, for any files and environments, and so for fleets,
lists of origins and texts of any length: `SettingsTypeOK` and
`ListensExactlyWhenSound`. The latter speaks of two outcomes and is not
inductive; `SettingsIInv` says what each stage has established on the way:

* the limits and the shape of the fleet are the file's at every stage
  (`KeepsTheFile`);
* while texts are expanded, those before the position have the values they mean
  and the others are as written (`ExpandsInOrder`), and from the checks on all
  have their values and keep them (`KeepsTheValues`);
* while they are checked, what is before the position is sound, which for an
  upstream includes that no earlier one has its label or url (`ChecksInOrder`);
  what this leaves to each position is together every pair;
* what the constructors test again is known by then or tested here
  (`BuildsFromSound`), and whatever refused had found something unsound
  (`RefusesUnsound`).

Two facts carry it. `Expanded` puts a text together with the community modules'
`FlattenSeq`, the property's `Meant` folds over it from the left; `TextMeans`
shows them equal, because each is the end of a chain of texts that grows by one
piece at a time, and there is one (`PartsInOrder`) and only one (`PartsAgree`)
such chain. And an origin is let through exactly when it is spelled as a browser
spells it (`OriginMatches`): the code formats what was parsed and compares, the
property says what such a text consists of. So comparing spellings is enough to
find duplicates.

Induction over data is done where the proofs need it, in first-order form: the
property is a set of sets, and a finite set's subsets are well-founded under
inclusion (`SetInduction`, `SubsetInduction`). Folds of the community modules
are unfolded to the function they choose, which is shown to exist and to be
the only one.

The only assumptions are about constants, named in their modules, and TLC
evaluates each in every run of its module:

* sets of actors are finite: a process has finitely many callers, chains,
  writers and requests at a time (`CallersAssumption`, `ChainsAssumption`,
  `WritersAssumption`, `TasksAssumption`, `ClientsAssumption`), and a fleet is a finite list, not
  empty where a decider ranks or rotates it (`FleetAssumption`);
* attempts and caps are positive, as the constructors require
  (`proxy/mod.rs:109`, `upstream/mod.rs:112`), and so are the numbers of the
  ranked deciders (`least_latency/mod.rs:55`, and constants beside it);
* an upstream's label is its own, as `validate_settings` requires
  (`FleetAssumption` of `Scrape`);
* durations are finitely many numbers and at least one: `micros` is a `u64`
  (`DurationsAssumption`);
* a chain holds an upstream once (`OrdersAssumption`): `Ranking` proves it of the
  ranked deciders (`ChainsAreDistinct`), and a rotation has each once;
* a ticket has at least as many values as there are upstreams: a `usize`
  counts the elements of any vector (`WrapAssumption`);
* settings are what serde makes of a file: numbers unsigned, texts strings, a
  list where a list is expected (`FilesAssumption`); an environment gives every
  variable a text, empty when it is unset (`EnvironmentsAssumption`: `expand_str`
  gives both the same error); the strings in use include the three that the code
  spells out, and no word is empty (`WordsAssumption`); a blank is no part of a
  host, and `http` and `https` have no capitals (`HostsAssumption`); and `None`, for a key that is not given, is
  none of these values (`NoneAssumption`);
* `None` is not a caller, a body or a reply; no read is a write or the label
  "other"; bodies are sequences of values.

Model-checked only: what rests on fairness (`EveryRequestEnds`, `FlightsEnd`,
`NobodyStarves`, `EveryoneLeads`, `RefresherStops`, `CaughtSignalEnds`), because
the prover has no rule for ENABLED. Every safety property of every passing run
has a theorem.

## Not modelled

* Telemetry (`telemetry.rs`): log set-up, with no state others depend on; log
  lines and warnings everywhere.
* What libraries do on their own: TLS, connection pools and redirects of
  reqwest, axum's limit on request bodies (413) and its answers to HEAD,
  reading YAML, URL parsing. `validate_origin` is modelled on tokens, not on
  characters: which words a host may have is a constant, and neighbouring words
  or numbers are not merged, so a port that a literal and a variable make up
  together is not a port here.
* Response headers, and the rendering of metrics beyond the families and their
  values.
* Panics. Collisions of the 128-bit hash (xxh3) that names a dedup key.
* Memory ordering beyond relaxed counters. The wrap of 64-bit counters, except
  the round-robin ticket's.

## Plan

1. (done) All components with state: `Dispatch`, `SingleFlight` with
   `Coalescing`, `Stats`, `Scrape`, `Ranking`, `RoundRobin`, `Lifecycle`,
   `Bodies` and `Client` composed in `Exchange`, `Settings`.
2. (done) Proofs of every safety property the runs check, and of the refinement
   of `Coalescing`.
3. Left: liveness by hand-made ranking arguments, should the prover learn
   ENABLED.
