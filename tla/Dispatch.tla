------------------------------ MODULE Dispatch ------------------------------
(***************************************************************************)
(* One request running its own chain of upstreams (src/src/proxy).         *)
(*                                                                         *)
(* The decider hands the request a chain of distinct upstreams, best       *)
(* first.  Slot i is the i-th upstream of that chain, so the ledger of a   *)
(* slot is what the observer holds about one upstream because of this      *)
(* request.  Three handlers consume the chain:                             *)
(*                                                                         *)
(*   sequential    Core::walk: one call at a time, the next slot after a   *)
(*                 retryable failure and a sleep of retry_after;           *)
(*   hedged_read   hedge::race: the next slot is launched by a retryable   *)
(*                 failure (failover) or by a timer (hedge), all of them   *)
(*                 polled from one FuturesUnordered;                       *)
(*   hedged_write  Core::send_once: one call, never repeated.              *)
(*                                                                         *)
(* A step is what one task does between two points where another party can *)
(* act.  Upstream answers arrive on the reactor's side at any time; they   *)
(* take effect when the task polls them, in the order of the ready queue.  *)
(* The caller may hang up whenever the task is suspended: the future is    *)
(* dropped, and each armed Attempt guard records itself abandoned.         *)
(***************************************************************************)
EXTENDS Naturals, Sequences

CONSTANT MaxAttempt     \* proxy.max_attempt: the cap on calls per request

ASSUME MaxAttemptAssumption == MaxAttempt \in Nat \ {0}

VARIABLES
  mode,        \* which handler runs: dispatch setting x kind of method
  limit,       \* length of the chain: the decider takes at most MaxAttempt
  phase,       \* control of the request's future
  next,        \* slots 1..next have been started (walk: pushed on `tried`)
  state,       \* state[i]: the call to slot i, seen from its Attempt guard
  verdict,     \* verdict[i]: how upstream i answered, once it has
  cause,       \* cause[i]: why slot i was started
  ready,       \* FuturesUnordered's ready queue; also the one awaited call
  fired,       \* the hedge timer won the select and its branch is running
  failed,      \* the slot held in last_failure, 0 for None
  reply,       \* what the caller is answered
  recorded,    \* recorded[i][v]: rpc_attempts_total{upstream i, outcome v}
  failovers,   \* failovers[i]: rpc_failovers_total{upstream i}
  hedges,      \* hedges[i]: hedges that overtook slot i, to slot i + 1
  wins,        \* wins[i]: those that answered first
  requests     \* RequestStats of the request's method

vars == <<mode, limit, phase, next, state, verdict, cause, ready, fired,
          failed, reply, recorded, failovers, hedges, wins, requests>>

ledgers == <<recorded, failovers, hedges, wins, requests>>

-----------------------------------------------------------------------------
(* Vocabulary *)

Slots  == 1..MaxAttempt
Modes  == {"sequential", "hedged_read", "hedged_write"}
Phases == {"idle", "running", "sleeping", "done", "hung_up"}

\* What a call can end with. "unreachable" stands for every retryable failure
\* without a JSON-RPC body (connect error, timeout, short read, 429, 5xx),
\* "error_status" for every other HTTP status.
Outcomes  == {"success", "unreachable", "rpc_error", "error_status",
              "rpc_caller_fault"}
Retryable == {"unreachable", "rpc_error"}
HasBody   == {"success", "rpc_error", "rpc_caller_fault"}
Pending   == "pending"

\* What an attempt can leave in the observer's ledger.
Records == Outcomes \cup {"abandoned"}
Nothing == [r \in Records |-> 0]

\* launched: pushed on FuturesUnordered, not polled yet, so not called;
\* inflight: called, the Attempt guard is armed; arrived: the answer waits in
\* the ready queue, the guard is still armed; settled: the guard is disarmed;
\* abandoned: the guard was dropped armed; never_called: dropped unpolled.
States == {"unstarted", "launched", "inflight", "arrived", "settled",
           "abandoned", "never_called"}
Armed  == {"inflight", "arrived"}

NoCause      == [kind |-> "none", of |-> 0]
First        == [kind |-> "first", of |-> 0]
Hedge(i)     == [kind |-> "hedge", of |-> i]
Failover(i)  == [kind |-> "failover", of |-> i]
Causes       == [kind : {"none", "first", "hedge", "failover"}, of : 0..MaxAttempt]

NoReply          == [kind |-> "none", of |-> 0]
BodyOf(i)        == [kind |-> "body", of |-> i]
InternalError(i) == [kind |-> "internal_error", of |-> i]
Replies == [kind : {"none", "body", "internal_error"}, of : 0..MaxAttempt]

more == next < limit
Out  == {i \in Slots : state[i] \in {"launched", "inflight", "arrived"}}

-----------------------------------------------------------------------------

Init ==
  /\ mode \in Modes
  /\ limit \in Slots
  /\ phase = "idle"
  /\ next = 0
  /\ state = [i \in Slots |-> "unstarted"]
  /\ verdict = [i \in Slots |-> Pending]
  /\ cause = [i \in Slots |-> NoCause]
  /\ ready = <<>>
  /\ fired = FALSE
  /\ failed = 0
  /\ reply = NoReply
  /\ recorded = [i \in Slots |-> Nothing]
  /\ failovers = [i \in Slots |-> 0]
  /\ hedges = [i \in Slots |-> 0]
  /\ wins = [i \in Slots |-> 0]
  /\ requests = [answered |-> 0, failed |-> 0, attempts |-> 0]

-----------------------------------------------------------------------------
(* Pieces of the handlers *)

\* try_once up to its await: the guard is armed and the call is on the wire.
Call(i, why) ==
  /\ next' = i
  /\ state' = [state EXCEPT ![i] = "inflight"]
  /\ cause' = [cause EXCEPT ![i] = why]

\* race's launch: the future is queued, try_once has not run yet.
Launch(settled, i, why) ==
  /\ next' = i
  /\ state' = [settled EXCEPT ![i] = "launched"]
  /\ cause' = [cause EXCEPT ![i] = why]

\* Attempt::finish for slot i, then Attempt::drop for the guards of the other
\* calls if the handler returns: a future dropped unpolled records nothing.
RecordSettled(i) ==
  recorded' = [recorded EXCEPT ![i][verdict[i]] = @ + 1]

DropOthers(settled) ==
  [j \in Slots |-> IF settled[j] \in Armed THEN "abandoned"
                   ELSE IF settled[j] = "launched" THEN "never_called"
                   ELSE settled[j]]

\* Mutation: an answer that arrived but was not read is not recorded.
RecordDroppedIfUnanswered(ledger, settled) ==
  [j \in Slots |-> IF settled[j] = "inflight"
                   THEN [ledger[j] EXCEPT !["abandoned"] = @ + 1]
                   ELSE ledger[j]]

RecordDropped(ledger, settled) ==
  [j \in Slots |-> IF settled[j] \in Armed
                   THEN [ledger[j] EXCEPT !["abandoned"] = @ + 1]
                   ELSE ledger[j]]

\* The handler returns the result of slot i: its other futures are dropped,
\* race records the win of a hedge, run records the request, finish answers.
Finish(i) ==
  LET settled == [state EXCEPT ![i] = "settled"]
      ok      == verdict[i] = "success"
  IN /\ phase' = "done"
     /\ state' = DropOthers(settled)
     /\ recorded' = RecordDropped(
                      [recorded EXCEPT ![i][verdict[i]] = @ + 1], settled)
     /\ ready' = <<>>
     /\ reply' = IF verdict[i] \in HasBody THEN BodyOf(i) ELSE InternalError(i)
     /\ wins' = IF ok /\ cause[i].kind = "hedge"
                THEN [wins EXCEPT ![cause[i].of] = @ + 1]
                ELSE wins
     /\ requests' = [answered |-> requests.answered + (IF ok THEN 1 ELSE 0),
                     failed   |-> requests.failed + (IF ok THEN 0 ELSE 1),
                     attempts |-> requests.attempts + next]
     /\ failed' = IF ok THEN failed ELSE i
     /\ UNCHANGED <<next, cause, failovers, hedges>>

\* The result that is polled next.
Arrived(i) ==
  /\ phase = "running"
  /\ ~fired
  /\ ready # <<>>
  /\ i = Head(ready)
  /\ state[i] = "arrived"

\* Every call is unanswered and none is queued to be polled.
Suspended == phase = "running" /\ ~fired /\ \A i \in Slots : state[i] # "launched"

-----------------------------------------------------------------------------
(* The request's task *)

\* First poll of the future: the first slot of the chain is called; race puts
\* it on its queue first.
Start ==
  /\ phase = "idle"
  /\ phase' = "running"
  /\ IF mode = "hedged_read"
     THEN Launch(state, 1, First) /\ ready' = <<1>>
     ELSE Call(1, First) /\ UNCHANGED ready
  /\ UNCHANGED <<mode, limit, verdict, fired, failed, reply, ledgers>>

\* FuturesUnordered polls a future for the first time: try_once runs to its
\* await.
PollLaunched ==
  /\ phase = "running"
  /\ ~fired
  /\ ready # <<>>
  /\ state[Head(ready)] = "launched"
  /\ state' = [state EXCEPT ![Head(ready)] = "inflight"]
  /\ ready' = Tail(ready)
  /\ UNCHANGED <<mode, limit, phase, next, verdict, cause, fired, failed,
                 reply, ledgers>>

\* An answer, or a failure no further attempt may follow, ends the request.
\* send_once ends on whatever its only call returned.
SettleFinal(i) ==
  /\ Arrived(i)
  /\ mode = "hedged_write" \/ verdict[i] \notin Retryable
  /\ Finish(i)
  /\ UNCHANGED <<mode, limit, verdict, fired>>

\* Mutation: the race gives up as soon as its chain is used up.
SettleExhaustedEarly(i) ==
  /\ Arrived(i)
  /\ mode # "hedged_write" /\ verdict[i] \in Retryable
  /\ ~more
  /\ Finish(i)
  /\ UNCHANGED <<mode, limit, verdict, fired>>

\* Mutation: the race looks for other calls before it has removed this one.
SettleExhaustedNever(i) ==
  /\ Arrived(i)
  /\ mode # "hedged_write" /\ verdict[i] \in Retryable
  /\ ~more /\ Out = {}
  /\ Finish(i)
  /\ UNCHANGED <<mode, limit, verdict, fired>>

\* A retryable failure with nothing left to start and nothing left to wait for:
\* retries_exhausted.
SettleExhausted(i) ==
  /\ Arrived(i)
  /\ mode # "hedged_write" /\ verdict[i] \in Retryable
  /\ ~more /\ Out = {i}
  /\ Finish(i)
  /\ UNCHANGED <<mode, limit, verdict, fired>>

\* Mutation: a failure waits for the other calls although a slot is left.
SettleWaitFirst(i) ==
  /\ Arrived(i)
  /\ mode = "hedged_read" /\ verdict[i] \in Retryable
  /\ Out # {i}
  /\ state' = [state EXCEPT ![i] = "settled"]
  /\ RecordSettled(i)
  /\ ready' = Tail(ready)
  /\ failed' = i
  /\ UNCHANGED <<mode, limit, phase, next, verdict, cause, fired, reply,
                 failovers, hedges, wins, requests>>

\* A retryable failure while other calls of the race are still out and the
\* chain has no slot left: keep the failure and wait.
SettleWait(i) ==
  /\ Arrived(i)
  /\ mode = "hedged_read" /\ verdict[i] \in Retryable
  /\ ~more /\ Out # {i}
  /\ state' = [state EXCEPT ![i] = "settled"]
  /\ RecordSettled(i)
  /\ ready' = Tail(ready)
  /\ failed' = i
  /\ UNCHANGED <<mode, limit, phase, next, verdict, cause, fired, reply,
                 failovers, hedges, wins, requests>>

\* race: a retryable failure launches the next slot at once.
SettleFailover(i) ==
  /\ Arrived(i)
  /\ mode = "hedged_read" /\ verdict[i] \in Retryable
  /\ more
  /\ Launch([state EXCEPT ![i] = "settled"], next + 1, Failover(i))
  /\ RecordSettled(i)
  /\ ready' = Append(Tail(ready), next + 1)
  /\ failed' = i
  /\ failovers' = [failovers EXCEPT ![i] = @ + 1]
  /\ UNCHANGED <<mode, limit, phase, verdict, fired, reply, hedges, wins,
                 requests>>

\* Mutation: writes are retried like the reads of a sequential proxy.
SettleSleepWrites(i) ==
  /\ Arrived(i)
  /\ mode # "hedged_read" /\ verdict[i] \in Retryable
  /\ more
  /\ phase' = "sleeping"
  /\ state' = [state EXCEPT ![i] = "settled"]
  /\ RecordSettled(i)
  /\ ready' = Tail(ready)
  /\ failed' = i
  /\ failovers' = [failovers EXCEPT ![i] = @ + 1]
  /\ UNCHANGED <<mode, limit, next, verdict, cause, fired, reply, hedges,
                 wins, requests>>

\* walk: the failover is recorded, then the task sleeps for retry_after.
SettleSleep(i) ==
  /\ Arrived(i)
  /\ mode = "sequential" /\ verdict[i] \in Retryable
  /\ more
  /\ phase' = "sleeping"
  /\ state' = [state EXCEPT ![i] = "settled"]
  /\ RecordSettled(i)
  /\ ready' = Tail(ready)
  /\ failed' = i
  /\ failovers' = [failovers EXCEPT ![i] = @ + 1]
  /\ UNCHANGED <<mode, limit, next, verdict, cause, fired, reply, hedges,
                 wins, requests>>

\* retry_after has passed: the next upstream is tried.
Wake ==
  /\ phase = "sleeping"
  /\ phase' = "running"
  /\ Call(next + 1, Failover(next))
  /\ UNCHANGED <<mode, limit, verdict, ready, fired, failed, reply, ledgers>>

\* Mutation: the timer runs although the chain is used up.
TimerFiresAtTheEnd ==
  /\ Suspended
  /\ mode = "hedged_read"
  /\ ready = <<>>
  /\ fired' = TRUE
  /\ UNCHANGED <<mode, limit, phase, next, state, verdict, cause, ready,
                 failed, reply, ledgers>>

\* hedge_after of the slot started last has passed. The select is biased: the
\* timer is looked at only when no future is ready.
TimerFires ==
  /\ Suspended
  /\ mode = "hedged_read"
  /\ more
  /\ ready = <<>>
  /\ fired' = TRUE
  /\ UNCHANGED <<mode, limit, phase, next, state, verdict, cause, ready,
                 failed, reply, ledgers>>

\* Mutation: the hedge is counted against the upstream it goes to.
LaunchHedgeMiscounted ==
  /\ fired
  /\ fired' = FALSE
  /\ Launch(state, next + 1, Hedge(next))
  /\ ready' = Append(ready, next + 1)
  /\ hedges' = [hedges EXCEPT ![next + 1] = @ + 1]
  /\ UNCHANGED <<mode, limit, phase, verdict, failed, reply, recorded,
                 failovers, wins, requests>>

\* The timer's branch: answers may have arrived since it was chosen, and they
\* are queued ahead of the hedge.
LaunchHedge ==
  /\ fired
  /\ fired' = FALSE
  /\ Launch(state, next + 1, Hedge(next))
  /\ ready' = Append(ready, next + 1)
  /\ hedges' = [hedges EXCEPT ![next] = @ + 1]
  /\ UNCHANGED <<mode, limit, phase, verdict, failed, reply, recorded,
                 failovers, wins, requests>>

-----------------------------------------------------------------------------
(* The other parties *)

\* The upstream answers, fails, or its rpc_timeout expires.
Arrive(i, v) ==
  /\ phase = "running"
  /\ state[i] = "inflight"
  /\ state' = [state EXCEPT ![i] = "arrived"]
  /\ verdict' = [verdict EXCEPT ![i] = v]
  /\ ready' = Append(ready, i)
  /\ UNCHANGED <<mode, limit, phase, next, cause, fired, failed, reply,
                 ledgers>>

\* The last holder of the request's future drops it where it is suspended,
\* before its first poll included.
HangUp ==
  /\ phase \in {"idle", "sleeping"} \/ Suspended
  /\ phase' = "hung_up"
  /\ state' = DropOthers(state)
  /\ recorded' = RecordDropped(recorded, state)
  /\ ready' = <<>>
  /\ UNCHANGED <<mode, limit, next, verdict, cause, fired, failed, reply,
                 failovers, hedges, wins, requests>>

-----------------------------------------------------------------------------

Settle(i) ==
  \/ SettleFinal(i)
  \/ SettleExhausted(i)
  \/ SettleWait(i)
  \/ SettleFailover(i)
  \/ SettleSleep(i)

Task ==
  \/ Start
  \/ PollLaunched
  \/ \E i \in Slots : Settle(i)
  \/ Wake
  \/ LaunchHedge

Next ==
  \/ Task
  \/ TimerFires
  \/ \E i \in Slots, v \in Outcomes : Arrive(i, v)
  \/ HangUp

\* The executor polls a woken task, the sleep of retry_after elapses, and each
\* call ends at the latest when its rpc_timeout does.
Fairness ==
  /\ WF_vars(Task)
  /\ \A i \in Slots : WF_vars(\E v \in Outcomes : Arrive(i, v))

Spec == Init /\ [][Next]_vars

FairSpec == Spec /\ Fairness
-----------------------------------------------------------------------------
(* Properties *)

TypeOK ==
  /\ mode \in Modes
  /\ limit \in Slots
  /\ phase \in Phases
  /\ next \in 0..MaxAttempt
  /\ state \in [Slots -> States]
  /\ verdict \in [Slots -> Outcomes \cup {Pending}]
  /\ cause \in [Slots -> Causes]
  /\ ready \in Seq(Slots)
  /\ fired \in BOOLEAN
  /\ failed \in {0} \cup Slots
  /\ reply \in Replies
  /\ recorded \in [Slots -> [Records -> Nat]]
  /\ failovers \in [Slots -> Nat]
  /\ hedges \in [Slots -> Nat]
  /\ wins \in [Slots -> Nat]
  /\ requests \in [answered : Nat, failed : Nat, attempts : Nat]

Over == phase \in {"done", "hung_up"}

\* Exactly one record of kind r.
Once(r) == [q \in Records |-> IF q = r THEN 1 ELSE 0]

\* Every call that was made is in the ledger exactly once when it is over, as
\* its outcome if the task read it and as abandoned if the guard was dropped,
\* an answer that arrived unread included; a call still out, and one that was
\* queued but never made, is not in it. No call outlives its request
\* (attempt.rs: Attempt::finish disarms, Drop records).
EveryCallRecordedOnce ==
  /\ \A i \in Slots :
       recorded[i] = IF state[i] = "settled" THEN Once(verdict[i])
                     ELSE IF state[i] = "abandoned" THEN Once("abandoned")
                     ELSE Nothing
  /\ Over => Out = {}

\* Every call after the first is owed to one earlier call: a failover to one
\* that failed retryably and was read, a hedge to its predecessor, in a race
\* only. No call provokes two failovers, and a write sent by a hedging proxy
\* provokes nothing.
EveryCallProvoked ==
  /\ mode = "hedged_write" => next <= 1
  /\ \A k \in 2..next :
       \/ cause[k] = Hedge(k - 1) /\ mode = "hedged_read"
       \/ \E i \in 1..(k - 1) :
            /\ cause[k] = Failover(i)
            /\ state[i] = "settled" /\ verdict[i] \in Retryable
            /\ \A j \in 2..next : cause[j] = Failover(i) => j = k

\* The failover and hedge counters say exactly why the chain is as long as it
\* is (docs/metrics.md: "More than one attempt means a failover, a hedge, or
\* both"). The one exception is a walk that is asleep, or was dropped there:
\* its failover is counted before the call it leads to.
CountersExplainTheChain ==
  \A i \in Slots :
    /\ hedges[i] = IF \E k \in 2..next : cause[k] = Hedge(i) THEN 1 ELSE 0
    /\ failovers[i] =
         IF \/ \E k \in 2..next : cause[k] = Failover(i)
            \/ /\ phase \in {"sleeping", "hung_up"} /\ mode = "sequential"
               /\ i = next /\ state[i] = "settled"
         THEN 1 ELSE 0

\* While a race has a slot left, the slot it started last is unread, so the
\* upstream the timer blames as overtaken is one still owing an answer: a
\* retryable failure of it would have started another slot at once.
HedgeOvertakesOpenCall ==
  mode = "hedged_read" /\ phase = "running" /\ more => next \in Out

\* A request is failed only on the evidence the configuration asks for: a
\* failure that no upstream would answer differently, the only call of a
\* write, or a retryable failure of every slot of the chain, read by the task.
\* The caller is then told the failure read last. An answered request has the
\* body of the one call that succeeded, and a hedge won exactly if that call
\* was a hedge.
VerdictOnEvidence ==
  phase = "done" =>
    \/ /\ requests.answered = 1 /\ requests.failed = 0
       /\ \E i \in 1..next :
            /\ state[i] = "settled" /\ verdict[i] = "success"
            /\ reply = BodyOf(i)
            /\ \A j \in Slots :
                 /\ j # i /\ state[j] = "settled" => verdict[j] \in Retryable
                 /\ wins[j] = IF cause[i] = Hedge(j) THEN 1 ELSE 0
    \/ /\ requests.answered = 0 /\ requests.failed = 1
       /\ failed \in 1..next /\ state[failed] = "settled"
       /\ verdict[failed] # "success"
       /\ reply = IF verdict[failed] \in HasBody
                  THEN BodyOf(failed) ELSE InternalError(failed)
       /\ \/ verdict[failed] \notin Retryable
          \/ mode = "hedged_write"
          \/ \A i \in 1..limit : state[i] = "settled" /\ verdict[i] \in Retryable
       /\ \A j \in Slots : wins[j] = 0

\* q holds the members of W, each once.
Lists(q, W) ==
  /\ q \in Seq(Slots)
  /\ \A k, l \in 1..Len(q) : q[k] = q[l] => k = l
  /\ \A i \in Slots : i \in W <=> \E k \in 1..Len(q) : q[k] = i

\* The ready queue holds exactly the futures to be polled.
Queued      == {i \in Slots : state[i] \in {"launched", "arrived"}}
QueueAgrees == Lists(ready, Queued)

\* The chain is worked off in order.
StartedInOrder == \A k \in Slots : k <= next <=> state[k] # "unstarted"

\* A slot has a verdict from the moment its answer arrives. Before the request
\* is over nothing has been dropped, and what the task has read so far failed
\* retryably, the latest of it in last_failure.
VerdictsAgree ==
  /\ \A i \in Slots :
       /\ state[i] \in {"unstarted", "launched", "inflight", "never_called"}
          => verdict[i] = Pending
       /\ state[i] \in {"arrived", "settled"} => verdict[i] \in Outcomes
       /\ ~Over => state[i] \notin {"abandoned", "never_called"}
       /\ ~Over /\ state[i] = "settled" => verdict[i] \in Retryable /\ failed # 0
  /\ failed # 0 => failed <= next /\ state[failed] = "settled"

\* A running request waits for some call, so the race never sleeps on an empty
\* set; outside a race that is the call of the slot started last, and a walk
\* sleeps only while it has a slot left and no call out.
PhasesAgree ==
  /\ next <= limit
  /\ phase = "idle" => next = 0
  /\ phase = "done" => next >= 1
  /\ next >= 1 => cause[1] = First
  /\ phase = "running" => next >= 1 /\ Out # {}
  /\ phase = "running" /\ mode # "hedged_read" => Out = {next}
  /\ mode # "hedged_read" => ~fired /\ \A i \in Slots : state[i] # "launched"
  /\ phase = "sleeping" => /\ mode = "sequential" /\ next >= 1 /\ more
                           /\ Out = {}
  /\ fired => phase = "running" /\ more

\* What is counted once per request is counted only when it is done.
NothingCountedEarly ==
  phase # "done" => /\ requests = [answered |-> 0, failed |-> 0, attempts |-> 0]
                    /\ \A i \in Slots : wins[i] = 0
                    /\ reply = NoReply

\* Control, queue and calls agree.
ControlAgrees ==
  /\ StartedInOrder
  /\ QueueAgrees
  /\ VerdictsAgree
  /\ PhasesAgree
  /\ NothingCountedEarly

\* Every request ends: each call is bounded by its timeout, each chain by the
\* cap, and no order of failures, timers and late answers leaves the race
\* waiting on an empty set of calls.
EveryRequestEnds == <>Over

-----------------------------------------------------------------------------
(* What the repository's texts say and the code does not do *)

\* src/src/observer/mod.rs:37, "Once per request that ran its own chain,
\* however it ended."
EveryChainIsCounted ==
  Over /\ next > 0 => requests.answered + requests.failed = 1
=============================================================================
